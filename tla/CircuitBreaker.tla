--------------------------- MODULE CircuitBreaker ---------------------------
(***************************************************************************)
(* The circuit breaker of packages/resilience, as operators on the state   *)
(* of one breaker. A breaker is a record; "rested" says that               *)
(* recoveryTimeout has passed since the circuit opened.                    *)
(***************************************************************************)
EXTENDS Naturals

CONSTANTS FailureThreshold,   \* failures in a row that open the circuit
          SuccessThreshold,   \* successful trials that close it again
          HalfOpenMaxTrials   \* trials at a time while HALF_OPEN

(* The options the schema accepts: positive thresholds.                    *)
ValidOptions ==
  {FailureThreshold, SuccessThreshold, HalfOpenMaxTrials} \subseteq Nat \ {0}

ASSUME BreakerOptions == ValidOptions

Breakers == [state : {"CLOSED", "OPEN", "HALF_OPEN"},
             failureCount : 0..FailureThreshold,
             successCount : 0..SuccessThreshold,
             activeTrialsCount : 0..HalfOpenMaxTrials,
             rested : BOOLEAN]

NewBreaker == [state |-> "CLOSED", failureCount |-> 0, successCount |-> 0,
               activeTrialsCount |-> 0, rested |-> FALSE]

transitionTo(b, s) ==
  IF b.state = s THEN b
  ELSE CASE s = "CLOSED" -> NewBreaker
         [] s = "OPEN" -> [b EXCEPT !.state = s, !.activeTrialsCount = 0,
                                    !.rested = FALSE]
         [] s = "HALF_OPEN" -> [NewBreaker EXCEPT !.state = s]

checkRecovery(b) ==
  IF b.state = "OPEN" /\ b.rested THEN transitionTo(b, "HALF_OPEN") ELSE b

(* execute, up to the call: refused, or admitted and counted as a trial.   *)
refusalWhenOpenOnly(b) == IF checkRecovery(b).state = "OPEN" THEN "open" ELSE "none"

refusal(b) ==
  CASE checkRecovery(b).state = "OPEN" -> "open"
    [] /\ checkRecovery(b).state = "HALF_OPEN"
       /\ checkRecovery(b).activeTrialsCount >= HalfOpenMaxTrials -> "halfOpen"
    [] OTHER -> "none"

execute(b) ==
  LET c == checkRecovery(b) IN
    IF c.state = "HALF_OPEN" /\ refusal(b) = "none"
    THEN [c EXCEPT !.activeTrialsCount = @ + 1] ELSE c

trialsLess(b) == [b EXCEPT !.activeTrialsCount = IF @ > 0 THEN @ - 1 ELSE 0]

handleSuccessUncounted(b) ==
  IF b.state = "CLOSED" THEN [b EXCEPT !.failureCount = 0] ELSE b

handleSuccess(b) ==
  CASE b.state = "HALF_OPEN" ->
         LET c == [trialsLess(b) EXCEPT !.successCount = @ + 1] IN
           IF c.successCount >= SuccessThreshold
           THEN transitionTo(c, "CLOSED") ELSE c
    [] b.state = "CLOSED" -> [b EXCEPT !.failureCount = 0]
    [] OTHER -> b

handleFailure(b) ==
  CASE b.state = "HALF_OPEN" -> transitionTo(trialsLess(b), "OPEN")
    [] b.state = "CLOSED" ->
         LET c == [b EXCEPT !.failureCount = @ + 1] IN
           IF c.failureCount >= FailureThreshold
           THEN transitionTo(c, "OPEN") ELSE c
    [] OTHER -> b
=============================================================================
