--------------------------- MODULE ServiceLifecycle ---------------------------
(***************************************************************************)
(* One process of a service from its first connection to its exit: the     *)
(* bootstrap of its server.ts (packages/http/src/runBootstrap.ts and       *)
(* startServer.ts), the graceful shutdown that signals, unhandled errors   *)
(* and a failed bootstrap share, and the readiness probe.                  *)
(*                                                                         *)
(* Bootstrap and shutdown are two asynchronous functions: a signal may     *)
(* start the shutdown while the bootstrap is still starting workers.       *)
(***************************************************************************)
EXTENDS Naturals, Sequences, ServiceWiring

CONSTANTS
  Deployed,      \* the services of the instance
  MaxFaults      \* bound: failures, hangs and timeouts in a behaviour

ASSUME DeployedAssumption == Deployed \subseteq Services
ASSUME LifecycleBoundsAssumption == MaxFaults \in Nat

VARIABLES
  svc,        \* the service this process runs
  boot,       \* where its bootstrap stands
  at,         \* position in the step list boot works through
  starting,   \* workers whose start is awaited, or was when a start failed
  running,    \* workers at work
  open,       \* connections and channels open
  late,       \* connections whose connect timed out and may still come up
  http,       \* "down", "listening", "closing" or "closed"
  request,    \* is an HTTP request being served?
  down,       \* where executeShutdown stands
  sat,        \* position in the step list of the shutdown
  code,       \* the exit code executeShutdown was called with
  hadError,   \* did a shutdown step fail?
  exit,       \* exit code of the process; "none" while it runs
  wasReady,   \* was the bootstrap complete when the shutdown began?
  probe,      \* probe[d]: the shared promise of d's probe
  readiness,  \* the latest answer of /ready
  faults      \* faults so far

bootVars == <<svc, boot, at, starting, late>>
downVars == <<down, sat, code, hadError, wasReady>>
probeVars == <<probe, readiness>>
processVars == <<bootVars, running, open, http, request, downVars, exit, probeVars, faults>>

alive == exit = "none"
context == boot \in {"listen", "after", "ready", "failedAfter", "stuck"}
startSteps == container[svc].start \o server[svc].grpc
stopSteps == server[svc].grpc \o container[svc].stop

ProcessTypeOK ==
  /\ svc \in Deployed
  /\ boot \in {"connect", "build", "listen", "after", "ready", "failed", "failedAfter", "stuck"}
  /\ at \in 1..6 /\ sat \in 1..6
  /\ starting \subseteq workersOf(svc) /\ running \subseteq workersOf(svc)
  /\ open \subseteq Connections \cup Channels
  /\ late \subseteq Connections
  /\ http \in {"down", "listening", "closing", "closed"}
  /\ request \in BOOLEAN /\ hadError \in BOOLEAN /\ wasReady \in BOOLEAN
  /\ down \in {"no", "before", "hung", "http", "after", "telemetry", "exit"}
  /\ code \in {0, 1}
  /\ exit \in {"none", "0", "1", "killed"}
  /\ probe \in [probes[svc] -> {"none", "pending"}]
  /\ readiness \in {"none", "waiting", "failing", "ready", "unhealthy"}
  /\ faults \in 0..MaxFaults

ProcessInit ==
  /\ svc \in Deployed
  /\ boot = "connect" /\ at = 1
  /\ starting = {} /\ running = {} /\ open = {} /\ late = {}
  /\ http = "down" /\ request = FALSE
  /\ down = "no" /\ sat = 1 /\ code = 0 /\ hadError = FALSE /\ wasReady = FALSE
  /\ exit = "none"
  /\ probe = [d \in probes[svc] |-> "none"] /\ readiness = "none"
  /\ faults = 0

Fault == faults < MaxFaults /\ faults' = faults + 1

-----------------------------------------------------------------------------
(* Bootstrap.                                                              *)

(* One awaited init call of server.ts; startServer is called once all of   *)
(* them have succeeded and the container is built.                         *)
connect ==
  /\ alive /\ boot = "connect" /\ at <= Len(server[svc].connect)
  /\ open' = open \cup {server[svc].connect[at]}
  /\ IF at = Len(server[svc].connect)
       THEN boot' = "build" /\ at' = 1
       ELSE boot' = boot /\ at' = at + 1
  /\ UNCHANGED <<svc, starting, late, running, http, request, downVars, exit, probeVars, faults>>

(* The init call rejects, or is given up while it goes on. *)
connectFails ==
  /\ alive /\ boot = "connect" /\ Fault
  /\ boot' = "failed"
  /\ LET d == server[svc].connect[at]
     IN  \/ "rejected" \in initOutcomes[d] /\ late' = late
         \/ "late" \in initOutcomes[d] /\ late' = late \cup {d}
  /\ UNCHANGED <<svc, at, starting, running, open, http, request, downVars, exit, probeVars>>

lateConnect ==
  /\ alive /\ late \ open # {} /\ down # "exit"
  /\ \E d \in late \ open : open' = open \cup {d}
  /\ UNCHANGED <<bootVars, running, http, request, downVars, exit, probeVars, faults>>

(* The dynamic import of container and app; building the container opens   *)
(* its gRPC channels.  startServer then records the shutdown context and   *)
(* installs the signal handlers before it first awaits.                    *)
buildContainer ==
  /\ alive /\ boot = "build"
  /\ open' = open \cup channelsOf(svc)
  /\ boot' = "listen"
  /\ UNCHANGED <<svc, at, starting, late, running, http, request, downVars, exit, probeVars, faults>>

listen ==
  /\ alive /\ boot = "listen"
  /\ http' = IF server[svc].mode = "http" THEN "listening" ELSE http
  /\ boot' = "after" /\ at' = 1
  /\ UNCHANGED <<svc, starting, late, running, open, request, downVars, exit, probeVars, faults>>

(* afterListen: each step starts its workers and awaits all of them.       *)
startStep ==
  /\ alive /\ boot = "after" /\ at <= Len(startSteps) /\ starting = {}
  /\ startSteps[at] \cap running = {}
  /\ starting' = startSteps[at]
  /\ IF startSteps[at] = {} THEN at' = at + 1 ELSE at' = at
  /\ UNCHANGED <<svc, boot, late, running, open, http, request, downVars, exit, probeVars, faults>>

workerStarted ==
  /\ alive /\ down # "exit"
  /\ \E w \in starting :
       /\ starting' = starting \ {w}
       /\ running' = running \cup {w}
       /\ at' = IF boot = "after" /\ starting = {w} THEN at + 1 ELSE at
  /\ UNCHANGED <<svc, boot, late, open, http, request, downVars, exit, probeVars, faults>>

bootDone ==
  /\ alive /\ boot = "after" /\ at > Len(startSteps) /\ starting = {}
  /\ boot' = "ready"
  /\ UNCHANGED <<svc, at, starting, late, running, open, http, request, downVars, exit, probeVars, faults>>

(* A start rejects; Promise.all does not call back the others. *)
startFails ==
  /\ alive /\ boot = "after" /\ at <= Len(startSteps) /\ Fault
  /\ \/ startSteps[at] = {} /\ starting' = starting
     \/ \E w \in starting : starting' = starting \ {w}
  /\ boot' = "failedAfter"
  /\ UNCHANGED <<svc, at, late, running, open, http, request, downVars, exit, probeVars>>

(* afterListen has no timeout: a start that hangs keeps the bootstrap.     *)
startHangs ==
  /\ alive /\ boot = "after" /\ at <= Len(startSteps) /\ Fault
  /\ \/ startSteps[at] = {} /\ starting' = starting
     \/ \E w \in starting : starting' = starting \ {w}
  /\ boot' = "stuck"
  /\ UNCHANGED <<svc, at, late, running, open, http, request, downVars, exit, probeVars>>

-----------------------------------------------------------------------------
(* Shutdown.                                                               *)

(* executeShutdown runs once, whoever calls it. *)
beginShutdown(exitCode) ==
  /\ down = "no"
  /\ down' = "before" /\ sat' = 1 /\ code' = exitCode
  /\ hadError' = FALSE /\ wasReady' = (boot = "ready")

(* runBootstrap catches what the bootstrap threw. *)
bootstrapFailed ==
  /\ alive /\ boot \in {"failed", "failedAfter"}
  /\ beginShutdown(1)
  /\ UNCHANGED <<bootVars, running, open, http, request, exit, probeVars, faults>>

(* SIGINT or SIGTERM; before the handlers are installed it kills.          *)
signal ==
  /\ alive
  /\ \/ context /\ beginShutdown(0) /\ exit' = exit
     \/ ~context /\ exit' = "killed" /\ UNCHANGED downVars
  /\ UNCHANGED <<bootVars, running, open, http, request, probeVars, faults>>

(* unhandledRejection or uncaughtException, a port that is taken included. *)
uncaughtException ==
  /\ alive /\ context /\ Fault
  /\ beginShutdown(1)
  /\ boot' = IF boot = "listen" THEN "stuck" ELSE boot
  /\ UNCHANGED <<svc, at, starting, late, running, open, http, request, exit, probeVars>>

(* Mutant: the failure of a hook is logged only. *)
stepFailedLogged(next) == down' = next /\ sat' = 1 /\ hadError' = hadError

(* A step of the shutdown rejects or runs into its timeout: the error is   *)
(* noted and the shutdown goes on with the next one.                       *)
stepFailed(next) == down' = next /\ sat' = 1 /\ hadError' = TRUE

stepDone(next) == down' = next /\ sat' = 1 /\ hadError' = hadError

(* beforeShutdown of the context, one awaited stop after the other. *)
stopStep ==
  /\ alive /\ down = "before" /\ context /\ sat <= Len(stopSteps)
  /\ running' = running \ stopSteps[sat]
  /\ open' = open \ stopSteps[sat]
  /\ sat' = sat + 1
  /\ UNCHANGED <<bootVars, http, request, down, code, hadError, wasReady, exit, probeVars, faults>>

beforeDone ==
  /\ alive /\ down = "before"
  /\ context => sat > Len(stopSteps)
  /\ stepDone("http")
  /\ UNCHANGED <<bootVars, running, open, http, request, code, wasReady, exit, probeVars, faults>>

(* Only the search service looks at each stop on its own. *)
stopErrorsLogged == svc = "search" /\ sat = 1

(* A stop rejects, and the ones after it are never called; some of those   *)
(* awaited with it have happened.                                          *)
stopFails ==
  /\ alive /\ down = "before" /\ context /\ sat <= Len(stopSteps) /\ Fault
  /\ \E done \in SUBSET (stopSteps[sat] \cap running) :
       running' = running \ done
  /\ IF stopErrorsLogged
       THEN sat' = sat + 1 /\ UNCHANGED <<down, hadError>>
       ELSE stepFailed("http")
  /\ UNCHANGED <<bootVars, open, http, request, code, wasReady, exit, probeVars>>

(* A stop that never settles: the shutdown waits in "hung". *)
stopHangs ==
  /\ alive /\ down = "before" /\ context /\ sat <= Len(stopSteps) /\ Fault
  /\ down' = "hung"
  /\ UNCHANGED <<bootVars, running, open, http, request, sat, code, hadError, wasReady, exit, probeVars>>

(* Mutant: a step is awaited however long it takes. *)
withTimeoutForever(next) == FALSE

(* withTimeout gives up the step that hangs. *)
withTimeout(next) == stepFailed(next)

shutdownTimesOut ==
  /\ alive /\ down = "hung"
  /\ withTimeout("http")
  /\ UNCHANGED <<bootVars, running, open, http, request, code, wasReady, exit, probeVars, faults>>

(* Mutant: the callback of server.close is not awaited. *)
closeHttpNotAwaited ==
  /\ alive /\ down = "http"
  /\ http' = IF http = "listening" THEN "closing" ELSE http
  /\ stepDone("after")
  /\ UNCHANGED <<bootVars, running, open, request, code, wasReady, exit, probeVars, faults>>

(* server.close stops accepting and waits for the requests under way; the  *)
(* context has no server when the signal came before the port was bound.   *)
closeHttp ==
  /\ alive /\ down = "http"
  /\ \/ http = "listening" /\ http' = "closing" /\ UNCHANGED <<down, sat, hadError>>
     \/ http = "closing" /\ ~request /\ http' = "closed" /\ stepDone("after")
     \/ http \in {"down", "closed"} /\ http' = http /\ stepDone("after")
  /\ UNCHANGED <<bootVars, running, open, request, code, wasReady, exit, probeVars, faults>>

(* A response that stays open, such as an event stream, outlasts the       *)
(* timeout.                                                                *)
closeHttpTimesOut ==
  /\ alive /\ down = "http" /\ http = "closing" /\ request /\ Fault
  /\ stepFailed("after")
  /\ UNCHANGED <<bootVars, running, open, http, request, code, wasReady, exit, probeVars>>

(* afterShutdown of the context, or onFailure of the bootstrap. *)
cleanup == IF context THEN server[svc].close ELSE server[svc].fallback

disconnect ==
  /\ alive /\ down = "after" /\ sat <= Len(cleanup)
  /\ open' = open \ {cleanup[sat]}
  /\ sat' = sat + 1
  /\ UNCHANGED <<bootVars, running, http, request, down, code, hadError, wasReady, exit, probeVars, faults>>

(* onFailure catches each failure; afterShutdown ends with the first. *)
disconnectFails ==
  /\ alive /\ down = "after" /\ sat <= Len(cleanup) /\ Fault
  /\ IF context THEN stepFailed("telemetry") ELSE sat' = sat + 1 /\ UNCHANGED <<down, hadError>>
  /\ UNCHANGED <<bootVars, running, open, http, request, code, wasReady, exit, probeVars>>

disconnectDone ==
  /\ alive /\ down = "after" /\ sat > Len(cleanup)
  /\ stepDone("telemetry")
  /\ UNCHANGED <<bootVars, running, open, http, request, code, wasReady, exit, probeVars, faults>>

shutdownTelemetry ==
  /\ alive /\ down = "telemetry"
  /\ \/ stepDone("exit") /\ faults' = faults
     \/ Fault /\ stepFailed("exit")
  /\ UNCHANGED <<bootVars, running, open, http, request, code, wasReady, exit, probeVars>>

processExit ==
  /\ alive /\ down = "exit"
  /\ exit' = IF hadError \/ code = 1 THEN "1" ELSE "0"
  /\ UNCHANGED <<bootVars, running, open, http, request, downVars, probeVars, faults>>

-----------------------------------------------------------------------------
(* Requests.                                                               *)
requestArrives ==
  /\ alive /\ http = "listening" /\ ~request
  /\ request' = TRUE
  /\ UNCHANGED <<bootVars, running, open, http, downVars, exit, probeVars, faults>>

requestServed ==
  /\ alive /\ request
  /\ request' = FALSE
  /\ UNCHANGED <<bootVars, running, open, http, downVars, exit, probeVars, faults>>

(* GET /ready asks every dependency; a probe under way is shared. *)
readyRequested ==
  /\ alive /\ boot = "ready" /\ down = "no" /\ http = "listening"
  /\ readiness \notin {"waiting", "failing"}
  /\ probe' = [d \in DOMAIN probe |-> IF probe[d] = "none" THEN "pending" ELSE probe[d]]
  /\ readiness' = "waiting"
  /\ UNCHANGED <<bootVars, running, open, http, request, downVars, exit, faults>>

(* Mutant: only a probe that succeeded is forgotten. *)
settledProbeKept(ok) == IF ok THEN "none" ELSE "rejected"

(* The finally of run...Probe drops the promise, however it settles. *)
settledProbe(ok) == "none"

(* Promise.all waits for every probe; one that failed makes the answer     *)
(* unhealthy.                                                              *)
answer(d, ok) ==
  LET last == \A e \in DOMAIN probe \ {d} : probe[e] = "none"
  IN  CASE readiness \notin {"waiting", "failing"} -> readiness
        [] last -> IF ok /\ readiness = "waiting" THEN "ready" ELSE "unhealthy"
        [] ~last -> IF ok THEN readiness ELSE "failing"

probeSettles ==
  /\ alive
  /\ \E d \in DOMAIN probe, ok \in BOOLEAN :
       /\ probe[d] = "pending"
       /\ probe' = [probe EXCEPT ![d] = settledProbe(ok)]
       /\ readiness' = answer(d, ok)
       /\ IF ok THEN faults' = faults ELSE Fault
  /\ UNCHANGED <<bootVars, running, open, http, request, downVars, exit>>

(* The answer does not wait for a probe longer than its timeout; the probe *)
(* itself goes on.                                                         *)
probeTimesOut ==
  /\ alive /\ readiness \in {"waiting", "failing"} /\ Fault
  /\ readiness' = "unhealthy"
  /\ UNCHANGED <<bootVars, running, open, http, request, downVars, exit, probe>>

-----------------------------------------------------------------------------
Bootstrap ==
  connect \/ buildContainer \/ listen \/ startStep \/ workerStarted \/ bootDone
    \/ bootstrapFailed
Shutdown ==
  stopStep \/ beforeDone \/ shutdownTimesOut \/ closeHttp \/ disconnect \/ disconnectDone
    \/ shutdownTelemetry \/ processExit
Failure ==
  connectFails \/ lateConnect \/ startFails \/ startHangs \/ uncaughtException
    \/ stopFails \/ stopHangs \/ closeHttpTimesOut \/ disconnectFails \/ probeTimesOut
Traffic == requestArrives \/ requestServed \/ readyRequested \/ probeSettles

ProcessNext == Bootstrap \/ Shutdown \/ Failure \/ Traffic \/ signal

ProcessSpec == ProcessInit /\ [][ProcessNext]_processVars

(* The event loop runs whatever is runnable; requests end; a probe settles *)
(* and Kubernetes keeps asking.  Signals and failures need not come.       *)
FairProcess ==
  /\ ProcessSpec
  /\ WF_processVars(Bootstrap) /\ WF_processVars(Shutdown)
  /\ WF_processVars(requestServed) /\ WF_processVars(probeSettles)
  /\ WF_processVars(readyRequested)

-----------------------------------------------------------------------------
(* Properties.                                                             *)

(* A service that was ready is shut down from the outside in: as long as   *)
(* no step fails, no worker and no request is at work on a connection that *)
(* is closed (executeShutdown with the hooks of each server.ts).           *)
ClosedWhenUnused ==
  wasReady /\ alive /\ faults = 0 =>
    /\ \A w \in running : uses[svc][w] \cap Connections \subseteq open
    /\ request => uses[svc]["http"] \cap Connections \subseteq open

(* What a process leaves behind.  Exit code 0 is true: every connection is *)
(* closed, and unless the signal came while workers were starting, or the  *)
(* service only logs a failed stop, no worker is left.  A bootstrap that   *)
(* fails, with nothing else going wrong, leaves nothing open but what      *)
(* comes up after it was given up (runBootstrap with onFailure).           *)
ExitIsClean ==
  /\ exit = "0" => open = {}
  /\ exit = "0" /\ wasReady /\ svc # "search" => running = {}
  /\ exit = "1" /\ boot \in {"failed", "failedAfter"} /\ faults = 1 => open \subseteq late

(* Once begun, the shutdown ends with the process, whatever hangs, since   *)
(* every step has a timeout.                                               *)
ShutdownEnds == down = "before" ~> ~alive

(* A failed or slow probe is forgotten: the readiness answer recovers.     *)
ReadinessRecovers == readiness = "unhealthy" ~> (readiness = "ready" \/ down # "no" \/ ~alive)
=============================================================================
