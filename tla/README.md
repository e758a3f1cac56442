# Verification of the railway booking platform

TLA+ models of the services of the platform: the seat inventory, the booking saga and the front that
creates bookings, the payment service, the transactional outbox that connects them, the catalogue and
its projections, user accounts and sessions, the way of a request through web client and gateway, and
the life of a service process. TLC checks them on small instances; TLAPS proves the most important
results for every instance. Paths below are relative to the repository root (`src/` here).

## 1. The system

A user books through the API gateway. The parts that keep state, and how they talk:

| Part | State | Operations | Talks to | Module |
|---|---|---|---|---|
| `apps/inventory-service` | `schedule_inventory`, `seat_inventory`, `seat_allocations` and history, `idempotency_records`, outbox; Redis segment locks | `holdSeats`, `confirmSeats`, `cancelSeats`, schedule projection, seat map, pre-flight queries | Kafka from booking and admin, gRPC from booking and search | `SeatAllocation`, `ScheduleProjection` |
| `apps/booking-service` | `bookings` (status, version), `saga_logs`, idempotency keys, outbox; Redis seat locks and event leases; SSE subscriptions | `createBooking`, `cancelBooking`, `createPaymentOrder`, handlers of `SeatsHeld`, `SeatsHoldFailed`, `SeatHoldExpired`, `PaymentSuccess`, status stream | Kafka to and from inventory and payment; gRPC to inventory (validation) and payment (orders); Redis pub/sub | `BookingLifecycle`, `BookingFront`, `BookingSaga` |
| `apps/payment-service` | `payments`, outbox | `createOrder`, `verifyAndCapture`, `markAsFailed`, `handleWebhook` | gRPC from booking, HTTP from client and Razorpay | `Payment`, `BookingPayment` |
| `packages/kafka` | `outbox_events` of every service | insert, claim, publish, retry and recovery sweeps; consumer runner, dead letters | Postgres, Kafka | `Outbox` |
| `packages/redis` | event keys PROCESSING / PROCESSED | `reserveIfNew`, `markProcessed`, `release` | Redis | in its users |
| `apps/admin-service` | stations, trains, coaches, seats, routes, schedules | one transaction per route of the API | Kafka to inventory and search | `Catalogue`, `ScheduleProjection` |
| `apps/search service` | Elasticsearch documents, Redis caches | projections, train search, suggestions, seat map | Kafka from admin, gRPC to inventory | `ScheduleProjection`, `Catalogue`, `SearchQueries` |
| `apps/user-service` | users; sessions, their index, OTPs and reset tokens in Redis | sign-up, login, refresh, logouts, password reset | Kafka to notification | `UserAccount` |
| `apps/notification-service` | event keys in Redis | OTP and welcome mails | Kafka from user | `UserAccount` |
| `apps/api-gateway`, `packages/resilience`, session handling of `apps/web` | rate-limit buckets, circuit breakers; the page's shared refresh | token checks, limits, proxying; silent refresh and retry | HTTP to all | `RequestPath`, `CircuitBreaker` |
| `packages/http`, every `server.ts` and container | connections, workers, probes of one process | bootstrap, readiness, shutdown | signals, Kubernetes | `ServiceLifecycle`, `ServiceWiring` |
| `packages/grpc` | none | error mapping | | `GrpcErrors` |

What is hard here: every service runs in several instances; Kafka delivers at least once; each
handler reads rows, decides, and writes them in a later statement or a later transaction; Redis
locks, leases and caches expire while their user is at work; requests and events of one booking, one
user or one train overlap; processes die between two commits. Correctness means: no seat is sold twice
on a leg; a booking's row, saga log and event stream agree; one idempotency key is one booking; a reply
or a payment is neither lost nor applied twice; captured money reaches the booking; every recorded event
is sent; what passengers are shown follows the catalogue; a revoked session stays revoked; every process
ends its work before it closes what the work needs.

`PROJECT.json` lists every part with its status, and the hazards line by line.

## 2. Modules

| Module | Models | Extends / uses |
|---|---|---|
| `SeatAllocation` | `seat-allocation.service.ts`, `seat-lock.service.ts`, its repositories, both Kafka consumers, the seat map's view | |
| `BookingLifecycle` | `booking.service.ts` (all but `createBooking`), `booking-saga.orchestrator.ts`, the booking and saga repositories, the Redis event lease | |
| `BookingSaga` | a booking across both services: hold replies one way, status events the other | `BookingLifecycle`, instantiates `SeatAllocation` |
| `BookingFront` | `createBooking`, the booking-side seat locks, the inventory's pre-flight answers, `BookingEventBroadcaster`, the SSE controller | |
| `EventDelivery` | the promise of the outbox: at-least-once delivery | |
| `Outbox` | `packages/kafka/src/outbox` | instantiates `EventDelivery` |
| `Payment` | `payment.service.ts`, `payment.repo.ts`, `razorpay.client.ts` | |
| `BookingPayment` | a booking across booking and payment service: the order over gRPC (`payment.adapter.ts`), the success event back | `BookingLifecycle`, instantiates `Payment` |
| `VersionedCopy` | the promise of a projection: one published version, whole, never an older one again | |
| `ScheduleProjection` | the admin service's schedule writes, `schedule.service.ts` of the inventory and `schedule-projection.service.ts` of the search service with their consumers | instantiates `VersionedCopy` twice |
| `SearchQueries` | train search and seat map with their caches, on top of the projections | `ScheduleProjection`, `SearchDocument`, `SearchRequest`, `GrpcErrors` |
| `SearchDocument` | the document made of an event, and what a search finds in it, as functions | |
| `SearchRequest` | query schemas, cache keys, station lookup, as functions | |
| `GrpcErrors` | errors to gRPC statuses and back, as functions | |
| `Catalogue` | the admin service's routes as transactions; the station projection and the suggestions | |
| `UserAccount` | `auth.service.ts`, `otp.service.ts`, the repositories and the session middleware of the user service; the notification consumers | |
| `CircuitBreaker` | the breaker of `packages/resilience` as operators on one breaker | |
| `RequestPath` | `api-client.ts` of the web client, the gateway's route table, authentication, limiter and proxy | `CircuitBreaker` |
| `ServiceWiring` | what each `server.ts` and container opens, starts, stops and probes, in which order | |
| `ServiceLifecycle` | `runBootstrap.ts`, `startServer.ts`, the shutdown and the readiness probe | `ServiceWiring` |
| `...Proofs` (8) | theorems about the modules they are named for; `BookingSagaProofs` is about `BookingLifecycle`, `BookingSaga` and `BookingPayment`, `ServiceProofs` about `RequestPath`, `CircuitBreaker` and `ServiceLifecycle` | the modules, `TLAPS`; `BookingSagaProofs` instantiates `SeatAllocationProofs` |
| `MC...` (11) | instances for TLC | |

Definitions named "Mutant", and those that differ from the next definition by a suffix
(`unlockScriptAnyOwner`, `expiresNever`), are small changes of the definition that follows them;
replacing the one by the other must break the property `PROJECT.json` names. They are used by nothing
else.

### SeatAllocation

One schedule. `Workers` are consumer instances, each busy with at most one event (`cur`, `pc`).
`holdSeats` is a walk through the code's numbered steps: the idempotency check, schedule and segment
(`checkScheduleAndSegment`), the Redis locks (`acquireSeatLocks`; all keys or none, as the Lua
script has it), the transaction (`txRecheck`, `lockSeats` row by row in any order since the statement
has no `ORDER BY`, `checkOverlap`, `commitHold`), the failure reply (`fail`) and the release in the
`finally` block. `confirmSeats` and `cancelSeats` share `handleStatusChanged`, `findByBookingId` and
`commitStatus`. A statement whose result is used later is a step of its own, and writes appear at
commit, which is READ COMMITTED; the row locks of `FOR UPDATE` are explicit, and `deadlockDetected`
is Postgres aborting one of two waiters. Any event may be delivered again to any worker at any time.
`lockExpires` lets a Redis key vanish at any moment; `crash`, `txError` and the two Redis errors cost a
fault each.

A request is its seats, the two sequence numbers and the two stations; `resolveSegmentStops` is the
code's resolution with its fallback. Prices, coach data and messages are left out.

### BookingLifecycle

One booking, from the row `createBooking` commits. `Tasks` are the inputs: replies of the inventory,
captures reported by the payment service, `Cancel` and `Pay` requests. A worker runs one of them: the
event handlers start with `reserveIfNew` and end with `markProcessed` or `release`; every transaction
that reads and later writes is two steps (`replyRead`/`replyWrite`, `transitionRead`/
`transitionWrite`), with the guard of `updateStatus` (`version < expected`) between them.
`handlePaymentSuccess` keeps its own transaction open (`sagaLock`) around the three transactions of
`confirmPayment`. A lease may expire at any time while PROCESSING. `error` is a throwing statement,
`crash` the death of an instance: an event is delivered again, a request is not.

### BookingSaga

The booking service and the inventory run side by side and share no variable. A hold reply is on its topic
only if the inventory recorded it (`replied`), and a status event reaches the inventory only if the booking
service recorded it (`recorded`); what the inventory does with a status is `handledAs`. Both may be delivered late
and in any order. `SagaSpec` is that composition, and what is proved is proved of it. TLC explores `BoundedSpec`,
which three bounds keep small. `NoHandlerUnderWay`: the booking service moves between
two handlers of the inventory, whose inner steps it neither sees nor disturbs, so that they commute with its
own. `StillToDo` leaves out deliveries that change nothing. `FaultOrCapture`: a behaviour has a fault of the booking
service or a capture; the theorems know neither bound.

### BookingFront

Clients post a booking until they get a final answer. A call reads the idempotency key, asks the
inventory twice, takes its seat locks under an id that nothing else uses (`newId`, `lockScript`: all keys or none), looks at
the key again inside the transaction and commits booking, key, hold request and first status event
together, where the unique key may still refuse it; a failed transaction gives the locks back
(`unlockScript`: only its own). `TransactionFails` includes the commit whose answer is lost, `Breaks` the
lock script whose answer is lost. Locks expire at any time, the schedule may close at any time. The second half is the live stream: the
broadcaster publishes each status event and commits it afterwards, a tab hears what is published while
it is subscribed, and it may leave before its close handler is attached.

### Outbox and EventDelivery

Rows go NONE, PENDING, PROCESSING, then PUBLISHED, FAILED or DEAD. A worker claims the oldest
`BatchSize` rows with the retry count it read, sends them one by one (a send may fail with or without
Kafka having the message), and records the outcome under the guards of `markPublished` and
`markFailed`. `resetStuckProcessingEvents` frees abandoned rows, and, as a fault, rows of a worker that
stalls for more than five minutes. `EventDelivery` is the abstract promise over four sets (recorded,
delivered, closed, dead); `Outbox` implements it with the mapping at the end of the module.

### Payment

The payment orders of one booking, in the order of `created_at`. Each request reads first and writes
in a later transaction. `pay` and `decline` are Razorpay; the client's `/verify` and the webhook may
arrive at any time after, repeatedly, and are answered 400 (`rejected`) if their signature does not verify. `DummyKeys`
is the code's own switch, one for the three secrets of the environment. With dummy keys every signature passes, so that
whoever calls `/verify` or the webhook has the order captured, and orders are mocks that nobody can pay; what a success
event says of money is therefore stated for live keys. With live keys `/verify` needs the HMAC that Razorpay gives to a client that
paid, and the webhook is believed about a capture or a declined attempt that Razorpay reports
(`verifyWebhookSignature`) but hands the signature of its own body to `verifyAndCapture`
(`payment.service.ts:366`), which refuses it.

### BookingPayment

The booking service and the payment service run side by side and share no variable; what each of them leaves to its
environment is what the other does. The booking service sees an order only if the payment
service committed it (`answered`) and a success only if it is in the other's outbox (`captureRecorded`), any
time later. The payment service starts an order when a call of the booking service is waiting for one
(`asksForOrder`), and may make it after that call has failed; the client pays once it was told of an
order. TLC explores `MCSpec` with one more bound, `FirstDeclined`: Razorpay declines attempts on the first order
only. The theorems are about `PaymentSpec` without it.

### ScheduleProjection, VersionedCopy and SearchQueries

One schedule. `log[v]` is the event recorded with version `v`: `createSchedule` writes the first,
`updateScheduleStatus` each later one; its check for a real change reads without a lock, so it may
see an older status, and a status the event schema does not have rolls the transaction back
(`isEventStatus`). The events travel on two topics, hence in any order. A consumer execution of the
inventory reads the row (`findByScheduleId`), then inserts or updates it in the same transaction, with
the unique key or the version in the `WHERE` as the only protection; a status change without a row
goes to the dead-letter topic. An execution of the search service runs a guarded Elasticsearch script
between `reserveIfNew` and `markProcessed`; a status change without a document throws and releases the
key. Two executions of one topic overlap only during a rebalance, which costs a fault. `VersionedCopy`
is the abstract promise; it is instantiated for the search document (which copies the status) and for
the inventory's row (which knows ACTIVE and CANCELLED only).

`SearchQueries` adds the readers: a query reads the document, or the inventory's row over gRPC, and caches
the answer in a later step, by when it may be out of date. Queries with different cache keys do not
meet, so a behaviour follows one key. `SearchRequest` justifies that: its assumptions say that two
queries with one key ask the same. `SearchDocument` and `GrpcErrors` are functions with their own
assumptions: a journey is found exactly if the route serves it in that direction, with the right
distance and duration, the capacity is the sum of the coaches, and an error keeps its HTTP status over gRPC where
the mapping is meant to keep it. TLC evaluates them over all inputs within the named bounds whenever
`schedule_shown` runs.

### Catalogue

A scenario is a database and two or three operations. Each operation reads and checks statement by
statement and then writes with its events, so others may commit in between; unique columns and row
locks are what holds them apart. `excused` and `overtaken` are ghosts that name the schedules and
stations where an overlap of transactions, or an event that overtook another, has happened. The station
projection has no versions: its events are applied in the order the consumer gets them, inside the Redis
lease, and the suggestions are cached like the other queries.

### UserAccount

One user. Every `await` is a step over Redis keys or the user row. A request's number stands
for the code, session, token and password it makes, so that a stale one can be told from a fresh one.
A call to Redis may fail within a revocation (`revocationFails`): the two logout routes log it and answer with success, any
other route answers with an error. `doomed`, `raced` and `logged` are ghosts: the sessions a revocation met, the
sessions that a write brought back after their deletion or that were created between the two deletions of
`logoutAll`, and the logouts whose failure was only logged. The notification service's consumers reserve the
event's key, mail, and keep the key or give it back.

### RequestPath and CircuitBreaker

A page sends requests through the gateway: token check, bucket and admission to the breaker (`Enter`, one step:
nothing else of the page depends on the order in between), the answer or failure of the service, and the
client's reaction: retry after one shared refresh, give up, or go to the login page. Breakers change state while calls
admitted in an earlier state are still under way. Services answer or fail at will.

### ServiceLifecycle and ServiceWiring

`ServiceWiring` has the tables of the eight services; `ServiceLifecycle` runs one of them. Bootstrap and
shutdown are two asynchronous functions, so a signal may find the bootstrap at any point. Connects may be
rejected or come up after they were given up, starts and stops may fail or hang, a close may time out. A
probe is shared by the readiness requests that arrive while it is pending.

## 3. Runs

| Run | Instance | Shows |
|---|---|---|
| `hold_races` | 2 bookings, 2 instances, 3 seats, 3 stops, 3 requests that overlap, share one seat, or touch | no double booking, no held seat offered, rows only advance |
| `hold_faults` | 1 booking, 6 requests (3 of them bad or for one seat), confirmation and cancellation, 1 fault, fair | no skipped request, recorded status events were applied; every hold answered and every confirmation and cancellation handled |
| `booking_saga` | 2 seats, both hold replies, a payment request, a capture or a fault, a cancellation; 2 executions of the booking service and 1 of the inventory | lifecycle, versions, event order, truthful saga log; no reply lost without a fault; the owner of the saga row can go on; a booking that counts as held or confirmed has its seats; with all events handled and no fault of the booking service the services agree |
| `outbox_delivery` | 2 events, 2 publishers, batches of 1, 2 retries, 1 fault, fair | refinement of `EventDelivery`, every event published or given up |
| `payment_capture` | live keys; hold reply, payment request and success in the booking service (1 execution); 2 orders, 2 requests, 1 fault in the payment service | no booking CONFIRMING or CONFIRMED without captured money, final payment statuses backed by events and success events by captures; FAILED is final |
| `schedule_shown` | 2 versions, 2 consumer executions, 1 query at a time, 1 fault, fair | both refinements of `VersionedCopy`; the inventory ends at the latest version or has it on the dead-letter topic; without faults the caches end up true |
| `service_lifecycle` | all 8 services, 2 faults, fair | nothing at work loses its connection, exit codes tell the truth, shutdown ends, readiness recovers |
| `account_races` | 10 bags of up to 4 requests of one user, 1 fault, fair | a registered account is not rolled back, a revocation without a failed call holds, but for sessions that an overlapping request wrote back or created; the rate limit lifts |
| `catalogue_overlaps` | 27 scenarios of 2 or 3 operations, 2 faults, fair | seat templates are of one generation, schedules keep what they run on, index and suggestions follow the stations |
| `booking_front` | 5 pairs of requests, 3 ids, 1 tab, 2 versions, 1 fault, fair | one booking per key, locks kept for their owner, retries answered, news reaches a listening tab |
| `request_path` | 2 requests, profile, login and logout, thresholds 2 and 2, 1 trial, buckets of 1, fair | one refresh at a time, bounded trials, every request ends, circuits close |

One run expects a violation (`findings` in `PROJECT.json`). `webhook_capture` has live keys, one order and two
requests. The repository's README promises that the webhook of a captured payment leads to `payment.success.v1`
(`README.md:296`); `PaidIsReported` fails, since the webhook's body signature is checked as if it were the
client's and answered 400 (`payment.service.ts:366`): unless the client calls `/verify`, nothing is announced.
Other disagreements of code and documents are in section 4, where the models have them too.

**Bounds.** Two workers and two bookings suffice for every race between two executions; a third
party enters as redelivery, expiry, Postgres or the administrator. Requests include pairs that
overlap under different Redis keys, share one of two seats, and touch without overlapping. Faults are
bounded by `MaxFaults`, since a behaviour may have any number: one is enough to die between any two
steps, two to fail during the handling of a failure. Orders and events are 2, retries 2, so that a row is
requeued once and given up once. `schedule_shown` has two versions: the creation and one change, whose
events may be exchanged; for any number of versions the copies are proved. Copies on a topic and event
rows are counted as none, one, several (`AddCopy`, `AddRow`). The expired-hold reply is left out of
`booking_saga` for its size, and because nothing in the repository produces it; the proofs include it.
`RateMax`, `AttemptLimit`, the trials and the buckets are 1 so that a second request meets the limit;
both breaker thresholds are 2, so that counters are reset on the way. The scenarios of `MCUserAccount`, `MCCatalogue`
and `MCBookingFront` are the bags of requests that touch the same keys or rows; requests that share
none do not influence each other. `StillAsked` in `BookingFront` and `SomethingChanged` in `Catalogue` stop
the environment from acting when no step can notice it. Symmetry (workers, and bookings in `hold_races`) is
used in safety runs only. Deadlock checking is off where all work may be done (finite tasks,
events, orders, versions, a process that has exited); in `request_path` it is on.

**Fairness.** A started handler goes on (the event loop; statements return or fail); Kafka
delivers an event until its offset is committed, which the safety properties put after the effect; an
execution that waits for a row lock gets it in the end; timers of the outbox sweeps keep firing; Redis
drops a key at its TTL; Razorpay repeats the webhook of a capture until it is answered with success (`webhook_capture`). Faults, users and
administrators are not fair, with these exceptions, each named in the module: a client that posts a booking retries until it is answered
(`BookingFront`), a client refused an OTP asks again (`UserAccount`), Kubernetes keeps asking for readiness
(`ServiceLifecycle`), and people keep logging in, which is the traffic a circuit breaker needs to close
(`RequestPath`, the one strong fairness there: the login form may be unusable for a while, again and again).
The expiry of the inventory's segment locks is not fair, and need not be: the database decides. In
`SeatAllocation` and `ScheduleProjection` delivery is strongly fair per message because a worker may be
kept busy by others in between. `ScheduleProjection` and `Catalogue` assume that the
outbox publishes every event, which `outbox_delivery` shows unless the row is given up. `ServiceLifecycle` assumes that the call
behind a probe settles in the end, however late: the answer waits for it no longer than its timeout, but a call that never
settled would keep its shared promise, and the service unready, for good.

**Limits.** `ReplyNotLost` is about behaviours without faults, since after a crash a reply may be lost (section 4).
`RowOwnerGoesOn` says that nobody is stuck behind the saga row, not that a handler whose transition is refused
stops being delivered. `RevocationHolds` excepts logouts whose failed call to Redis was logged and sessions that an
overlapping request wrote back or created, both of which the code allows (section 4). `ClosedWhenUnused` is about
processes whose steps do not fail: after a step that did, the shutdown goes on and closes what may be in use, as the
code means it to. `ActiveScheduleIsServed` excuses a date touched by overlapping guards, so it checks the serial
orders of the requests; the overlap itself is in section 4. `StationIsShown` excepts stations whose events overtook each other.
`ShownCatchesUp` is about the end: in between, a cached answer may be as old as its TTL.

## 4. Behaviours no property forbids

The models have them, and so does the code; the properties are stated so that they hold beside them. The first list contradicts a document or
comment of the repository.

* A message whose handler crashed is to be retried once the lease is over (`idempotency.repository.ts:40`); a redelivery
  within the lease is taken for a duplicate and acknowledged (`:77`), and the message is lost (`crash`, `reserveIfNew`).
* A writer that loses the versioned update is to abort (`booking.repo.ts:20`); the handlers of failed and expired holds go on
  and write the saga step, the first of them the failure reason too (`booking-saga.orchestrator.ts:212`, `:277`; `replyWrite`).
* Every transition is to have its status event (`booking.service.ts:55`); the hold replies record none
  (`booking-saga.orchestrator.ts:120`; `replyWrite`).
* A logout is to answer 500 if not every session could be revoked (`descriptions.ts:146` of the user service); an error of Redis
  is logged and the logout answered 200 while the session lives (`auth.service.ts:917`, `:945`; `revocationFails`).
* Revocation is to be instant (`session.middleware.ts:23`); a refresh or session touch that read the session before writes it
  back (`auth.service.ts:727`, `session.middleware.ts:65`; `raced`).

The second list is about the rest.

* Inventory: an expired HELD row is offered by the seat map (`seat-allocation.repo.ts:199`) while the
  overlap check counts it (`:96`), and nothing releases it; a failed hold writes no idempotency record
  (`seat-allocation.service.ts:610`), so its redelivery may succeed.
* Booking: a failure between `markConfirming` and `markConfirmed` leaves the booking CONFIRMING
  (`booking-saga.orchestrator.ts:349`); the saga update after an order is swallowed when it fails, and CREATE_PAYMENT
  then stays PENDING until the payment succeeds (`booking.service.ts:586`); a payment order can be made in any status (`booking.service.ts:559`), and a capture that meets a booking still
  PENDING is marked processed and forgotten: once held, the booking waits in PAYMENT_PENDING for a payment that was made. A booking whose hold failed and was
  then redelivered with success is FAILED or held, by the reply that came first; a FAILED one keeps its seats
  in the inventory, since hold replies record no status event (the inventory would release on FAILED,
  `booking-status-changed.consumer.ts:71`).
* Booking front: a lock for the whole seat and a lock per leg are different keys (`seat-lock.service.ts:94`);
  a call that finds its key taken inside the transaction keeps its locks until they expire; a lost commit
  answer releases the locks of a booking that exists; the stream sends no snapshot, so a change between
  the read and the subscription is not shown; a tab that leaves during the set-up leaves its subscriber
  behind (`booking-events.controller.ts:146`).
* Payment: a success event for a payment whose row stays FAILED (`payment.service.ts:215`); two open orders
  of one booking (`:93`); two success events of one capture; with dummy keys an order nobody paid is captured and its
  booking confirmed, as meant for tests (`razorpay.client.ts:123`).
* Projections: a status change that overtakes its creation is not retried by the inventory; a redelivery
  acknowledged as a duplicate is lost if the first execution then fails; station events carry no
  version, and a deactivation that overtakes the creation is swallowed.
* Queries: the seat map's cache key is trimmed and in lower case while the inventory compares what was
  typed, so a padded code is refused directly and served from the cache; the order of stations in a train
  search comes from `routesServed`, not from the nested clause the comment in `train-search.repo.ts` names.
* Catalogue: checks and writes of overlapping transactions skew (`removeRouteStation` and its minimum of
  two stops; `createSchedule` beside `deleteRoute`, `updateRouteStatus` or new operating days; `bulkCreateSeats`
  beside `updateCoach` and `deleteCoach`); a schedule set ACTIVE again, a train deactivated and a schedule
  of today are not checked.
* Accounts: a login
  while `logoutAll` is between its two deletions leaves a session without an index entry; two tabs that
  refresh with one token log out every session; a verification beside a new OTP registers the newer data;
  a mail whose consumer died within its lease is skipped.
* Gateway and page: an answer with status 5xx counts as a success of the breaker; both rate-limit presets
  share one bucket (`rateLimitMiddleware.ts:29`); the stream goes through a breaker that gives up after
  10 seconds (`proxyMiddleware.ts:157`); a retried request that fails for any reason leads to the login page
  (`api-client.ts:114`). `TrialsBounded` rests on `recoveryTimeout` (30 s) being longer than the timeout of a call (10 s).
* Processes: a signal while workers start lets them start after the stop; the start of workers has no
  timeout (`startServer.ts:267`); the search service closes its inventory channel while HTTP still serves.

## 5. Proofs

The theorems hold for every value of the constants under the assumptions stated beside them
(finite counters are naturals, `None` is no worker, no id and no answer, requests have the type of the
event schema).

* **SeatAllocation.** `NoSeatSoldTwice`: the invariant `NoDoubleBooking` is not inductive. The
  strengthening says that a worker past `lockSeats` owns the row locks of all its seats until it ends
  (so at most one worker stands between check and insert for a row), that a worker at "insert" still
  has no overlapping active row against its booking, and that rows exist only for seats of the request.
  Redis locks do not occur in it: they are an optimisation, and losing them is harmless. `RowsOnlyAdvance`
  needs that an insert finds no row of the booking (`keysAreNew`).
  `HoldsNotSkipped`, `RecordedStatusIsApplied` and `SeatMapKeepsHeldSeats` share a second invariant,
  `RecordsInv`, about the records the steps leave: a processed hold has been answered; a booking that
  was told SeatsHeld has a row for every seat, and a row is CONFIRMED or CANCELLED only with the event's
  record; a confirmation or cancellation follows SeatsHeld; and what `findByBookingId` read is what the rows are or
  were, so that a worker which saw a row it need not touch is still right about it when it commits.
* **BookingLifecycle.** `BookingFollowsLifecycle`: what an execution read is either the current row
  or of a smaller version, and at equal versions the status is the same; hence a write that passes the version
  guard starts at the status that was checked. `StatusEventsInOrder` and `CompletedStepsHappened` rest on
  the same invariant and on where each handler stands after its transitions. `RepliesNotLost` is about
  behaviours without faults (`faults = 0`, as in the run; a lease outlives a crashed consumer, section 4): as long as the
  booking is PENDING, a reply whose key is taken has an execution that is about to decide on it, and
  one whose key is free is not acknowledged. It is an invariant because PENDING means version 1, so
  that the write of the first decision cannot lose against the version guard.
* **BookingSaga.** `SagaImplementsServices` proves that a behaviour of the composition is one of
  `BookingLifecycle` and one of `SeatAllocation`, so every theorem about either service holds of it beside the other.
  `SoldSeatsAreThere` and `ServicesAgreeAtRest` add what the services know of each other: the booking
  service knows of held seats only from a recorded reply, the events its outbox has tell what became of
  the row for good, and the inventory sees none but those. `ServicesAgreeAtRest` needs in addition, when the
  booking service does not fail, that an execution is at work on a row that is CONFIRMING or CANCELLING and
  takes it on. Both are proved of `SagaSpec`, without the three bounds of the run and with crashes and
  errors of the inventory; `BoundedIsSaga` says that the run explores a part of it.
* **BookingFront.** `KeyNamesOneBooking` and `LocksStayWithOwner` have one invariant: a call has an id from
  the lock script on, and no two calls the same; a row under a running call's id was made by that
  call, whose commit went through though it was told otherwise; key table and rows name each other; a
  caller told of a booking was told the one its key names; and a running call whose locks did not
  run out holds all of them. That an id is fresh is used as `newId` states it: an arbitrary id
  that no row, lock or running call has (the code draws a UUID).
* **UserAccount.** `RegistrationsStay` needs that at most one verification has made the account and may
  take it back (`OneOwner`: `createUser` goes through only where there is no account, and only its maker deletes it).
  `RevocationsHold` needs much more: that a session id is used for one session only, so that a session
  met and deleted does not come up again under another login (`NoneRegistered`, `RegistrationIsNew`, `LoginIsNew`); that
  every live session is on the index, and on each list read from it, unless a request wrote it back or created it while a
  revocation ran (`IndexComplete`); and that each revocation under way has what it met before it or deleted
  (`RevocationGoesOn`). The proof goes by the kinds of steps: those that leave sessions alone, write one,
  create one, or delete some.
* **Catalogue.** The three invariants have one induction, `Inv`, over every operation's transaction. `SeatsOfOneGeneration` follows from
  it almost directly: what `bulkCreateSeats` read of the coach while it held the coach's row is what the row is (`Found`), and the
  unique key of a seat number refuses the rest. `SchedulesAreServed` needs that every check a transaction has
  behind it is still true of the rows when it writes (`ChecksHold`), for the schedules that no overlap has excused, that each
  other transaction either leaves what schedules run on (`Harmless`) or was alone since it began (`Guarding`), and that a
  stop has the id of one request (`StopsOwned`). `IndexShowsStations` is the safety part of `StationIsShown`: the last event
  of a station tells its row (`EventsTellRows`), only one execution works on an event (`KeysHeld`), and an index
  entry agrees with the row once the last event is settled, for a station whose events did not overtake each other
  (`IndexFollows`).
* **RequestPath and CircuitBreaker.** `OneRefreshAtATime`: the refresh call that is not idle is the shared one, and
  only the page's own requests wait. `TrialsAreCounted`: a half-open breaker's counter is the number of calls at its service,
  which needs that there are none when it is about to become half open (the guard of `RecoveryTimeout`, section 4)
  and that a closed or half-open breaker is below its thresholds. The lemmas about `execute`, `handleSuccess`
  and `handleFailure` say what each does to any breaker and are used for every service.
* **Outbox.** `GivenUpAtTheLimit`: a DEAD row and only a DEAD row has `MaxRetry` failures, and a
  batch never holds a larger count than the row. `DeliversAtLeastOnce` proves that every step of
  `Outbox` is a step or a stutter of `EventDelivery` under the mapping, from an invariant that a worker
  about to mark a row published has sent it.
* **Payment and BookingPayment.** `StatusIsAnnounced`: under live keys a request at "capture" works on a paid
  order, since only a client's signature over a paid one verifies; whatever the keys, a status is written together with its
  event. `FailedStaysFailed` comes from the guard of `updateStatusToCaptured`, and `FailedPaymentsStayFailed` carries it into the
  composition. `PaymentImplementsServices` proves that a
  behaviour of the composition is one of each service, so their invariants hold in it. `ConfirmedBookingsArePaid`
  follows the money back: a booking that is CONFIRMING or CONFIRMED, and every execution about to make it so, has a success
  event that was recorded; that event is in the payment service's outbox, and behind it, under live keys, is a capture at
  Razorpay. With dummy keys the first half of the chain still holds, and ends at a signature that was not checked.
* **ServiceLifecycle.** `ConnectionsOutliveTheirUse` and `ExitsAreClean` have one invariant, `ProcessInv`: the shutdown begins only in
  a process with its context or a failed bootstrap (`StageInv`), no step list is left behind its end (`StepInv`), a
  failed bootstrap and a failed shutdown step took one fault each (`FaultInv`), what is open was connected by
  the bootstrap or came up late (`OpenInv`), and what a stop or cleanup step that is behind has closed stays closed (`StopInv`,
  `CloseInv`). Neither exit nor use is safe by the order of the steps alone: `ConnectionsAreWired` and `WorkersAreWired` say
  of the tables of each of the eight services that both cleanup lists name everything the bootstrap
  connects, that every worker and channel has a step that ends it, that stops close no connection, and that workers and routes use nothing that was not connected.
* **ScheduleProjection.** `SearchImplementsCopy` and `InventoryImplementsCopy` prove that every step is
  a step or a stutter of `VersionedCopy`. The invariant adds that an execution works on a recorded event,
  that a transaction about to insert read an older row, and that the document's status is the one
  recorded with its version (an upsert of the same version then changes nothing).

Each of these modules but the compositions also has its type invariant proved (`TypeCorrect`, `FrontTypes`,
`AccountTypes`, `PathTypes`, `PaymentTypes`, `CatalogueTypes`, `ProcessTypes`). The inductive invariants of
`BookingFront`, `UserAccount`, `Catalogue` and `ServiceLifecycle` were checked by TLC before they were proved, on the
instances of the runs and, for `UserAccount` and `ServiceLifecycle`, on larger ones.

Only model-checked: all liveness (`HoldAnswered`, `StatusHandled`,
`EventuallyClosed`, `InventoryCatchesUp`, `ShownCatchesUp`, `ShutdownEnds`,
`ReadinessRecovers`, `OtpServedInTheEnd`, `StationIsShown`, `RetryIsAnswered`, `NewsReachesListener`,
`RequestsEnd`, `CircuitCloses`), and `RowOwnerGoesOn`, since the prover handles neither fairness nor `ENABLED` (of `StationIsShown` the safety part is proved); and the assumptions about the functions of
`SearchDocument`, `SearchRequest` and `GrpcErrors`, which TLC evaluates. Every other safety property of a passing run has a theorem.

## 6. Not modelled, and the plan

Out of reach or without interest for a model: the pages and forms of the web client, generated clients and
schemas, OpenAPI, logging, telemetry, prices, mail templates, Elasticsearch's scoring and refresh
interval, cryptography. Left out for their size: the profile cache of `user.service.ts`, the
administrator's own login, malformed Kafka messages. Without a caller: `withExponentialBackoff`,
`renewSeatLocks`, `findByPnr`, `findByUserId`, `GetSeatDetails`. Simplifications: a page that navigates
lets its requests finish first; one cache key is followed at a time.

What would extend this further: the three services of a booking in one composition (`BookingSaga` and `BookingPayment` each
have two of them, and share `BookingLifecycle`), and refunds, once the code has them.
