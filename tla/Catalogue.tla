------------------------------ MODULE Catalogue ------------------------------
(***************************************************************************)
(* The admin service's catalogue: stations, one train with its operating   *)
(* days, route, coaches, seat templates and schedules, and the stations    *)
(* index the search service builds from the station events.                *)
(*                                                                         *)
(* Each operation is one READ COMMITTED transaction: it reads and checks,  *)
(* one statement at a time, and then writes, records its event in the      *)
(* outbox and commits.  No read locks anything, so other transactions may  *)
(* commit between a check and the write; unique constraints and row locks  *)
(* are all that hold them apart.  Rows made by request r have id r.        *)
(***************************************************************************)
EXTENDS Naturals, Sequences, FiniteSets

CONSTANTS
  none,        \* no value
  Scenarios,   \* each a database and the operations asked for
  Ids,         \* row and request ids
  MaxTotal,    \* bound: seats of a coach
  Capacity,    \* seat counts COACH_CAPACITY allows for the coach's type
  MaxFaults    \* bound: failures in a behaviour

(* The operations behind each router. *)
stationRoutes == {"createStation", "updateStation", "deactivateStation", "getStationById", "listStations"}
trainRoutes ==
  {"createTrain", "updateTrain", "deactivateTrain", "updateTrainOperatingDays", "getTrainById", "listTrains",
   "addCoach", "listCoaches", "createRoute"}
coachRoutes ==
  {"updateCoach", "deleteCoach", "getCoachById", "bulkCreateSeats", "resetSeats", "listSeats", "getSeatById"}
routeRouter ==
  {"addStationToRoute", "updateRouteStation", "removeRouteStation", "deleteRoute", "updateRouteStatus",
   "getRoute", "listRoutes"}
scheduleRouter == {"createSchedule", "updateScheduleStatus", "getScheduleById", "listSchedules"}
Operations == stationRoutes \cup trainRoutes \cup coachRoutes \cup routeRouter \cup scheduleRouter

(* Departures: today, and two later days on different weekdays. *)
Dates == {"today", "tuesday", "wednesday"}

ScheduleStatus == {"DRAFT", "ACTIVE", "SCHEDULED", "CANCELLED", "COMPLETED"}

(* The rows; a coach's number of seats is one its type allows. *)
StationRow == [code: STRING, zone: Nat, active: BOOLEAN]
TrainRow == [active: BOOLEAN]
RouteRow == [active: BOOLEAN]
StopRow == [id: Ids, station: Ids, number: Nat, minutes: Nat \cup {none}]
CoachRow == [number: STRING, total: Capacity, active: BOOLEAN]

Database ==
  [station: [Ids -> StationRow \cup {none}], train: TrainRow \cup {none}, days: SUBSET Dates,
   route: RouteRow \cup {none}, stops: SUBSET StopRow, coach: [Ids -> CoachRow \cup {none}],
   seats: [Ids -> [1..MaxTotal -> Ids \cup {none}]], sched: [Dates -> ScheduleStatus \cup {none}]]

(* The events; the search service reads those of the stations. *)
StationTopics == {"STATION_CREATED", "STATION_UPDATED", "STATION_DEACTIVATED"}
OtherTopics ==
  {"TRAIN_CREATED", "TRAIN_UPDATED", "TRAIN_DEACTIVATED", "COACH_CREATED", "SEAT_TEMPLATE_CREATED",
   "ROUTE_CREATED", "ROUTE_UPDATED", "ROUTE_DELETED", "ROUTE_STATION_ADDED", "ROUTE_STATION_UPDATED",
   "ROUTE_STATION_REMOVED", "SCHEDULE_CREATED", "SCHEDULE_STATUS_CHANGED"}

Event ==
  [type: StationTopics, id: Ids, row: StationRow]
    \cup [type: OtherTopics, row: TrainRow \cup RouteRow \cup CoachRow \cup StopRow]
    \cup [type: OtherTopics, coach: Ids, total: Capacity]
    \cup [type: OtherTopics, date: Dates, status: ScheduleStatus]

(* The fields a change may set; a stop keeps its station and its number. *)
updateStationSchema == [code |-> STRING, zone |-> Nat, active |-> BOOLEAN]
updateTrainSchema == [active |-> BOOLEAN]
updateCoachSchema == [number |-> STRING, total |-> Nat \ {0}]
updateRouteStationSchema == [minutes |-> Nat \cup {none}]

allows(schema, patch) ==
  DOMAIN patch \subseteq DOMAIN schema /\ \A f \in DOMAIN patch : patch[f] \in schema[f]

(* What the schemas let through to a handler. *)
validRequest(o) ==
  /\ o.name \in Operations
  /\ o.name \in {"updateStation", "deactivateStation", "getStationById", "updateCoach", "deleteCoach", "getCoachById",
                 "bulkCreateSeats", "resetSeats", "listSeats", "getSeatById", "updateRouteStation", "removeRouteStation"}
       => o.id \in Ids
  /\ o.name = "createStation" => o.row \in StationRow
  /\ o.name = "updateStation" => allows(updateStationSchema, o.patch)
  /\ o.name = "updateTrain" => allows(updateTrainSchema, o.patch)
  /\ o.name = "updateTrainOperatingDays" => o.days \in SUBSET Dates
  /\ o.name = "addCoach" => o.number \in STRING /\ o.total \in Capacity
  /\ o.name = "updateCoach" => allows(updateCoachSchema, o.patch)
  /\ o.name = "addStationToRoute" => o.station \in Ids /\ o.number \in Nat
  /\ o.name = "updateRouteStation" => allows(updateRouteStationSchema, o.patch)
  /\ o.name \in {"createTrain", "updateRouteStatus"} => o.active \in BOOLEAN
  /\ o.name \in {"createSchedule", "updateScheduleStatus", "getScheduleById"} => o.date \in Dates
  /\ o.name = "updateScheduleStatus" => o.status \in ScheduleStatus

(* The seats of each coach are the numbers from 1 on, made together. *)
OneGeneration(base) ==
  \A c \in Ids : \A n, m \in 1..MaxTotal :
    base.seats[c][m] # none /\ n <= m => base.seats[c][n] = base.seats[c][m]

(* The stops of the route are finitely many, each with an id of its own. *)
StopsSound(base) ==
  /\ IsFiniteSet(base.stops)
  /\ \A s, t \in base.stops : s.id = t.id => s = t

(* Ids are UUIDs: no row has one that is still to be made. *)
IdIsNew(base, r) ==
  /\ base.station[r] = none /\ base.coach[r] = none
  /\ \A s \in base.stops : s.id # r

ASSUME CatalogueAssumption ==
  /\ Ids \subseteq Nat /\ MaxTotal \in Nat /\ MaxFaults \in Nat
  /\ Capacity \subseteq 1..MaxTotal
  /\ none \notin StationRow \cup TrainRow \cup CoachRow \cup Ids \cup ScheduleStatus
  /\ \A s \in Scenarios :
       /\ s.db \in Database /\ OneGeneration(s.db) /\ StopsSound(s.db)
       /\ IsFiniteSet(DOMAIN s.ops) /\ 1..Cardinality(DOMAIN s.ops) \subseteq Ids
       /\ \A r \in DOMAIN s.ops : r \in Ids /\ IdIsNew(s.db, r) /\ validRequest(s.ops[r])

VARIABLES
  db,        \* the admin database
  outbox,    \* events recorded, in the order of their commits
  op,        \* op[r]: operation request r asks for
  req,       \* req[r]: where it stands and what it has read
  commits,   \* commits so far of operations that guard schedules
  excused,   \* dates whose schedule an unguarded step touched
  index,     \* the stations index of the search service
  consumer,  \* consumer[e]: where the handling of event e stands
  key,       \* key[e]: Redis idempotency key of event e
  overtaken, \* stations with an event applied after a later one
  faults,    \* failures so far
  suggestions, \* Redis: the stations cached for a passenger's prefix
  fresh      \* the stations a query has found and is about to cache

adminVars == <<db, outbox, op, req, commits, excused>>
searchVars == <<index, consumer, key, overtaken, faults>>
suggestVars == <<suggestions, fresh>>
vars == <<adminVars, searchVars, suggestVars>>

Requests == DOMAIN op

(* departureDate is midnight: today's is no longer >= new Date(). *)
isFuture(d) == d # "today"

ActiveDates(base) == {d \in Dates : base.sched[d] = "ACTIVE"}

(* What a schedule needs. *)
servedOn(base, d) ==
  base.route # none /\ base.route.active /\ d \in base.days /\ Cardinality(base.stops) >= 2

(* Earlier overlaps may have left schedules without it. *)
Init ==
  /\ \E s \in Scenarios : db = s.db /\ op = s.ops
  /\ outbox = <<>>
  /\ req = [r \in DOMAIN op |-> [pc |-> 0, got |-> none, begun |-> 0, reply |-> none]]
  /\ commits = 0 /\ excused = {d \in ActiveDates(db) : ~servedOn(db, d)}
  /\ index = [i \in Ids |-> db.station[i]]
  /\ consumer = [e \in Ids |-> "new"]
  /\ key = [e \in Ids |-> "free"]
  /\ overtaken = {} /\ faults = 0
  /\ suggestions = none /\ fresh = none

-----------------------------------------------------------------------------
(* Steps of a transaction.                                                 *)

At(r, n) == req[r].pc = n

Done == 9

Reply(r, answer) == req' = [req EXCEPT ![r].pc = Done, ![r].reply = answer]

(* The transaction rolls back, or had nothing to do. *)
End(r, answer) == Reply(r, answer) /\ UNCHANGED <<db, outbox, commits, excused>>

(* Statement n reads value and goes on. *)
Read(r, n, value) ==
  /\ At(r, n)
  /\ req' = [req EXCEPT ![r].pc = n + 1, ![r].got = value]
  /\ UNCHANGED <<db, outbox, commits, excused>>

(* Statement n reads value; the operation fails unless the check holds. *)
Check(r, n, holds, answer, value) ==
  /\ At(r, n)
  /\ IF holds THEN Read(r, n, value) ELSE End(r, answer)

got(r) == req[r].got

(* What a schedule depends on is read and written by these. *)
GuardsSchedules ==
  {"createSchedule", "deleteRoute", "updateRouteStatus", "removeRouteStation", "updateTrainOperatingDays"}

(* Schedules are excused when transactions that guard them overlapped. *)
Commit(r, next, events) ==
  /\ db' = next
  /\ outbox' = outbox \o events
  /\ Reply(r, "ok")
  /\ LET guards == op[r].name \in GuardsSchedules
     IN  /\ commits' = IF guards THEN commits + 1 ELSE commits
         /\ excused' = excused
              \cup (IF guards /\ req[r].begun # commits THEN ActiveDates(next) ELSE {})
              \cup (IF op[r].name = "updateScheduleStatus" THEN {op[r].date} ELSE {})

(* Statement n writes, unless a constraint or a missing row refuses it. *)
Write(r, n, allowed, answer, next, events) ==
  /\ At(r, n)
  /\ IF allowed THEN Commit(r, next, events) ELSE End(r, answer)

(* A query answers with the rows it finds. *)
Answer(r, query, found, rows) ==
  /\ op[r].name = query /\ At(r, 1)
  /\ req' = [req EXCEPT ![r].pc = Done, ![r].got = rows, ![r].reply = IF found THEN "ok" ELSE "notFound"]
  /\ UNCHANGED <<db, outbox, commits, excused>>

(* requireAdmin, before any router's handlers. *)
requireAdmin(r) ==
  /\ At(r, 0)
  /\ \/ req' = [req EXCEPT ![r].pc = 1, ![r].begun = commits] /\ UNCHANGED <<db, outbox, commits, excused>>
     \/ End(r, "unauthorized")

(* The row with the fields the request gives (undefined ones are left). *)
patched(row, patch) == [f \in DOMAIN row |-> IF f \in DOMAIN patch THEN patch[f] ELSE row[f]]

-----------------------------------------------------------------------------
(* Stations.                                                               *)

getStationById(i) == db.station[i] # none /\ db.station[i].active
getStationByCode(code) == \E i \in Ids : getStationById(i) /\ db.station[i].code = code

ensureUniqueCode(code) == ~getStationByCode(code)

(* stations.code is unique, for inactive stations too. *)
codeIsUnique(i, code) == \A j \in Ids \ {i} : db.station[j] # none => db.station[j].code # code

toCreatedEvent(i, row) == <<[type |-> "STATION_CREATED", id |-> i, row |-> row]>>

(* Mutant: the event is built from the row as read before the update. *)
toUpdatedEventFromRead(r, i, row) ==
  <<[type |-> "STATION_UPDATED", id |-> i, row |-> patched(got(r), op[r].patch)]>>

toUpdatedEvent(r, i, row) == <<[type |-> "STATION_UPDATED", id |-> i, row |-> row]>>

toDeactivatedEvent(i, row) == <<[type |-> "STATION_DEACTIVATED", id |-> i, row |-> row]>>

createStation(r) ==
  /\ op[r].name = "createStation"
  /\ \/ Check(r, 1, ensureUniqueCode(op[r].row.code), "conflict", none)
     \/ Write(r, 2, codeIsUnique(r, op[r].row.code), "conflict",
              [db EXCEPT !.station[r] = op[r].row], toCreatedEvent(r, op[r].row))

updateStation(r) ==
  /\ op[r].name = "updateStation"
  /\ LET i == op[r].id
         patch == op[r].patch
         row == patched(db.station[i], patch)
     IN  \/ Check(r, 1, getStationById(i), "notFound", db.station[i])
         \/ Check(r, 2, "code" \in DOMAIN patch /\ patch.code # got(r).code => ensureUniqueCode(patch.code),
                  "conflict", got(r))
         \/ Write(r, 3, codeIsUnique(i, row.code), "conflict",
                  [db EXCEPT !.station[i] = row], toUpdatedEvent(r, i, row))

deactivateStation(r) ==
  /\ op[r].name = "deactivateStation"
  /\ LET i == op[r].id
     IN  \/ Check(r, 1, getStationById(i), "notFound", none)
         \/ Write(r, 2, TRUE, "ok", [db EXCEPT !.station[i].active = FALSE],
                  toDeactivatedEvent(i, [db.station[i] EXCEPT !.active = FALSE]))

(* Active stations, unless the query asks for the others. *)
listStations(active) == {i \in Ids : db.station[i] # none /\ db.station[i].active = active}

stationQueries(r) ==
  \/ Answer(r, "getStationById", getStationById(op[r].id), {op[r].id})
  \/ Answer(r, "listStations", TRUE, listStations(op[r].active))

stationController(r) ==
  /\ op[r].name \in stationRoutes
  /\ createStation(r) \/ updateStation(r) \/ deactivateStation(r) \/ stationQueries(r)

-----------------------------------------------------------------------------
(* The train; its number is fixed here.                                    *)

(* Active trains only, whether asked for by id or by number. *)
getTrainById == db.train # none /\ db.train.active
getTrainByNumber == getTrainById
ensureUniqueTrainNumber == ~getTrainByNumber

trainEvent(type, row) == <<[type |-> type, row |-> row]>>

createTrain(r) ==
  /\ op[r].name = "createTrain"
  /\ \/ Check(r, 1, ensureUniqueTrainNumber, "conflict", none)
     \/ LET row == [active |-> op[r].active]
        IN  Write(r, 2, db.train = none, "conflict", [db EXCEPT !.train = row], trainEvent("TRAIN_CREATED", row))

updateTrain(r) ==
  /\ op[r].name = "updateTrain"
  /\ \/ Check(r, 1, getTrainById, "notFound", none)
     \/ LET row == patched(db.train, op[r].patch)
        IN  Write(r, 2, TRUE, "ok", [db EXCEPT !.train = row], trainEvent("TRAIN_UPDATED", row))

(* Schedules of the train are not looked at. *)
deactivateTrain(r) ==
  /\ op[r].name = "deactivateTrain"
  /\ \/ Check(r, 1, getTrainById, "notFound", none)
     \/ LET row == [active |-> FALSE]
        IN  Write(r, 2, TRUE, "ok", [db EXCEPT !.train = row], trainEvent("TRAIN_DEACTIVATED", row))

(* Active schedules that departureDate >= new Date() finds. *)
getFutureActiveSchedules == {d \in ActiveDates(db) : isFuture(d)}

(* deleteMany removes the days its snapshot has, once it gets their locks; *)
(* createMany then meets the unique constraint of train and day.           *)
updateTrainOperatingDays(r) ==
  /\ op[r].name = "updateTrainOperatingDays"
  /\ LET days == op[r].days
         kept == db.days \ got(r)
     IN  \/ Check(r, 1, getTrainById, "notFound", db.days)
         \/ Check(r, 2, (got(r) \ days) \cap getFutureActiveSchedules = {}, "conflict", none)
         \/ Read(r, 3, db.days)
         \/ Write(r, 4, kept \cap days = {}, "error", [db EXCEPT !.days = kept \cup days], <<>>)

listTrains(active) == {t \in {db.train} \ {none} : t.active = active}

trainQueries(r) ==
  \/ Answer(r, "getTrainById", getTrainById, {db.train})
  \/ Answer(r, "listTrains", TRUE, listTrains(op[r].active))

trainController(r) ==
  /\ op[r].name \in trainRoutes
  /\ \/ createTrain(r) \/ updateTrain(r) \/ deactivateTrain(r) \/ updateTrainOperatingDays(r)
     \/ trainQueries(r)

-----------------------------------------------------------------------------
(* Coaches and their seat templates.                                       *)

getCoachById(c) == db.coach[c] # none /\ db.coach[c].active
getCoachByNumber(number) == \E c \in Ids : getCoachById(c) /\ db.coach[c].number = number

ensureUniqueCoachNumber(number) == ~getCoachByNumber(number)

(* Train and coach number are unique, for deleted coaches too. *)
numberIsUnique(c, number) == \A j \in Ids \ {c} : db.coach[j] # none => db.coach[j].number # number

(* Seat numbers of a coach that have a row. *)
countSeatsByCoachId(c) == {n \in 1..MaxTotal : db.seats[c][n] # none}

coachEvent(row) == <<[type |-> "COACH_CREATED", row |-> row]>>
seatEvent(c, total) == <<[type |-> "SEAT_TEMPLATE_CREATED", coach |-> c, total |-> total]>>

addCoach(r) ==
  /\ op[r].name = "addCoach"
  /\ LET row == [number |-> op[r].number, total |-> op[r].total, active |-> TRUE]
     IN  \/ Check(r, 1, getTrainById, "notFound", none)
         \/ Check(r, 2, ensureUniqueCoachNumber(row.number), "conflict", none)
         \/ Write(r, 3, numberIsUnique(r, row.number), "conflict",
                  [db EXCEPT !.coach[r] = row], coachEvent(row))

(* No event. *)
updateCoach(r) ==
  /\ op[r].name = "updateCoach"
  /\ LET c == op[r].id
         patch == op[r].patch
         resized == "total" \in DOMAIN patch
         row == patched(db.coach[c], patch)
     IN  \/ Check(r, 1, getCoachById(c), "notFound", db.coach[c])
         \/ Check(r, 2, resized => countSeatsByCoachId(c) = {}, "conflict", got(r))
         \/ Check(r, 3, resized => patch.total \in Capacity, "badRequest", got(r))
         \/ Check(r, 4, "number" \in DOMAIN patch /\ patch.number # got(r).number
                          => ensureUniqueCoachNumber(patch.number), "conflict", none)
         \/ Write(r, 5, numberIsUnique(c, row.number), "conflict", [db EXCEPT !.coach[c] = row], <<>>)

(* A soft delete, and no event. *)
deleteCoach(r) ==
  /\ op[r].name = "deleteCoach"
  /\ LET c == op[r].id
     IN  \/ Check(r, 1, getCoachById(c), "notFound", none)
         \/ Check(r, 2, countSeatsByCoachId(c) = {}, "conflict", none)
         \/ Write(r, 3, TRUE, "ok", [db EXCEPT !.coach[c].active = FALSE], <<>>)

listCoachesByTrainId == {c \in Ids : getCoachById(c)}

coachQueries(r) ==
  \/ Answer(r, "getCoachById", getCoachById(op[r].id), {op[r].id})
  \/ Answer(r, "listCoaches", getTrainById, listCoachesByTrainId)

coachController(r) ==
  /\ op[r].name \in trainRoutes \cup coachRoutes
  /\ addCoach(r) \/ updateCoach(r) \/ deleteCoach(r) \/ coachQueries(r)

(* Mutant: createMany skips seats that are there. *)
bulkCreateSkipping(r, n, c, total) ==
  Write(r, n, TRUE, "error",
        [db EXCEPT !.seats[c] = [i \in 1..MaxTotal |-> IF i <= total /\ @[i] = none THEN r ELSE @[i]]],
        seatEvent(c, total))

(* createMany, all or nothing: coach and seat number are unique. *)
bulkCreate(r, n, c, total) ==
  Write(r, n, countSeatsByCoachId(c) \cap 1..total = {}, "error",
        [db EXCEPT !.seats[c] = [i \in 1..MaxTotal |-> IF i <= total THEN r ELSE @[i]]],
        seatEvent(c, total))

bulkCreateSeats(r) ==
  /\ op[r].name = "bulkCreateSeats"
  /\ LET c == op[r].id
     IN  \/ Check(r, 1, getCoachById(c), "notFound", db.coach[c])
         \/ Check(r, 2, countSeatsByCoachId(c) = {}, "conflict", got(r))
         \/ At(r, 3) /\ bulkCreate(r, 3, c, got(r).total)

resetSeats(r) ==
  /\ op[r].name = "resetSeats"
  /\ LET c == op[r].id
     IN  \/ Check(r, 1, getCoachById(c), "notFound", none)
         \/ Check(r, 2, countSeatsByCoachId(c) # {}, "ok", none)
         \/ Write(r, 3, TRUE, "ok", [db EXCEPT !.seats[c] = [i \in 1..MaxTotal |-> none]], <<>>)

listSeats(r) == Answer(r, "listSeats", getCoachById(op[r].id), countSeatsByCoachId(op[r].id))

getSeatById(r) ==
  Answer(r, "getSeatById", getCoachById(op[r].id) /\ op[r].number \in countSeatsByCoachId(op[r].id), {op[r].number})

seatController(r) ==
  op[r].name \in coachRoutes /\ (bulkCreateSeats(r) \/ resetSeats(r) \/ listSeats(r) \/ getSeatById(r))

-----------------------------------------------------------------------------
(* The route and its stops.                                                *)

(* Active or not. *)
getRouteById == db.route # none

getRouteStationById(i) == \E s \in db.stops : s.id = i
stopOf(i) == CHOOSE s \in db.stops : s.id = i

(* Mutant: the date is compared the wrong way round. *)
referencingPast == {d \in ActiveDates(db) : ~isFuture(d)}

(* The schedules ensureRouteCanBeDeleted counts. *)
referencing == {d \in ActiveDates(db) : isFuture(d)}

listRoutes(includeInactive) == {row \in {db.route} \ {none} : includeInactive \/ row.active}

withRoute(row) == [db EXCEPT !.route = row]
addRouteStation(row) == [db EXCEPT !.stops = @ \cup {row}]

routeEvent(type, row) == <<[type |-> type, row |-> row]>>
routeStationEvent(type, row) == <<[type |-> type, row |-> row]>>

createRoute(r) ==
  /\ op[r].name = "createRoute"
  /\ \/ Check(r, 1, getTrainById, "notFound", none)
     \/ Check(r, 2, ~getRouteById, "conflict", none)
     \/ LET row == [active |-> TRUE]
        IN  Write(r, 3, db.route = none, "error", withRoute(row), routeEvent("ROUTE_CREATED", row))

addStationToRoute(r) ==
  /\ op[r].name = "addStationToRoute"
  /\ LET onRoute == \E s \in db.stops : s.station = op[r].station
         taken == \E s \in db.stops : s.number = op[r].number
         row == [id |-> r, station |-> op[r].station, number |-> op[r].number, minutes |-> none]
     IN  \/ Check(r, 1, getRouteById, "notFound", none)
         \/ Check(r, 2, getStationById(op[r].station), "notFound", none)
         \/ Check(r, 3, ~onRoute, "conflict", none)
         \/ Check(r, 4, ~taken, "conflict", none)
         \/ Write(r, 5, ~onRoute /\ ~taken, "error",
                  addRouteStation(row), routeStationEvent("ROUTE_STATION_ADDED", row))

updateRouteStation(r) ==
  /\ op[r].name = "updateRouteStation"
  /\ LET i == op[r].id
     IN  \/ Check(r, 1, getRouteStationById(i), "notFound", none)
         \/ Check(r, 2, getRouteById, "notFound", none)
         \/ LET row == patched(stopOf(i), op[r].patch)
            IN  Write(r, 3, getRouteStationById(i), "error",
                      [db EXCEPT !.stops = {s \in @ : s.id # i} \cup {row}],
                      routeStationEvent("ROUTE_STATION_UPDATED", row))

removeRouteStation(r) ==
  /\ op[r].name = "removeRouteStation"
  /\ LET i == op[r].id
     IN  \/ Check(r, 1, getRouteStationById(i), "notFound", none)
         \/ Check(r, 2, Cardinality(db.stops) > 2, "conflict", none)
         \/ Write(r, 3, getRouteStationById(i), "error",
                  [db EXCEPT !.stops = {s \in @ : s.id # i}],
                  routeStationEvent("ROUTE_STATION_REMOVED", stopOf(i)))

deleteRoute(r) ==
  /\ op[r].name = "deleteRoute"
  /\ \/ Check(r, 1, getRouteById, "notFound", none)
     \/ Check(r, 2, referencing = {}, "conflict", none)
     \/ LET row == [active |-> FALSE]
        IN  Write(r, 3, TRUE, "ok", withRoute(row), routeEvent("ROUTE_DELETED", row))

updateRouteStatus(r) ==
  /\ op[r].name = "updateRouteStatus"
  /\ \/ Check(r, 1, getRouteById, "notFound", none)
     \/ Check(r, 2, ~op[r].active => referencing = {}, "conflict", none)
     \/ LET row == [active |-> op[r].active]
        IN  Write(r, 3, TRUE, "ok", withRoute(row), routeEvent("ROUTE_UPDATED", row))

(* Inactive routes too. *)
routeQueries(r) ==
  \/ Answer(r, "getRoute", getRouteById, db.stops)
  \/ Answer(r, "listRoutes", TRUE, listRoutes(TRUE))

routeController(r) ==
  /\ op[r].name \in trainRoutes \cup routeRouter
  /\ \/ routeQueries(r)
     \/ createRoute(r) \/ addStationToRoute(r) \/ updateRouteStation(r)
     \/ removeRouteStation(r) \/ deleteRoute(r) \/ updateRouteStatus(r)

-----------------------------------------------------------------------------
(* Schedules.  Weekdays are named like the dates that fall on them.        *)

(* The stops come with the active route. *)
getRouteByTrainId == getRouteById /\ db.route.active

getByTrainAndDate(d) == {x \in {d} : db.sched[x] # none}
getById(d) == db.sched[d]
withSchedule(d, status) == [db EXCEPT !.sched[d] = status]

scheduleEvent(type, d, status) == <<[type |-> type, date |-> d, status |-> status]>>

createSchedule(r) ==
  /\ op[r].name = "createSchedule"
  /\ LET d == op[r].date
     IN  \/ Check(r, 1, getTrainById, "notFound", db.days)
         \/ Check(r, 2, d \in got(r), "conflict", none)
         \/ Check(r, 3, getRouteByTrainId /\ Cardinality(db.stops) >= 2, "conflict", none)
         \/ Check(r, 4, getByTrainAndDate(d) = {}, "conflict", none)
         \/ Write(r, 5, db.sched[d] = none, "error",
                  withSchedule(d, "ACTIVE"), scheduleEvent("SCHEDULE_CREATED", d, "ACTIVE"))

(* The statuses ScheduleStatusChangedEventV1 can carry. *)
toStatusChangedEvent == {"DRAFT", "ACTIVE", "CANCELLED"}

(* A schedule may be made ACTIVE again; nothing is checked then. *)
updateScheduleStatus(r) ==
  /\ op[r].name = "updateScheduleStatus"
  /\ LET d == op[r].date
     IN  \/ Check(r, 1, getById(d) # none, "notFound", getById(d))
         \/ Check(r, 2, got(r) # op[r].status, "ok", none)
         \/ Write(r, 3, op[r].status \in toStatusChangedEvent, "error",
                  withSchedule(d, op[r].status),
                  scheduleEvent("SCHEDULE_STATUS_CHANGED", d, op[r].status))

listSchedules(status) == {d \in Dates : db.sched[d] = status}

scheduleQuery(r) == Answer(r, "getScheduleById", getById(op[r].date) # none, {op[r].date})
schedulesQuery(r) == Answer(r, "listSchedules", TRUE, listSchedules(op[r].status))

scheduleController(r) ==
  op[r].name \in scheduleRouter /\ (createSchedule(r) \/ updateScheduleStatus(r) \/ scheduleQuery(r) \/ schedulesQuery(r))

-----------------------------------------------------------------------------
(* The station events at the search service: one consumer for each of the  *)
(* three topics, so that events may be handled in any order.               *)

isStationEvent(e) == outbox[e].type \in StationTopics
StationEvents == {e \in DOMAIN outbox : isStationEvent(e)}

Fault == faults < MaxFaults /\ faults' = faults + 1

(* dispatch begins with reserveIfNew: an event that is processed or in     *)
(* flight is acknowledged.                                                 *)
dispatch(e) ==
  /\ consumer[e] = "new"
  /\ consumer' = [consumer EXCEPT ![e] = IF key[e] = "free" THEN "apply" ELSE "acked"]
  /\ key' = [key EXCEPT ![e] = IF @ = "free" THEN "PROCESSING" ELSE @]
  /\ UNCHANGED <<index, overtaken, faults>>

Applied == {e \in StationEvents : consumer[e] \in {"mark", "acked"}}

Apply(e, document) ==
  /\ consumer[e] = "apply"
  /\ LET i == outbox[e].id
     IN  /\ index' = [index EXCEPT ![i] = document]
         /\ overtaken' = IF \E f \in Applied : f > e /\ outbox[f].id = i
                           THEN overtaken \cup {i} ELSE overtaken
  /\ consumer' = [consumer EXCEPT ![e] = "mark"]
  /\ UNCHANGED <<key, faults>>

(* The document: all the event says of the station. *)
toDocument(e) == outbox[e].row

applyUpsert(e) ==
  /\ outbox[e].type \in {"STATION_CREATED", "STATION_UPDATED"}
  /\ Apply(e, toDocument(e))

(* A partial update; a document that is not there is not missed. *)
updateActiveStatus(i, active) ==
  IF index[i] = none THEN none ELSE [index[i] EXCEPT !.active = active]

applyDeactivated(e) ==
  /\ outbox[e].type = "STATION_DEACTIVATED"
  /\ Apply(e, updateActiveStatus(outbox[e].id, FALSE))

markProcessed(e) ==
  /\ consumer[e] = "mark"
  /\ consumer' = [consumer EXCEPT ![e] = "acked"]
  /\ key' = [key EXCEPT ![e] = "PROCESSED"]
  /\ UNCHANGED <<index, overtaken, faults>>

dispatchFails(e) ==
  /\ consumer[e] \in {"apply", "mark"} /\ Fault
  /\ consumer' = [consumer EXCEPT ![e] = "release"]
  /\ UNCHANGED <<index, key, overtaken>>

(* The reservation is released and the error thrown on: the message comes  *)
(* again.                                                                  *)
release(e) ==
  /\ consumer[e] = "release"
  /\ \/ key' = [key EXCEPT ![e] = "free"] /\ UNCHANGED faults
     \/ Fault /\ UNCHANGED key
  /\ consumer' = [consumer EXCEPT ![e] = "new"]
  /\ UNCHANGED <<index, overtaken>>

(* The lease of a reservation that was not released runs out. *)
leaseEnds(e) ==
  /\ consumer[e] = "new" /\ key[e] = "PROCESSING"
  /\ key' = [key EXCEPT ![e] = "free"]
  /\ UNCHANGED <<index, consumer, overtaken, faults>>

-----------------------------------------------------------------------------
(* The passengers' station suggestions, over that index and a cache. The   *)
(* queries of one prefix and limit are followed, which every station here  *)
(* matches: entries of different keys never meet. One query is under way   *)
(* at a time.                                                              *)

(* The filter on isActive. *)
suggest == {i \in Ids : index[i] # none /\ index[i].active}

(* Bound: while no station has changed a query tells nothing new. *)
SomethingChanged == StationEvents # {}

(* A hit is answered and changes nothing; on a miss, or when Redis fails,  *)
(* the index is asked.                                                     *)
suggestStations ==
  /\ fresh = none /\ SomethingChanged
  /\ fresh' = suggest
  /\ UNCHANGED suggestions

(* Best effort: the entry is set, or Redis fails and it is not. *)
tryWriteCache ==
  /\ fresh # none
  /\ suggestions' \in {fresh, suggestions}
  /\ fresh' = none

(* SET with EX: Redis drops the entry. *)
suggestionsExpire ==
  /\ suggestions # none /\ suggestions' = none
  /\ UNCHANGED fresh

-----------------------------------------------------------------------------
adminRouter(r) ==
  \/ requireAdmin(r)
  \/ stationController(r) \/ trainController(r) \/ coachController(r)
  \/ seatController(r) \/ routeController(r) \/ scheduleController(r)

stationConsumer(e) ==
  \/ dispatch(e) \/ applyUpsert(e) \/ applyDeactivated(e) \/ markProcessed(e)
  \/ release(e)

Administer(r) == adminRouter(r) /\ UNCHANGED <<op, searchVars, suggestVars>>
Project(e) == stationConsumer(e) /\ UNCHANGED <<adminVars, suggestVars>>
Trouble(e) == (dispatchFails(e) \/ leaseEnds(e)) /\ UNCHANGED <<adminVars, suggestVars>>
Cache == tryWriteCache /\ UNCHANGED <<adminVars, searchVars>>
Expire == suggestionsExpire /\ UNCHANGED <<adminVars, searchVars>>

Next ==
  \/ \E r \in Requests : Administer(r)
  \/ \E e \in StationEvents : Project(e) \/ Trouble(e)
  \/ suggestStations /\ UNCHANGED <<adminVars, searchVars>>
  \/ Cache \/ Expire

Spec == Init /\ [][Next]_vars

(* Requests, events and queries that have begun go on, and Redis keeps its *)
(* clock; nobody has to ask for suggestions.                               *)
Fairness ==
  /\ WF_vars(\E r \in Requests : Administer(r))
  /\ WF_vars(\E e \in StationEvents : Project(e))
  /\ WF_vars(Cache) /\ WF_vars(Expire)

FairSpec == Spec /\ Fairness

-----------------------------------------------------------------------------
TypeOK ==
  /\ db \in Database
  /\ outbox \in Seq(Event)
  /\ DOMAIN req = Requests /\ \A r \in Requests : req[r].pc \in 0..Done /\ req[r].begun \in 0..commits
  /\ commits \in Nat /\ excused \subseteq Dates
  /\ index \in [Ids -> StationRow \cup {none}]
  /\ consumer \in [Ids -> {"new", "apply", "mark", "release", "acked"}]
  /\ key \in [Ids -> {"free", "PROCESSING", "PROCESSED"}]
  /\ overtaken \subseteq Ids /\ faults \in 0..MaxFaults
  /\ fresh \in (SUBSET Ids) \cup {none} /\ suggestions \in (SUBSET Ids) \cup {none}

(* The seats of a coach are the numbers from 1 on that one bulkCreateSeats *)
(* made, whatever generations, resets and changes of the coach overlap     *)
(* (seat.service.ts bulkCreateSeats and resetSeats, coach.service.ts       *)
(* updateCoach).                                                           *)
SeatsOneGeneration == OneGeneration(db)

(* A schedule that is ACTIVE for a later day runs on an operating day of   *)
(* its train, over an active route of two stops at least, unless           *)
(* transactions on these overlapped or its status was set by hand          *)
(* (schedule.service.ts createSchedule, route.service.ts                   *)
(* ensureRouteCanBeDeleted and removeRouteStation, train.service.ts        *)
(* updateTrainOperatingDays).                                              *)
ActiveScheduleIsServed ==
  \A d \in getFutureActiveSchedules \ excused : servedOn(db, d)

(* When the station events are processed, in their order, the stations     *)
(* index shows the stations as they are, whichever updates and             *)
(* deactivations overlapped and whichever writes to Elasticsearch or Redis *)
(* failed (station.service.ts, station-projection.service.ts dispatch).    *)
(* An event whose reservation stays behind a failure may be acknowledged   *)
(* and not processed.                                                      *)
AllProcessed == \A e \in StationEvents : consumer[e] = "acked" /\ key[e] = "PROCESSED"
IndexIsCurrent == AllProcessed => \A i \in Ids \ overtaken : index[i] = db.station[i]

(* The index shows the stations at every time, and the suggestions of the  *)
(* passengers follow them in the end, although a slow query may cache what *)
(* it found before (station-search.service.ts).                            *)
StationIsShown ==
  LET current == {i \in Ids : db.station[i] # none /\ db.station[i].active}
  IN  /\ []IndexIsCurrent
      /\ <>[](AllProcessed /\ overtaken = {} => suggestions \in {none, current})
=============================================================================
