----------------------------- MODULE MCCatalogue -----------------------------
(* Two or three administrators at work on the same rows.                   *)
EXTENDS Catalogue, TLC

(* Requests are 1, 2 and 3; the other ids have rows. *)
MCIds == 0..6
Known == MCIds \ 1..3

Station(code, zone) == [code |-> code, zone |-> zone, active |-> TRUE]
NoRows == [i \in MCIds |-> none]
NoSeats == [c \in MCIds |-> [n \in 1..2 |-> none]]
NoSchedules == [d \in Dates |-> none]

Empty ==
  [station |-> NoRows, train |-> none, days |-> {}, route |-> none, stops |-> {},
   coach |-> NoRows, seats |-> NoSeats, sched |-> NoSchedules]

OneStation == [Empty EXCEPT !.station[0] = Station("NDLS", 0)]

Stop(i) == [id |-> i, station |-> i, number |-> i, minutes |-> none]
FirstStops(k) == {i \in Known : Cardinality({j \in Known : j < i}) < k}

(* A train with a route of k stops, one coach and a schedule or none. *)
Line(k, sched) ==
  [Empty EXCEPT !.station = [i \in MCIds |-> IF i \in Known THEN Station(ToString(i), 0) ELSE none],
                !.train = [active |-> TRUE], !.days = Dates,
                !.route = [active |-> TRUE], !.stops = {Stop(i) : i \in FirstStops(k)},
                !.coach[0] = [number |-> "S1", total |-> 1, active |-> TRUE],
                !.sched = sched]

On(d) == [NoSchedules EXCEPT ![d] = "ACTIVE"]

Op(name) == [name |-> name]
On0(name) == [name |-> name, id |-> 0]
Patch(name, patch) == [name |-> name, id |-> 0, patch |-> patch]
Create(code) == [name |-> "createStation", row |-> Station(code, 0)]
Days(days) == [name |-> "updateTrainOperatingDays", days |-> days]
Schedule(d) == [name |-> "createSchedule", date |-> d]
Status(d, s) == [name |-> "updateScheduleStatus", date |-> d, status |-> s]
Coach(number) == [name |-> "addCoach", number |-> number, total |-> 2]
AddStop(s, n) == [name |-> "addStationToRoute", station |-> s, number |-> n]
RemoveStop(i) == [name |-> "removeRouteStation", id |-> i]
Train(b) == [name |-> "createTrain", active |-> b]
RouteStatus(b) == [name |-> "updateRouteStatus", active |-> b]

Scenario(d, ops) == [db |-> d, ops |-> ops]

MCScenarios == {
  \* stations: overlapping changes and their way to the index
  Scenario(OneStation, <<Patch("updateStation", [zone |-> 1]), Patch("updateStation", [code |-> "NZM"])>>),
  Scenario(OneStation, <<Patch("updateStation", [zone |-> 1]), On0("deactivateStation")>>),
  Scenario(OneStation, <<Create("NZM"), Patch("updateStation", [code |-> "NZM"]), Create("NZM")>>),
  Scenario(OneStation, <<On0("deactivateStation"), Create("NDLS"), Patch("updateStation", [active |-> FALSE])>>),
  \* queries beside changes
  Scenario(OneStation, <<On0("deactivateStation"), On0("getStationById"), [name |-> "listStations", active |-> FALSE]>>),
  Scenario(Line(2, NoSchedules), <<Op("deactivateTrain"), Op("getTrainById"), [name |-> "listTrains", active |-> TRUE]>>),
  Scenario(Line(2, NoSchedules), <<On0("getCoachById"), Op("listCoaches"), On0("listSeats")>>),
  Scenario(Line(2, NoSchedules), <<Op("getRoute"), Op("listRoutes"), RouteStatus(FALSE)>>),
  Scenario(Line(2, NoSchedules), <<Schedule("tuesday"), [name |-> "getScheduleById", date |-> "tuesday"], [name |-> "listSchedules", status |-> "ACTIVE"]>>),
  \* a train from nothing
  Scenario(OneStation, <<Train(FALSE), Train(TRUE), Op("createRoute")>>),
  Scenario(Empty, <<Train(TRUE), Op("createRoute"), Op("createRoute")>>),
  Scenario(Empty, <<Train(TRUE), Days({"tuesday"}), Days({"wednesday"})>>),
  Scenario(Empty, <<Train(TRUE), Coach("S1"), Coach("S1")>>),
  \* coaches and seats
  Scenario(Line(2, NoSchedules), <<On0("bulkCreateSeats"), Patch("updateCoach", [total |-> 2]), On0("bulkCreateSeats")>>),
  Scenario(Line(2, NoSchedules), <<On0("bulkCreateSeats"), On0("resetSeats"), On0("bulkCreateSeats")>>),
  Scenario(Line(2, NoSchedules), <<On0("bulkCreateSeats"), [name |-> "getSeatById", id |-> 0, number |-> 1]>>),
  Scenario(Line(2, NoSchedules), <<Coach("S2"), Patch("updateCoach", [number |-> "S2"]), On0("deleteCoach")>>),
  Scenario(Line(2, NoSchedules), <<On0("resetSeats"), Patch("updateCoach", [total |-> 3]), On0("deleteCoach")>>),
  Scenario(Line(2, NoSchedules), <<On0("deleteCoach"), Coach("S1"), On0("resetSeats")>>),
  \* schedules and what they run on
  Scenario(Line(3, NoSchedules), <<Schedule("tuesday"), Op("deleteRoute"), RemoveStop(5)>>),
  Scenario(Line(2, NoSchedules), <<Schedule("tuesday"), RouteStatus(FALSE), Days({"wednesday"})>>),
  Scenario(Line(3, On("today")), <<RemoveStop(4), RemoveStop(5), Op("deleteRoute")>>),
  Scenario(Line(2, On("tuesday")), <<Status("tuesday", "CANCELLED"), RouteStatus(FALSE), Status("tuesday", "ACTIVE")>>),
  Scenario(Line(2, On("tuesday")), <<Status("tuesday", "COMPLETED"), Days({"tuesday"}), Schedule("today")>>),
  Scenario(Line(2, NoSchedules), <<Schedule("tuesday"), Schedule("tuesday"), Op("deactivateTrain")>>),
  Scenario(Line(2, NoSchedules), <<AddStop(5, 5), AddStop(6, 5), Patch("updateRouteStation", [minutes |-> 5])>>),
  Scenario(Line(3, NoSchedules), <<RemoveStop(0), Patch("updateRouteStation", [minutes |-> 5]), Patch("updateTrain", [active |-> FALSE])>>) }
=============================================================================
