--------------------------- MODULE SearchDocument ---------------------------
(***************************************************************************)
(* The search service's view of one schedule: how the projection flattens  *)
(* the event of its creation into an Elasticsearch document, which         *)
(* journeys the train search then finds in it, and what a found row says   *)
(* of a journey (schedule-projection.service.ts, train-search.repo.ts,     *)
(* train-search.service.ts).  These are functions of their input; TLC      *)
(* evaluates the assumptions at the end over all small routes.             *)
(***************************************************************************)
EXTENDS Integers, SequencesExt

CONSTANT NoTime     \* null: no arrival at the first stop, no departure at the last

(* Bounds: stations, kilometres and minutes between two stops, seats.      *)
Stations == 1..4
Kilometres == 1..2
Seats == 1..2

trainScheduleStopDocumentSchema ==
  [stationId : Stations, sequenceNumber : 1..4, distanceFromStart : 0..8,
   arrivalMinutes : (0..50) \cup {NoTime}, departureMinutes : (0..50) \cup {NoTime}]

coachDocumentSchema == [coachType : {"SL", "AC_2A"}, totalSeats : Seats]

-----------------------------------------------------------------------------
(* The projection.                                                         *)

computeRoutesServed(stops) ==
  {<<stops[i].stationId, stops[j].stationId>> : <<i, j>> \in
     {p \in (DOMAIN stops) \X (DOMAIN stops) : p[1] < p[2]}}

(* Every coach has the price of the train's category; no coaches, no fare. *)
computeFareRange(coaches, price, totalDistance) ==
  LET fares == {price * totalDistance : c \in ToSet(coaches)}
  IN  IF fares = {} THEN [min |-> 0, max |-> 0]
      ELSE [min |-> Min(fares), max |-> Max(fares)]

computeCapacity(coaches) ==
  LET count(cs) == FoldSeq(LAMBDA c, n : n + c.totalSeats, 0, cs)
  IN  [total |-> count(coaches),
       byCoachType |-> [t \in {c.coachType : c \in ToSet(coaches)} |->
                          count(SelectSeq(coaches, LAMBDA c : c.coachType = t))]]

(* The event lists the stops in any order. *)
toDocument(event) ==
  LET stops == SortSeq(event.stops, LAMBDA a, b : a.sequenceNumber < b.sequenceNumber)
      totalDistance == IF stops = <<>> THEN 0 ELSE Last(stops).distanceFromStart
  IN  [stops |-> stops, totalDistance |-> totalDistance,
       routesServed |-> computeRoutesServed(stops),
       fareRange |-> computeFareRange(event.coaches, event.price, totalDistance),
       capacity |-> computeCapacity(event.coaches)]

-----------------------------------------------------------------------------
(* The search.                                                             *)

(* The filter on routesServed and the two nested clauses on the stops. *)
matches(doc, from, to) ==
  /\ <<from, to>> \in doc.routesServed
  /\ \E i \in DOMAIN doc.stops : doc.stops[i].stationId = from
  /\ \E i \in DOMAIN doc.stops : doc.stops[i].stationId = to

(* sortedStops.find: the first stop at the station. *)
stopAt(doc, station) ==
  SelectSeq(doc.stops, LAMBDA s : s.stationId = station)[1]

atLeastZero(n) == IF n < 0 THEN 0 ELSE n

toResultDto(doc, from, to) ==
  LET a == stopAt(doc, from)
      b == stopAt(doc, to)
  IN  [distanceKm |-> atLeastZero(b.distanceFromStart - a.distanceFromStart),
       durationMinutes |->
         IF NoTime \in {a.departureMinutes, b.arrivalMinutes} THEN NoTime
         ELSE atLeastZero(b.arrivalMinutes - a.departureMinutes),
       fareRange |-> doc.fareRange, availableSeats |-> doc.capacity]

-----------------------------------------------------------------------------
(* Schedules as the admin service records them: stations are met once, in  *)
(* the order of the stop numbers, and the train stands still nowhere but   *)
(* at its stops. legs gives the kilometres to the next stop, ten minutes   *)
(* each, and the train waits a minute at a stop.                           *)
Route(stations, legs) ==
  LET km(n) == FoldSeq(+, 0, SubSeq(legs, 1, n - 1))
      n == Len(stations)
  IN  [i \in 1..n |->
        [stationId |-> stations[i], sequenceNumber |-> i, distanceFromStart |-> km(i),
         arrivalMinutes |-> IF i = 1 THEN NoTime ELSE 10 * km(i) + i - 2,
         departureMinutes |-> IF i = n THEN NoTime ELSE 10 * km(i) + i - 1]]

Routes ==
  {Route(s, l) : <<s, l>> \in
     UNION {{p \in [1..n -> Stations] : IsInjective(p)} \X [1..n -> Kilometres] : n \in 2..3}}

Listings(route) == {route, Reverse(route)}
Coaches == UNION {[1..n -> coachDocumentSchema] : n \in 0..2}

Journeys(route) == {p \in (DOMAIN route) \X (DOMAIN route) : p[1] # p[2]}

(* However the event lists its stops, the train is found for exactly the   *)
(* journeys along its route, from any of its stops to a later one and not  *)
(* back, and the row then shows the journey's own length and, as the stops *)
(* on the way have their times, its own duration.                          *)
ASSUME FoundForItsJourneys ==
  \A route \in Routes : \A stops \in Listings(route) :
    LET doc == toDocument([stops |-> stops, coaches |-> <<>>, price |-> 1])
    IN  /\ ToSet(doc.stops) \subseteq trainScheduleStopDocumentSchema
        /\ \A p \in Journeys(route) :
             LET a == route[p[1]]
                 b == route[p[2]]
                 row == toResultDto(doc, a.stationId, b.stationId)
             IN  /\ matches(doc, a.stationId, b.stationId) <=> p[1] < p[2]
                 /\ p[1] < p[2] =>
                      /\ row.distanceKm = b.distanceFromStart - a.distanceFromStart
                      /\ row.durationMinutes = 10 * row.distanceKm + (p[2] - p[1]) - 1

(* The capacity shown is the seats of the coaches, and each seat counts    *)
(* for one coach type; a train without coaches has no fare.                *)
ASSUME CapacityAddsUp ==
  \A coaches \in Coaches :
    LET c == computeCapacity(coaches)
    IN  /\ c.total = FoldFunction(+, 0, c.byCoachType)
        /\ c.total >= Len(coaches)
        /\ computeFareRange(coaches, 2, 3).max = IF coaches = <<>> THEN 0 ELSE 6
=============================================================================
