---------------------------- MODULE SearchRequest ----------------------------
(***************************************************************************)
(* How the search service reads a query and names its cache entry: the     *)
(* query schemas, the cache keys of the train search and of the seat map,  *)
(* and how either turns what was typed for a station into a station        *)
(* (train-search.service.ts, seat-map.service.ts; for the seat map the     *)
(* inventory service does it).  SearchQueries follows one key; the         *)
(* assumptions at the end, which TLC evaluates, say why that is enough.    *)
(*                                                                         *)
(* A typed station is its code or its id, in upper or in lower case, with  *)
(* or without blanks around it.                                            *)
(***************************************************************************)
EXTENDS Integers, FiniteSets

LOCAL Places == 1..2          \* stations, in the order of the routes
LOCAL ScheduleIds == 1..2

Typed == [of : Places, as : {"code", "id"}, case : {"upper", "lower"}, padded : BOOLEAN]

trim(v) == [v EXCEPT !.padded = FALSE]
toUpperCase(v) == [v EXCEPT !.case = "upper"]
toLowerCase(v) == [v EXCEPT !.case = "lower"]

(* Codes are stored in upper case, ids in lower case. *)
codeOf(s) == [of |-> s, as |-> "code", case |-> "upper", padded |-> FALSE]
idOf(s) == [of |-> s, as |-> "id", case |-> "lower", padded |-> FALSE]

-----------------------------------------------------------------------------
(* The train search.                                                       *)

(* Bounds: two categories, and limits and offsets at and beyond the edges. *)
NotGiven == -1000
TRAIN_CATEGORY == [RAJDHANI |-> "rajdhani", EXPRESS |-> "express"]
TrainQueryParams ==
  [fromStation : Typed, toStation : Typed, category : DOMAIN TRAIN_CATEGORY \cup {"absent"},
   limit : {NotGiven, 0, 1, 10, 51}, offset : {NotGiven, -1, 0, 1}]

OrDefault(n, default) == IF n = NotGiven THEN default ELSE n

(* The queries the schema lets pass, trimmed and with their defaults. *)
trainSearchQuerySchema ==
  {q \in {[p EXCEPT !.fromStation = trim(@), !.toStation = trim(@),
                    !.limit = OrDefault(@, 10), !.offset = OrDefault(@, 0)] :
            p \in TrainQueryParams} : q.limit \in 1..50 /\ q.offset >= 0}

buildCacheKey(q) ==
  <<toUpperCase(trim(q.fromStation)), toUpperCase(trim(q.toStation)),
    IF q.category = "absent" THEN "any" ELSE TRAIN_CATEGORY[q.category], q.limit, q.offset>>

(* The stations index says of each station whether it is active; a lookup  *)
(* by code asks for suggestions, which are active stations.                *)
findById(index, v) == {s \in DOMAIN index : idOf(s) = v}
findByCode(index, v) == {s \in DOMAIN index : index[s] /\ codeOf(s) = toUpperCase(v)}

resolveStation(index, v) ==
  {s \in IF trim(v).as = "id" THEN findById(index, trim(v)) ELSE findByCode(index, trim(v)) :
     index[s]}

(* What Elasticsearch is asked for; a station that is not found, or two    *)
(* that are one, end the search with an error.                             *)
TrainQuestions(index, q) ==
  {[from |-> a, to |-> b, category |-> q.category, limit |-> q.limit, offset |-> q.offset] :
     <<a, b>> \in {p \in resolveStation(index, q.fromStation) \X resolveStation(index, q.toStation) :
                     p[1] # p[2]}}

-----------------------------------------------------------------------------
(* The seat map.                                                           *)

(* The schedule's id is checked to be a UUID, of any case. *)
seatMapQuerySchema ==
  {q \in [schedule : ScheduleIds, scheduleCase : {"upper", "lower"},
          fromStation : Typed, toStation : Typed] :
     toUpperCase(trim(q.fromStation)) # toUpperCase(trim(q.toStation))}

seatMapCacheKey(q) ==
  <<q.schedule, toLowerCase(trim(q.fromStation)), toLowerCase(trim(q.toStation))>>

getSeatMapRequestSchema(q) == q.fromStation # q.toStation

(* The inventory's stops of the schedule; the stations come as typed. *)
StopAt(route, v) == {s \in route : idOf(s) = v \/ codeOf(s) = toUpperCase(v)}

segmentStops(routes, q) ==
  {<<q.schedule, a, b>> : <<a, b>> \in
     {p \in StopAt(routes[q.schedule], q.fromStation) \X StopAt(routes[q.schedule], q.toStation) :
        p[1] < p[2]}}

(* The segments the inventory shows the seats of, at most one; ids of      *)
(* schedules are compared as they are.                                     *)
SeatMapSegments(routes, q) ==
  IF getSeatMapRequestSchema(q) /\ q.scheduleCase = "lower" THEN segmentStops(routes, q) ELSE {}

-----------------------------------------------------------------------------
(* Whatever is in the index, queries that share a cache entry ask          *)
(* Elasticsearch the same, so that an entry is right for everyone who      *)
(* finds it; and by code a search is answered or refused whatever the case *)
(* it was typed in.                                                        *)
ASSUME TrainKeysKeepQuestionsApart ==
  \A index \in UNION {[S -> BOOLEAN] : S \in SUBSET Places} :
    LET asked == {q \in trainSearchQuerySchema : TrainQuestions(index, q) # {}}
        byCode == {q \in trainSearchQuerySchema : {q.fromStation.as, q.toStation.as} = {"code"}}
    IN  /\ Cardinality({<<buildCacheKey(q), TrainQuestions(index, q)>> : q \in asked})
             = Cardinality({buildCacheKey(q) : q \in asked})
        /\ Cardinality({<<buildCacheKey(q), TrainQuestions(index, q)>> : q \in byCode})
             = Cardinality({buildCacheKey(q) : q \in byCode})

(* The same for seat maps: no entry shows the seats of another segment     *)
(* than the one asked for, although the key is made of the trimmed and     *)
(* lower-case station while the inventory compares it as typed; and no     *)
(* seat map is for a journey from a station to itself, or back.            *)
ASSUME SeatMapKeysKeepSegmentsApart ==
  \A routes \in [ScheduleIds -> SUBSET Places] :
    LET shown == {q \in seatMapQuerySchema : SeatMapSegments(routes, q) # {}}
    IN  /\ Cardinality({<<seatMapCacheKey(q), SeatMapSegments(routes, q)>> : q \in shown})
             = Cardinality({seatMapCacheKey(q) : q \in shown})
        /\ \A q \in shown : q.fromStation.of < q.toStation.of
=============================================================================
