--------------------------- MODULE CatalogueProofs ---------------------------
(***************************************************************************)
(* Proofs about Catalogue, for any databases, any requests at once and any *)
(* number of failures.                                                     *)
(***************************************************************************)
EXTENDS Catalogue, FiniteSetTheorems, WellFoundedInduction, TLAPS

-----------------------------------------------------------------------------
(* Requests ask for what the schemas let through, and are records.         *)
RequestsValid ==
  /\ IsFiniteSet(Requests) /\ 1..Cardinality(Requests) \subseteq Ids
  /\ \A r \in Requests : r \in Ids /\ validRequest(op[r])
  /\ req = [r \in Requests |-> [pc |-> req[r].pc, got |-> req[r].got,
                                begun |-> req[r].begun, reply |-> req[r].reply]]

(* Rows are never removed: what a request has found is there when it       *)
(* writes, and a new size of a coach has been compared with its type.      *)
Found(r) ==
  LET o == op[r] IN
  /\ o.name \in {"updateStation", "deactivateStation"} /\ req[r].pc \in 2..8 => db.station[o.id] # none
  /\ o.name = "updateTrain" /\ req[r].pc \in 2..8 => db.train # none
  /\ o.name \in {"updateCoach", "deleteCoach"} /\ req[r].pc \in 2..8 => db.coach[o.id] # none
  /\ o.name = "updateCoach" /\ req[r].pc \in 4..8 /\ "total" \in DOMAIN o.patch => o.patch.total \in Capacity
  /\ o.name = "bulkCreateSeats" /\ req[r].pc \in 2..8 => got(r) \in CoachRow

RowsStay == \A r \in Requests : Found(r)

TypeInv == TypeOK /\ RequestsValid /\ RowsStay

-----------------------------------------------------------------------------
(* Schedules and what they run on.                                         *)

(* A stop has the id of no request that is still to add its own. *)
StopsOwned ==
  /\ StopsSound(db)
  /\ \A r \in Requests : op[r].name = "addStationToRoute" /\ req[r].pc # Done => \A s \in db.stops : s.id # r

Guarded == getFutureActiveSchedules \ excused

(* As long as no other guarding transaction has committed since a request  *)
(* began, what it has checked holds.                                       *)
Checked(r) ==
  LET o == op[r] pc == req[r].pc IN
  req[r].begun = commits =>
    /\ o.name = "createSchedule" =>
         /\ pc = 2 => got(r) = db.days
         /\ pc \in 3..5 => o.date \in db.days
         /\ pc \in 4..5 => servedOn(db, o.date)
    /\ o.name = "deleteRoute" /\ pc = 3 => Guarded = {}
    /\ o.name = "updateRouteStatus" /\ ~o.active /\ pc = 3 => Guarded = {}
    /\ o.name = "removeRouteStation" /\ pc = 3 => Cardinality(db.stops) > 2
    /\ o.name = "updateTrainOperatingDays" =>
         /\ pc \in {2, 4} => got(r) = db.days
         /\ pc \in {3, 4} => (db.days \ o.days) \cap Guarded = {}

ChecksHold == \A r \in Requests : Checked(r)

-----------------------------------------------------------------------------
(* Stations, their events and the index.                                   *)

About(i) == {e \in StationEvents : outbox[e].id = i}
Upserts(i) == {e \in About(i) : outbox[e].type # "STATION_DEACTIVATED"}
IsLast(e, S) == \A f \in S : f <= e

(* One event each. *)
EventsCounted == Len(outbox) <= Cardinality({r \in Requests : req[r].pc = Done})

SameButActive(a, b) == a.code = b.code /\ a.zone = b.zone

(* The last upsert of a station tells its row, except that a deactivation  *)
(* may follow; the last event tells whether it is active.                  *)
EventsTellRows ==
  \A i \in Ids :
    /\ \A e \in About(i) : /\ db.station[i] # none
                           /\ outbox[e].type = "STATION_DEACTIVATED" => ~outbox[e].row.active
    /\ \A e \in Upserts(i) : IsLast(e, Upserts(i)) => SameButActive(outbox[e].row, db.station[i])
    /\ \A e \in About(i) : IsLast(e, About(i)) => outbox[e].row.active = db.station[i].active

(* A consumer at work holds the reservation, and only a processed event's  *)
(* key says so.                                                            *)
KeysHeld ==
  \A e \in Ids :
    /\ consumer[e] \in {"apply", "mark", "release"} => key[e] = "PROCESSING"
    /\ key[e] = "PROCESSED" => consumer[e] = "acked"
    /\ e \notin DOMAIN outbox => consumer[e] = "new" /\ key[e] = "free"

(* Applied, and not to be applied again. *)
Settled(e) == consumer[e] = "mark" \/ key[e] = "PROCESSED"

LastSettled(S) == \A e \in S : IsLast(e, S) => Settled(e)

(* The index agrees with the row in the fields that upserts set, once the  *)
(* last of them is settled, and in the flag, once the last event is.       *)
IndexFollows ==
  \A i \in Ids \ overtaken :
    /\ LastSettled(Upserts(i)) =>
         /\ (index[i] = none) = (db.station[i] = none)
         /\ index[i] # none => SameButActive(index[i], db.station[i])
    /\ LastSettled(About(i)) /\ index[i] # none => index[i].active = db.station[i].active

IndexInv == EventsCounted /\ EventsTellRows /\ KeysHeld /\ IndexFollows

Inv == TypeInv /\ SeatsOneGeneration /\ StopsOwned /\ ChecksHold /\ ActiveScheduleIsServed /\ IndexInv
-----------------------------------------------------------------------------
(* The operators: what a patch makes of a row.                             *)
LEMMA PatchedStation ==
  ASSUME NEW row \in StationRow, NEW patch, allows(updateStationSchema, patch)
  PROVE  patched(row, patch) \in StationRow
BY DEF patched, allows, updateStationSchema, StationRow

LEMMA PatchedCoach ==
  ASSUME NEW row \in CoachRow, NEW patch, allows(updateCoachSchema, patch),
         "total" \in DOMAIN patch => patch.total \in Capacity
  PROVE  patched(row, patch) \in CoachRow
BY DEF patched, allows, updateCoachSchema, CoachRow

LEMMA PatchedTrain ==
  ASSUME NEW row \in TrainRow, NEW patch, allows(updateTrainSchema, patch)
  PROVE  patched(row, patch) \in TrainRow
BY DEF patched, allows, updateTrainSchema, TrainRow

LEMMA PatchedStop ==
  ASSUME NEW row \in StopRow, NEW patch, allows(updateRouteStationSchema, patch)
  PROVE  patched(row, patch) \in StopRow /\ patched(row, patch).id = row.id
BY DEF patched, allows, updateRouteStationSchema, StopRow
-----------------------------------------------------------------------------
(* The steps of a transaction.                                             *)

(* Only request r moves: to its next statement, or to its end. *)
Moves(r) ==
  /\ req' = [q \in Requests |-> [pc |-> req'[q].pc, got |-> req'[q].got,
                                 begun |-> req'[q].begun, reply |-> req'[q].reply]]
  /\ \A q \in Requests \ {r} : req'[q] = req[q]
  /\ req[r].pc \in 0..5
  /\ req'[r].pc \in {req[r].pc + 1, Done}
  /\ req'[r].begun = IF req'[r].pc = 1 THEN commits ELSE req[r].begun

Finishes(r) == Moves(r) /\ req'[r].pc = Done

Quiet == UNCHANGED <<db, outbox, commits, excused>>

LEMMA MovesTo ==
  ASSUME RequestsValid, NEW r \in Requests, req[r].pc \in 0..5,
         req' = [q \in Requests |-> req'[q]],
         \A q \in Requests \ {r} : req'[q] = req[q],
         NEW p, NEW g, NEW b, NEW a, req'[r] = [pc |-> p, got |-> g, begun |-> b, reply |-> a],
         p = req[r].pc + 1 \/ p = Done,
         p = 1 => b = commits, p # 1 => b = req[r].begun
  PROVE  Moves(r) /\ req'[r].pc = p /\ req'[r].got = g
<1>1. ASSUME NEW q \in Requests
      PROVE req'[q] = [pc |-> req'[q].pc, got |-> req'[q].got,
                       begun |-> req'[q].begun, reply |-> req'[q].reply]
  <2>1. CASE q = r
    BY <2>1
  <2>2. CASE q # r
    BY <2>2 DEF RequestsValid
  <2> QED BY <2>1, <2>2
<1> QED BY <1>1 DEF Moves

(* A record of a request with two of its fields set. *)
LEMMA SetPcGot ==
  ASSUME RequestsValid, NEW r \in Requests, NEW p, NEW g, req' = [req EXCEPT ![r].pc = p, ![r].got = g]
  PROVE  /\ req' = [q \in Requests |-> req'[q]] /\ \A q \in Requests \ {r} : req'[q] = req[q]
         /\ req'[r] = [pc |-> p, got |-> g, begun |-> req[r].begun, reply |-> req[r].reply]
<1>1. DOMAIN req = Requests
  BY DEF RequestsValid
<1>2. req'[r] = [[req[r] EXCEPT !.pc = p] EXCEPT !.got = g]
  BY <1>1
<1>3. req[r] = [pc |-> req[r].pc, got |-> req[r].got, begun |-> req[r].begun, reply |-> req[r].reply]
  BY DEF RequestsValid
<1>4. [req[r] EXCEPT !.pc = p] = [pc |-> p, got |-> req[r].got, begun |-> req[r].begun, reply |-> req[r].reply]
  BY <1>3
<1>5. [[pc |-> p, got |-> req[r].got, begun |-> req[r].begun, reply |-> req[r].reply] EXCEPT !.got = g]
        = [pc |-> p, got |-> g, begun |-> req[r].begun, reply |-> req[r].reply]
  OBVIOUS
<1>6. req'[r] = [pc |-> p, got |-> g, begun |-> req[r].begun, reply |-> req[r].reply]
  BY <1>2, <1>4, <1>5, Zenon
<1> QED BY <1>1, <1>6 DEF RequestsValid

LEMMA Replied ==
  ASSUME RequestsValid, NEW r \in Requests, NEW a, req[r].pc \in 0..5, Reply(r, a)
  PROVE  Finishes(r)
<1>1. DOMAIN req = Requests
  BY DEF RequestsValid
<1>2. req'[r] = [[req[r] EXCEPT !.pc = Done] EXCEPT !.reply = a]
  BY <1>1 DEF Reply
<1>3. req[r] = [pc |-> req[r].pc, got |-> req[r].got, begun |-> req[r].begun, reply |-> req[r].reply]
  BY DEF RequestsValid
<1>4. [req[r] EXCEPT !.pc = Done] = [pc |-> Done, got |-> req[r].got, begun |-> req[r].begun, reply |-> req[r].reply]
  BY <1>3
<1>5. [[pc |-> Done, got |-> req[r].got, begun |-> req[r].begun, reply |-> req[r].reply] EXCEPT !.reply = a]
        = [pc |-> Done, got |-> req[r].got, begun |-> req[r].begun, reply |-> a]
  OBVIOUS
<1>6. req'[r] = [pc |-> Done, got |-> req[r].got, begun |-> req[r].begun, reply |-> a]
  BY <1>2, <1>4, <1>5, Zenon
<1>7. req' = [q \in Requests |-> req'[q]] /\ \A q \in Requests \ {r} : req'[q] = req[q]
  BY <1>1 DEF Reply, RequestsValid
<1>8. Done # 1
  BY DEF Done
<1> QED BY <1>6, <1>7, <1>8, MovesTo DEF Finishes

LEMMA Ended ==
  ASSUME RequestsValid, NEW r \in Requests, NEW a, req[r].pc \in 0..5, End(r, a)
  PROVE  Finishes(r) /\ Quiet
BY Replied DEF End, Quiet

LEMMA HasRead ==
  ASSUME RequestsValid, NEW r \in Requests, NEW n \in 1..5, NEW v, Read(r, n, v)
  PROVE  Moves(r) /\ Quiet /\ req[r].pc = n /\ req'[r].pc = n + 1 /\ req'[r].got = v
<1>1. /\ req' = [q \in Requests |-> req'[q]] /\ \A q \in Requests \ {r} : req'[q] = req[q]
      /\ req'[r] = [pc |-> n + 1, got |-> v, begun |-> req[r].begun, reply |-> req[r].reply]
  BY SetPcGot DEF Read
<1>2. req[r].pc = n /\ Quiet
  BY DEF Read, At, Quiet
<1>3. n + 1 # 1 /\ req[r].pc \in 0..5
  BY <1>2
<1> QED BY <1>1, <1>2, <1>3, MovesTo

LEMMA Admitted ==
  ASSUME RequestsValid, NEW r \in Requests, requireAdmin(r)
  PROVE  Moves(r) /\ Quiet /\ req[r].pc = 0
<1>1. req[r].pc = 0
  BY DEF requireAdmin, At
<1>2. CASE End(r, "unauthorized")
  <2>1. req[r].pc \in 0..5
    BY <1>1
  <2>2. Finishes(r) /\ Quiet
    BY <1>2, <2>1, Ended
  <2> QED BY <1>1, <2>2 DEF Finishes
<1>3. CASE req' = [req EXCEPT ![r].pc = 1, ![r].begun = commits] /\ Quiet
  <2>1. DOMAIN req = Requests
    BY DEF RequestsValid
  <2>2. req'[r] = [[req[r] EXCEPT !.pc = 1] EXCEPT !.begun = commits]
    BY <1>3, <2>1
  <2>3. req[r] = [pc |-> req[r].pc, got |-> req[r].got, begun |-> req[r].begun, reply |-> req[r].reply]
    BY DEF RequestsValid
  <2>4. [req[r] EXCEPT !.pc = 1] = [pc |-> 1, got |-> req[r].got, begun |-> req[r].begun, reply |-> req[r].reply]
    BY <2>3
  <2>5. [[pc |-> 1, got |-> req[r].got, begun |-> req[r].begun, reply |-> req[r].reply] EXCEPT !.begun = commits]
          = [pc |-> 1, got |-> req[r].got, begun |-> commits, reply |-> req[r].reply]
    OBVIOUS
  <2>6. req'[r] = [pc |-> 1, got |-> req[r].got, begun |-> commits, reply |-> req[r].reply]
    BY <2>2, <2>4, <2>5, Zenon
  <2>7. req' = [q \in Requests |-> req'[q]] /\ \A q \in Requests \ {r} : req'[q] = req[q]
    BY <1>3, <2>1 DEF RequestsValid
  <2>8. req[r].pc \in 0..5 /\ 1 = req[r].pc + 1 /\ (1 = 1 => commits = commits) /\ (1 # 1 => commits = req[r].begun)
    BY <1>1
  <2>9. Moves(r)
    BY <2>6, <2>7, <2>8, MovesTo
  <2> QED BY <1>1, <1>3, <2>9
<1>4. End(r, "unauthorized") \/ (req' = [req EXCEPT ![r].pc = 1, ![r].begun = commits] /\ Quiet)
  BY DEF requireAdmin, Quiet
<1> QED BY <1>1, <1>2, <1>3, <1>4

LEMMA Answered ==
  ASSUME RequestsValid, NEW r \in Requests, NEW query, NEW found, NEW rows, Answer(r, query, found, rows)
  PROVE  Finishes(r) /\ Quiet /\ req[r].pc = 1
<1>1. req[r].pc = 1 /\ Quiet
  BY DEF Answer, At, Quiet
<1> DEFINE a == IF found THEN "ok" ELSE "notFound"
<1>2. DOMAIN req = Requests
  BY DEF RequestsValid
<1>3. req' = [req EXCEPT ![r].pc = Done, ![r].got = rows, ![r].reply = a]
  BY DEF Answer
<1> HIDE DEF a
<1>4. req'[r] = [[[req[r] EXCEPT !.pc = Done] EXCEPT !.got = rows] EXCEPT !.reply = a]
  BY <1>2, <1>3
<1>5. req[r] = [pc |-> req[r].pc, got |-> req[r].got, begun |-> req[r].begun, reply |-> req[r].reply]
  BY DEF RequestsValid
<1>6. [req[r] EXCEPT !.pc = Done] = [pc |-> Done, got |-> req[r].got, begun |-> req[r].begun, reply |-> req[r].reply]
  BY <1>5
<1>7. /\ [[pc |-> Done, got |-> req[r].got, begun |-> req[r].begun, reply |-> req[r].reply] EXCEPT !.got = rows]
           = [pc |-> Done, got |-> rows, begun |-> req[r].begun, reply |-> req[r].reply]
      /\ [[pc |-> Done, got |-> rows, begun |-> req[r].begun, reply |-> req[r].reply] EXCEPT !.reply = a]
           = [pc |-> Done, got |-> rows, begun |-> req[r].begun, reply |-> a]
  OBVIOUS
<1>8. req'[r] = [pc |-> Done, got |-> rows, begun |-> req[r].begun, reply |-> a]
  BY <1>4, <1>6, <1>7, Zenon
<1>9. req' = [q \in Requests |-> req'[q]] /\ \A q \in Requests \ {r} : req'[q] = req[q]
  BY <1>2, <1>3 DEF RequestsValid
<1>10. Done # 1 /\ req[r].pc \in 0..5
  BY <1>1 DEF Done
<1> QED BY <1>1, <1>8, <1>9, <1>10, MovesTo DEF Finishes
-----------------------------------------------------------------------------
(* What a transaction that commits does to the database.                   *)

SameStations == db'.station = db.station
SameTrain == db'.train = db.train
SameCoaches == db'.coach = db.coach
SameSeats == db'.seats = db.seats
SameLine == db'.days = db.days /\ db'.route = db.route /\ db'.stops = db.stops /\ db'.sched = db.sched

LEMMA PutStation ==
  ASSUME db \in Database, NEW i \in Ids, NEW row \in StationRow, db' = [db EXCEPT !.station[i] = row]
  PROVE  /\ db' \in Database /\ db'.station = [db.station EXCEPT ![i] = row]
         /\ SameTrain /\ SameCoaches /\ SameSeats /\ SameLine
BY DEF Database, SameTrain, SameCoaches, SameSeats, SameLine

LEMMA PutTrain ==
  ASSUME db \in Database, NEW row \in TrainRow, db' = [db EXCEPT !.train = row]
  PROVE  /\ db' \in Database /\ db'.train = row
         /\ SameStations /\ SameCoaches /\ SameSeats /\ SameLine
BY DEF Database, SameStations, SameCoaches, SameSeats, SameLine

LEMMA PutCoach ==
  ASSUME db \in Database, NEW c \in Ids, NEW row \in CoachRow, db' = [db EXCEPT !.coach[c] = row]
  PROVE  /\ db' \in Database /\ db'.coach = [db.coach EXCEPT ![c] = row]
         /\ SameStations /\ SameTrain /\ SameSeats /\ SameLine
BY DEF Database, SameStations, SameTrain, SameSeats, SameLine

LEMMA PutSeats ==
  ASSUME db \in Database, NEW c \in Ids, NEW s \in [1..MaxTotal -> Ids \cup {none}],
         db' = [db EXCEPT !.seats[c] = s]
  PROVE  /\ db' \in Database /\ db'.seats = [db.seats EXCEPT ![c] = s]
         /\ SameStations /\ SameTrain /\ SameCoaches /\ SameLine
BY DEF Database, SameStations, SameTrain, SameCoaches, SameLine

LEMMA PutDays ==
  ASSUME db \in Database, NEW days \in SUBSET Dates, db' = [db EXCEPT !.days = days]
  PROVE  /\ db' \in Database /\ db'.days = days
         /\ db'.route = db.route /\ db'.stops = db.stops /\ db'.sched = db.sched
         /\ SameStations /\ SameTrain /\ SameCoaches /\ SameSeats
BY DEF Database, SameStations, SameTrain, SameCoaches, SameSeats

LEMMA PutRoute ==
  ASSUME db \in Database, NEW row \in RouteRow, db' = [db EXCEPT !.route = row]
  PROVE  /\ db' \in Database /\ db'.route = row
         /\ db'.days = db.days /\ db'.stops = db.stops /\ db'.sched = db.sched
         /\ SameStations /\ SameTrain /\ SameCoaches /\ SameSeats
BY DEF Database, SameStations, SameTrain, SameCoaches, SameSeats

LEMMA PutStops ==
  ASSUME db \in Database, NEW stops \in SUBSET StopRow, db' = [db EXCEPT !.stops = stops]
  PROVE  /\ db' \in Database /\ db'.stops = stops
         /\ db'.days = db.days /\ db'.route = db.route /\ db'.sched = db.sched
         /\ SameStations /\ SameTrain /\ SameCoaches /\ SameSeats
BY DEF Database, SameStations, SameTrain, SameCoaches, SameSeats

LEMMA PutSchedule ==
  ASSUME db \in Database, NEW d \in Dates, NEW s \in ScheduleStatus, db' = [db EXCEPT !.sched[d] = s]
  PROVE  /\ db' \in Database /\ db'.sched = [db.sched EXCEPT ![d] = s]
         /\ db'.days = db.days /\ db'.route = db.route /\ db'.stops = db.stops
         /\ SameStations /\ SameTrain /\ SameCoaches /\ SameSeats
BY DEF Database, SameStations, SameTrain, SameCoaches, SameSeats

LEMMA OneEvent ==
  ASSUME outbox \in Seq(Event), NEW ev \in Event
  PROVE  outbox \o <<ev>> = Append(outbox, ev) /\ outbox \o <<>> = outbox
OBVIOUS

(* Commits are counted, and schedules excused. *)
Counted(r) ==
  /\ commits' = IF op[r].name \in GuardsSchedules THEN commits + 1 ELSE commits
  /\ excused' = excused
       \cup (IF op[r].name \in GuardsSchedules /\ req[r].begun # commits THEN ActiveDates(db') ELSE {})
       \cup (IF op[r].name = "updateScheduleStatus" THEN {op[r].date} ELSE {})

(* Rows stay. *)
KeepsRows ==
  /\ \A i \in Ids : db.station[i] # none => db'.station[i] # none
  /\ \A i \in Ids : db.coach[i] # none => db'.coach[i] # none
  /\ db.train # none => db'.train # none

(* A stop is one that was there, or the one of request r. *)
KeepsStops(r) ==
  /\ StopsSound(db')
  /\ \A s \in db'.stops : s.id = r \/ \E t \in db.stops : t.id = s.id

(* What holds for schedules and for requests that guard them still does. *)
Harmless ==
  /\ commits' = commits
  /\ Guarded' \subseteq Guarded /\ db'.days = db.days
  /\ \A d \in Dates : servedOn(db, d) => servedOn(db', d)
  /\ Cardinality(db.stops) <= Cardinality(db'.stops)

(* Or no other such request has begun since. *)
Guarding == commits' = commits + 1 /\ ActiveScheduleIsServed'

(* No station changes, *)
TellsOthers ==
  /\ SameStations
  /\ outbox' = outbox \/ \E ev \in Event : ev.type \in OtherTopics /\ outbox' = Append(outbox, ev)

(* or the event tells the row. *)
TellsStation ==
  \E i \in Ids, row \in StationRow, t \in StationTopics :
    /\ db'.station = [db.station EXCEPT ![i] = row]
    /\ outbox' = Append(outbox, [type |-> t, id |-> i, row |-> row])
    /\ t = "STATION_DEACTIVATED" => db.station[i] # none /\ ~row.active /\ SameButActive(row, db.station[i])

Commits(r) ==
  /\ db' \in Database /\ OneGeneration(db') /\ KeepsRows /\ KeepsStops(r)
  /\ excused' \subseteq Dates
  /\ Harmless \/ Guarding
  /\ TellsOthers \/ TellsStation

(* The request learns something, or its transaction commits. *)
Proceeds(r) ==
  /\ Moves(r)
  /\ \/ Quiet /\ Found(r)' /\ Checked(r)'
     \/ Finishes(r) /\ Commits(r)

LEMMA Finished ==
  ASSUME NEW r \in Requests, Finishes(r), op' = op
  PROVE  Found(r)' /\ Checked(r)'
BY DEF Finishes, Done, Found, Checked

LEMMA EndProceeds ==
  ASSUME RequestsValid, NEW r \in Requests, NEW a, req[r].pc \in 0..5, op' = op, End(r, a)
  PROVE  Proceeds(r)
BY Ended, Finished DEF Proceeds, Finishes

LEMMA AnswerProceeds ==
  ASSUME RequestsValid, NEW r \in Requests, NEW query, NEW found, NEW rows, op' = op,
         Answer(r, query, found, rows)
  PROVE  Proceeds(r)
BY Answered, Finished DEF Proceeds, Finishes

LEMMA AdmitProceeds ==
  ASSUME TypeOK, RequestsValid, NEW r \in Requests, op' = op, requireAdmin(r)
  PROVE  Proceeds(r)
<1>1. Moves(r) /\ Quiet /\ req'[r].pc \in {1, Done}
  BY Admitted DEF Moves
<1>2. Found(r)' /\ Checked(r)'
  BY <1>1 DEF Found, Checked, Done
<1> QED BY <1>1, <1>2 DEF Proceeds

LEMMA LineKept ==
  ASSUME TypeOK, StopsSound(db), NEW r \in Requests, SameLine, Counted(r),
         op[r].name \notin GuardsSchedules, op[r].name # "updateScheduleStatus"
  PROVE  Harmless /\ KeepsStops(r) /\ excused' \subseteq Dates
<1>1. commits' = commits /\ excused' = excused
  BY DEF Counted
<1>2. Guarded' = Guarded /\ excused' \subseteq Dates
  BY <1>1 DEF Guarded, getFutureActiveSchedules, ActiveDates, SameLine, TypeOK
<1>3. IsFiniteSet(db.stops) /\ Cardinality(db.stops) \in Nat
  BY FS_CardinalityType DEF StopsSound
<1>4. \A d \in Dates : servedOn(db, d) => servedOn(db', d)
  BY DEF servedOn, SameLine
<1>5. Harmless
  BY <1>1, <1>2, <1>3, <1>4 DEF Harmless, SameLine
<1>6. KeepsStops(r)
  BY DEF KeepsStops, StopsSound, SameLine
<1> QED BY <1>2, <1>5, <1>6
-----------------------------------------------------------------------------
(* The operations, one by one.                                             *)

(* A transaction that writes ends with Commit, or with an answer. *)
LEMMA Committed ==
  ASSUME RequestsValid, NEW r \in Requests, NEW next, NEW events, req[r].pc \in 0..5, Commit(r, next, events)
  PROVE  Finishes(r) /\ Counted(r) /\ db' = next /\ outbox' = outbox \o events
BY Replied DEF Commit, Counted

(* A check fails, or its request has read a value and goes on. *)
Learns(r, n, v) == Moves(r) /\ Quiet /\ req[r].pc = n /\ req'[r].pc = n + 1 /\ req'[r].got = v

LEMMA Checks ==
  ASSUME RequestsValid, NEW r \in Requests, op' = op,
         NEW n \in 1..5, NEW holds \in BOOLEAN, NEW a, NEW v, Check(r, n, holds, a, v)
  PROVE  Proceeds(r) \/ (holds /\ Learns(r, n, v))
<1>1. req[r].pc = n
  BY DEF Check, At
<1>2. CASE Read(r, n, v) /\ holds
  BY <1>2, HasRead DEF Learns
<1>3. CASE End(r, a)
  BY <1>1, <1>3, EndProceeds
<1> QED BY <1>2, <1>3 DEF Check

(* The operations whose requests have found or checked something. *)
Attentive ==
  {"updateStation", "deactivateStation", "updateTrain", "updateCoach", "deleteCoach", "bulkCreateSeats",
   "createSchedule", "deleteRoute", "updateRouteStatus", "removeRouteStation", "updateTrainOperatingDays"}

LEMMA NothingLearned ==
  ASSUME NEW r \in Requests, op' = op, op[r].name \notin Attentive, NEW n, NEW v, Learns(r, n, v)
  PROVE  Proceeds(r)
<1>1. Found(r)' /\ Checked(r)'
  BY DEF Attentive, Found, Checked
<1> QED BY <1>1 DEF Proceeds, Learns

LEMMA SetsStation ==
  ASSUME TypeOK, RequestsValid, SeatsOneGeneration, StopsSound(db), NEW r \in Requests, op' = op,
         op[r].name \in stationRoutes, req[r].pc \in 0..5,
         NEW i \in Ids, NEW row \in StationRow, NEW t \in StationTopics,
         Commit(r, [db EXCEPT !.station[i] = row], <<[type |-> t, id |-> i, row |-> row]>>),
         t = "STATION_DEACTIVATED" => db.station[i] # none /\ ~row.active /\ SameButActive(row, db.station[i])
  PROVE  Proceeds(r)
<1> DEFINE ev == [type |-> t, id |-> i, row |-> row]
<1>1. ev \in Event
  BY DEF Event
<1>2. Finishes(r) /\ Counted(r) /\ db' = [db EXCEPT !.station[i] = row] /\ outbox' = outbox \o <<ev>>
  BY Committed
<1>3. outbox' = Append(outbox, ev)
  BY <1>1, <1>2, OneEvent DEF TypeOK
<1>4. /\ db' \in Database /\ db'.station = [db.station EXCEPT ![i] = row]
      /\ SameTrain /\ SameCoaches /\ SameSeats /\ SameLine
  BY <1>2, PutStation DEF TypeOK
<1>5. op[r].name \notin GuardsSchedules /\ op[r].name # "updateScheduleStatus"
  BY DEF stationRoutes, GuardsSchedules
<1>6. Harmless /\ KeepsStops(r) /\ excused' \subseteq Dates
  BY <1>2, <1>4, <1>5, LineKept
<1>7. KeepsRows
  BY <1>4, CatalogueAssumption DEF KeepsRows, SameTrain, SameCoaches, TypeOK, Database
<1>8. OneGeneration(db')
  BY <1>4 DEF SeatsOneGeneration, OneGeneration, SameSeats
<1>9. TellsStation
  BY <1>3, <1>4 DEF TellsStation
<1> QED BY <1>2, <1>4, <1>6, <1>7, <1>8, <1>9 DEF Proceeds, Commits, Finishes

LEMMA StationProceeds ==
  ASSUME Inv, NEW r \in Requests, op' = op, stationController(r)
  PROVE  Proceeds(r)
<1>1. /\ TypeOK /\ RequestsValid /\ SeatsOneGeneration /\ StopsSound(db) /\ Found(r)
      /\ op[r].name \in stationRoutes /\ validRequest(op[r]) /\ r \in Ids
  BY DEF Inv, TypeInv, StopsOwned, RequestsValid, RowsStay, stationController
<1>2. CASE createStation(r)
  <2>1. op[r].name = "createStation" /\ op[r].row \in StationRow
    BY <1>1, <1>2 DEF createStation, validRequest
  <2>2. \/ Proceeds(r) \/ Learns(r, 1, none)
        \/ /\ req[r].pc \in 0..5
           /\ Commit(r, [db EXCEPT !.station[r] = op[r].row],
                     <<[type |-> "STATION_CREATED", id |-> r, row |-> op[r].row]>>)
    BY <1>1, <1>2, EndProceeds, HasRead DEF createStation, Check, Write, At, Learns, toCreatedEvent
  <2>3. "STATION_CREATED" \in StationTopics /\ "STATION_CREATED" # "STATION_DEACTIVATED"
    BY DEF StationTopics
  <2>4. ASSUME Learns(r, 1, none) PROVE Proceeds(r)
    BY <2>1, <2>4, NothingLearned DEF Attentive
  <2> QED BY <1>1, <2>1, <2>2, <2>3, <2>4, SetsStation
<1>3. CASE updateStation(r)
  <2> DEFINE i == op[r].id
             row == patched(db.station[i], op[r].patch)
  <2>1. op[r].name = "updateStation" /\ i \in Ids /\ allows(updateStationSchema, op[r].patch)
    BY <1>1, <1>3 DEF updateStation, validRequest
  <2>2. \/ Proceeds(r) \/ (Learns(r, 1, db.station[i]) /\ getStationById(i)) \/ Learns(r, 2, got(r))
        \/ req[r].pc = 3 /\ Commit(r, [db EXCEPT !.station[i] = row],
                                   <<[type |-> "STATION_UPDATED", id |-> i, row |-> row]>>)
    BY <1>1, <1>3, EndProceeds, HasRead DEF updateStation, Check, Write, At, Learns, toUpdatedEvent
  <2>3. ASSUME Learns(r, 1, db.station[i]), getStationById(i) PROVE Proceeds(r)
    BY <2>1, <2>3 DEF Learns, Proceeds, Quiet, getStationById, Found, Checked
  <2>4. ASSUME Learns(r, 2, got(r)) PROVE Proceeds(r)
    BY <1>1, <2>1, <2>4 DEF Learns, Proceeds, Quiet, Found, Checked
  <2>5. ASSUME req[r].pc = 3, Commit(r, [db EXCEPT !.station[i] = row],
                                   <<[type |-> "STATION_UPDATED", id |-> i, row |-> row]>>)
        PROVE  Proceeds(r)
    <3>1. db.station[i] \in StationRow
      BY <1>1, <2>1, <2>5 DEF Found, TypeOK, Database
    <3>2. row \in StationRow
      BY <2>1, <3>1, PatchedStation
    <3>3. "STATION_UPDATED" \in StationTopics /\ "STATION_UPDATED" # "STATION_DEACTIVATED" /\ req[r].pc \in 0..5
      BY <2>5 DEF StationTopics
    <3> QED BY <1>1, <2>1, <2>5, <3>2, <3>3, SetsStation
  <2> QED BY <2>2, <2>3, <2>4, <2>5
<1>4. CASE deactivateStation(r)
  <2> DEFINE i == op[r].id
             row == [db.station[i] EXCEPT !.active = FALSE]
  <2>1. op[r].name = "deactivateStation" /\ i \in Ids
    BY <1>1, <1>4 DEF deactivateStation, validRequest
  <2>2. \/ Proceeds(r) \/ (Learns(r, 1, none) /\ getStationById(i))
        \/ req[r].pc = 2 /\ Commit(r, [db EXCEPT !.station[i].active = FALSE],
                                   <<[type |-> "STATION_DEACTIVATED", id |-> i, row |-> row]>>)
    BY <1>1, <1>4, EndProceeds, HasRead DEF deactivateStation, Check, Write, At, Learns, toDeactivatedEvent
  <2>3. ASSUME Learns(r, 1, none), getStationById(i) PROVE Proceeds(r)
    BY <2>1, <2>3 DEF Learns, Proceeds, Quiet, getStationById, Found, Checked
  <2>4. ASSUME req[r].pc = 2, Commit(r, [db EXCEPT !.station[i].active = FALSE],
                                   <<[type |-> "STATION_DEACTIVATED", id |-> i, row |-> row]>>)
        PROVE  Proceeds(r)
    <3>1. db.station[i] \in StationRow /\ db.station[i] # none
      BY <1>1, <2>1, <2>4 DEF Found, TypeOK, Database
    <3>2. row \in StationRow /\ ~row.active /\ SameButActive(row, db.station[i])
      BY <3>1 DEF StationRow, SameButActive
    <3>3. [db EXCEPT !.station[i].active = FALSE] = [db EXCEPT !.station[i] = row]
      OBVIOUS
    <3>4. "STATION_DEACTIVATED" \in StationTopics /\ req[r].pc \in 0..5
      BY <2>4 DEF StationTopics
    <3> QED BY <1>1, <2>1, <2>4, <3>1, <3>2, <3>3, <3>4, SetsStation
  <2> QED BY <2>2, <2>3, <2>4
<1>5. CASE stationQueries(r)
  BY <1>1, <1>5, AnswerProceeds DEF stationQueries
<1> QED BY <1>2, <1>3, <1>4, <1>5 DEF stationController

LEMMA SetsTrain ==
  ASSUME TypeOK, RequestsValid, SeatsOneGeneration, StopsSound(db), NEW r \in Requests, op' = op,
         op[r].name \in {"createTrain", "updateTrain", "deactivateTrain"}, req[r].pc \in 0..5,
         NEW row \in TrainRow, NEW t \in OtherTopics,
         Commit(r, [db EXCEPT !.train = row], <<[type |-> t, row |-> row]>>)
  PROVE  Proceeds(r)
<1> DEFINE ev == [type |-> t, row |-> row]
<1>1. ev \in Event /\ ev.type \in OtherTopics
  BY DEF Event
<1>2. Finishes(r) /\ Counted(r) /\ db' = [db EXCEPT !.train = row] /\ outbox' = outbox \o <<ev>>
  BY Committed
<1>3. outbox' = Append(outbox, ev)
  BY <1>1, <1>2, OneEvent DEF TypeOK
<1>4. db' \in Database /\ db'.train = row /\ SameStations /\ SameCoaches /\ SameSeats /\ SameLine
  BY <1>2, PutTrain DEF TypeOK
<1>5. op[r].name \notin GuardsSchedules /\ op[r].name # "updateScheduleStatus"
  BY DEF GuardsSchedules
<1>6. Harmless /\ KeepsStops(r) /\ excused' \subseteq Dates
  BY <1>2, <1>4, <1>5, LineKept
<1>7. KeepsRows
  BY <1>4, CatalogueAssumption DEF KeepsRows, SameStations, SameCoaches
<1>8. OneGeneration(db')
  BY <1>4 DEF SeatsOneGeneration, OneGeneration, SameSeats
<1>9. TellsOthers
  BY <1>1, <1>3, <1>4 DEF TellsOthers
<1> QED BY <1>2, <1>4, <1>6, <1>7, <1>8, <1>9 DEF Proceeds, Commits, Finishes

LEMMA Topics ==
  /\ "TRAIN_CREATED" \in OtherTopics /\ "TRAIN_UPDATED" \in OtherTopics /\ "TRAIN_DEACTIVATED" \in OtherTopics
  /\ "COACH_CREATED" \in OtherTopics /\ "SEAT_TEMPLATE_CREATED" \in OtherTopics
  /\ "ROUTE_CREATED" \in OtherTopics /\ "ROUTE_UPDATED" \in OtherTopics /\ "ROUTE_DELETED" \in OtherTopics
  /\ "ROUTE_STATION_ADDED" \in OtherTopics /\ "ROUTE_STATION_UPDATED" \in OtherTopics /\ "ROUTE_STATION_REMOVED" \in OtherTopics
  /\ "SCHEDULE_CREATED" \in OtherTopics /\ "SCHEDULE_STATUS_CHANGED" \in OtherTopics
BY DEF OtherTopics

LEMMA TrainProceeds ==
  ASSUME Inv, NEW r \in Requests, op' = op, createTrain(r) \/ updateTrain(r) \/ deactivateTrain(r) \/ trainQueries(r)
  PROVE  Proceeds(r)
<1>1. /\ TypeOK /\ RequestsValid /\ SeatsOneGeneration /\ StopsSound(db) /\ Found(r)
      /\ validRequest(op[r]) /\ r \in Ids
  BY DEF Inv, TypeInv, StopsOwned, RequestsValid, RowsStay
<1>2. CASE createTrain(r)
  <2> DEFINE row == [active |-> op[r].active]
  <2>1. op[r].name = "createTrain" /\ row \in TrainRow
    BY <1>1, <1>2 DEF createTrain, validRequest, TrainRow
  <2>2. \/ Proceeds(r) \/ Learns(r, 1, none)
        \/ /\ req[r].pc \in 0..5
           /\ Commit(r, [db EXCEPT !.train = row], <<[type |-> "TRAIN_CREATED", row |-> row]>>)
    BY <1>1, <1>2, EndProceeds, HasRead DEF createTrain, Check, Write, At, Learns, trainEvent
  <2>3. ASSUME Learns(r, 1, none) PROVE Proceeds(r)
    BY <2>1, <2>3, NothingLearned DEF Attentive
  <2> QED BY <1>1, <2>1, <2>2, <2>3, Topics, SetsTrain
<1>3. CASE updateTrain(r)
  <2> DEFINE row == patched(db.train, op[r].patch)
  <2>1. op[r].name = "updateTrain" /\ allows(updateTrainSchema, op[r].patch)
    BY <1>1, <1>3 DEF updateTrain, validRequest
  <2>2. \/ Proceeds(r) \/ (Learns(r, 1, none) /\ getTrainById)
        \/ req[r].pc = 2 /\ Commit(r, [db EXCEPT !.train = row], <<[type |-> "TRAIN_UPDATED", row |-> row]>>)
    BY <1>1, <1>3, EndProceeds, HasRead DEF updateTrain, Check, Write, At, Learns, trainEvent
  <2>3. ASSUME Learns(r, 1, none), getTrainById PROVE Proceeds(r)
    BY <2>1, <2>3 DEF Learns, Proceeds, Quiet, getTrainById, Found, Checked
  <2>4. ASSUME req[r].pc = 2, Commit(r, [db EXCEPT !.train = row], <<[type |-> "TRAIN_UPDATED", row |-> row]>>)
        PROVE  Proceeds(r)
    <3>1. db.train \in TrainRow
      BY <1>1, <2>1, <2>4 DEF Found, TypeOK, Database
    <3>2. row \in TrainRow /\ req[r].pc \in 0..5
      BY <2>1, <2>4, <3>1, PatchedTrain
    <3> QED BY <1>1, <2>1, <2>4, <3>2, Topics, SetsTrain
  <2> QED BY <2>2, <2>3, <2>4
<1>4. CASE deactivateTrain(r)
  <2> DEFINE row == [active |-> FALSE]
  <2>1. op[r].name = "deactivateTrain" /\ row \in TrainRow
    BY <1>4 DEF deactivateTrain, TrainRow
  <2>2. \/ Proceeds(r) \/ Learns(r, 1, none)
        \/ /\ req[r].pc \in 0..5
           /\ Commit(r, [db EXCEPT !.train = row], <<[type |-> "TRAIN_DEACTIVATED", row |-> row]>>)
    BY <1>1, <1>4, EndProceeds, HasRead DEF deactivateTrain, Check, Write, At, Learns, trainEvent
  <2>3. ASSUME Learns(r, 1, none) PROVE Proceeds(r)
    BY <2>1, <2>3, NothingLearned DEF Attentive
  <2> QED BY <1>1, <2>1, <2>2, <2>3, Topics, SetsTrain
<1>5. CASE trainQueries(r)
  BY <1>1, <1>5, AnswerProceeds DEF trainQueries
<1> QED BY <1>2, <1>3, <1>4, <1>5

(* No event, or one that is not about a station. *)
Others(events) == events = <<>> \/ \E ev \in Event : ev.type \in OtherTopics /\ events = <<ev>>

LEMMA OthersTold ==
  ASSUME outbox \in Seq(Event), NEW events, Others(events), outbox' = outbox \o events, SameStations
  PROVE  TellsOthers
<1>1. CASE events = <<>>
  BY <1>1, OneEvent DEF TellsOthers
<1>2. ASSUME NEW ev \in Event, ev.type \in OtherTopics, events = <<ev>> PROVE TellsOthers
  <2>1. outbox' = Append(outbox, ev)
    BY <1>2, OneEvent
  <2> QED BY <1>2, <2>1 DEF TellsOthers
<1> QED BY <1>1, <1>2 DEF Others

LEMMA SetsCoach ==
  ASSUME TypeOK, RequestsValid, SeatsOneGeneration, StopsSound(db), NEW r \in Requests, op' = op,
         op[r].name \in {"addCoach", "updateCoach", "deleteCoach"}, req[r].pc \in 0..5,
         NEW c \in Ids, NEW row \in CoachRow, NEW events, Others(events),
         Commit(r, [db EXCEPT !.coach[c] = row], events)
  PROVE  Proceeds(r)
<1>1. Finishes(r) /\ Counted(r) /\ db' = [db EXCEPT !.coach[c] = row] /\ outbox' = outbox \o events
  BY Committed
<1>2. /\ db' \in Database /\ db'.coach = [db.coach EXCEPT ![c] = row]
      /\ SameStations /\ SameTrain /\ SameSeats /\ SameLine
  BY <1>1, PutCoach DEF TypeOK
<1>3. op[r].name \notin GuardsSchedules /\ op[r].name # "updateScheduleStatus"
  BY DEF GuardsSchedules
<1>4. Harmless /\ KeepsStops(r) /\ excused' \subseteq Dates
  BY <1>1, <1>2, <1>3, LineKept
<1>5. KeepsRows
  BY <1>2, CatalogueAssumption DEF KeepsRows, SameStations, SameTrain, TypeOK, Database
<1>6. OneGeneration(db')
  BY <1>2 DEF SeatsOneGeneration, OneGeneration, SameSeats
<1>7. TellsOthers
  BY <1>1, <1>2, OthersTold DEF TypeOK
<1> QED BY <1>1, <1>2, <1>4, <1>5, <1>6, <1>7 DEF Proceeds, Commits, Finishes

LEMMA CoachProceeds ==
  ASSUME Inv, NEW r \in Requests, op' = op, coachController(r)
  PROVE  Proceeds(r)
<1>1. /\ TypeOK /\ RequestsValid /\ SeatsOneGeneration /\ StopsSound(db) /\ Found(r)
      /\ validRequest(op[r]) /\ r \in Ids
  BY DEF Inv, TypeInv, StopsOwned, RequestsValid, RowsStay
<1>2. CASE addCoach(r)
  <2> DEFINE row == [number |-> op[r].number, total |-> op[r].total, active |-> TRUE]
  <2>1. op[r].name = "addCoach" /\ row \in CoachRow
    BY <1>1, <1>2 DEF addCoach, validRequest, CoachRow
  <2>2. \/ Proceeds(r) \/ Learns(r, 1, none) \/ Learns(r, 2, none)
        \/ /\ req[r].pc \in 0..5
           /\ Commit(r, [db EXCEPT !.coach[r] = row], <<[type |-> "COACH_CREATED", row |-> row]>>)
    BY <1>1, <1>2, EndProceeds, HasRead DEF addCoach, Check, Write, At, Learns, coachEvent
  <2>3. ASSUME Learns(r, 1, none) \/ Learns(r, 2, none) PROVE Proceeds(r)
    BY <2>1, <2>3, NothingLearned DEF Attentive
  <2>4. Others(<<[type |-> "COACH_CREATED", row |-> row]>>)
    BY <2>1, Topics DEF Others, Event
  <2> QED BY <1>1, <2>1, <2>2, <2>3, <2>4, SetsCoach
<1>3. CASE updateCoach(r)
  <2> DEFINE c == op[r].id
             row == patched(db.coach[c], op[r].patch)
  <2>1. op[r].name = "updateCoach" /\ c \in Ids /\ allows(updateCoachSchema, op[r].patch)
    BY <1>1, <1>3 DEF updateCoach, validRequest
  <2>2. \/ Proceeds(r) \/ (Learns(r, 1, db.coach[c]) /\ getCoachById(c)) \/ Learns(r, 2, got(r))
        \/ (Learns(r, 3, got(r)) /\ ("total" \in DOMAIN op[r].patch => op[r].patch.total \in Capacity))
        \/ Learns(r, 4, none)
        \/ req[r].pc = 5 /\ Commit(r, [db EXCEPT !.coach[c] = row], <<>>)
    BY <1>1, <1>3, EndProceeds, HasRead DEF updateCoach, Check, Write, At, Learns
  <2>3. ASSUME Learns(r, 1, db.coach[c]), getCoachById(c) PROVE Proceeds(r)
    BY <2>1, <2>3 DEF Learns, Proceeds, Quiet, getCoachById, Found, Checked
  <2>4. ASSUME Learns(r, 2, got(r)) PROVE Proceeds(r)
    BY <1>1, <2>1, <2>4 DEF Learns, Proceeds, Quiet, Found, Checked
  <2>5. ASSUME Learns(r, 3, got(r)), "total" \in DOMAIN op[r].patch => op[r].patch.total \in Capacity
        PROVE  Proceeds(r)
    BY <1>1, <2>1, <2>5 DEF Learns, Proceeds, Quiet, Found, Checked
  <2>6. ASSUME Learns(r, 4, none) PROVE Proceeds(r)
    BY <1>1, <2>1, <2>6 DEF Learns, Proceeds, Quiet, Found, Checked
  <2>7. ASSUME req[r].pc = 5, Commit(r, [db EXCEPT !.coach[c] = row], <<>>) PROVE Proceeds(r)
    <3>1. /\ db.coach[c] \in CoachRow
          /\ "total" \in DOMAIN op[r].patch => op[r].patch.total \in Capacity
      BY <1>1, <2>1, <2>7 DEF Found, TypeOK, Database
    <3>2. row \in CoachRow /\ req[r].pc \in 0..5 /\ Others(<<>>)
      BY <2>1, <2>7, <3>1, PatchedCoach DEF Others
    <3> QED BY <1>1, <2>1, <2>7, <3>2, SetsCoach
  <2> QED BY <2>2, <2>3, <2>4, <2>5, <2>6, <2>7
<1>4. CASE deleteCoach(r)
  <2> DEFINE c == op[r].id
             row == [db.coach[c] EXCEPT !.active = FALSE]
  <2>1. op[r].name = "deleteCoach" /\ c \in Ids
    BY <1>1, <1>4 DEF deleteCoach, validRequest
  <2>2. \/ Proceeds(r) \/ (Learns(r, 1, none) /\ getCoachById(c)) \/ Learns(r, 2, none)
        \/ req[r].pc = 3 /\ Commit(r, [db EXCEPT !.coach[c].active = FALSE], <<>>)
    BY <1>1, <1>4, EndProceeds, HasRead DEF deleteCoach, Check, Write, At, Learns
  <2>3. ASSUME Learns(r, 1, none), getCoachById(c) PROVE Proceeds(r)
    BY <2>1, <2>3 DEF Learns, Proceeds, Quiet, getCoachById, Found, Checked
  <2>4. ASSUME Learns(r, 2, none) PROVE Proceeds(r)
    BY <1>1, <2>1, <2>4 DEF Learns, Proceeds, Quiet, Found, Checked
  <2>5. ASSUME req[r].pc = 3, Commit(r, [db EXCEPT !.coach[c].active = FALSE], <<>>) PROVE Proceeds(r)
    <3>1. db.coach[c] \in CoachRow
      BY <1>1, <2>1, <2>5 DEF Found, TypeOK, Database
    <3>2. row \in CoachRow
      BY <3>1 DEF CoachRow
    <3>3. req[r].pc \in 0..5 /\ Others(<<>>)
      BY <2>5 DEF Others
    <3>4. [db EXCEPT !.coach[c].active = FALSE] = [db EXCEPT !.coach[c] = row]
      OBVIOUS
    <3> QED BY <1>1, <2>1, <2>5, <3>2, <3>3, <3>4, SetsCoach
  <2> QED BY <2>2, <2>3, <2>4, <2>5
<1>5. CASE coachQueries(r)
  BY <1>1, <1>5, AnswerProceeds DEF coachQueries
<1> QED BY <1>2, <1>3, <1>4, <1>5 DEF coachController

LEMMA SetsSeats ==
  ASSUME TypeOK, RequestsValid, StopsSound(db), NEW r \in Requests, op' = op,
         op[r].name \in {"bulkCreateSeats", "resetSeats"}, req[r].pc \in 0..5,
         NEW c \in Ids, NEW s \in [1..MaxTotal -> Ids \cup {none}], NEW events, Others(events),
         Commit(r, [db EXCEPT !.seats[c] = s], events),
         OneGeneration([seats |-> [db.seats EXCEPT ![c] = s]])
  PROVE  Proceeds(r)
<1>1. Finishes(r) /\ Counted(r) /\ db' = [db EXCEPT !.seats[c] = s] /\ outbox' = outbox \o events
  BY Committed
<1>2. /\ db' \in Database /\ db'.seats = [db.seats EXCEPT ![c] = s]
      /\ SameStations /\ SameTrain /\ SameCoaches /\ SameLine
  BY <1>1, PutSeats DEF TypeOK
<1>3. op[r].name \notin GuardsSchedules /\ op[r].name # "updateScheduleStatus"
  BY DEF GuardsSchedules
<1>4. Harmless /\ KeepsStops(r) /\ excused' \subseteq Dates
  BY <1>1, <1>2, <1>3, LineKept
<1>5. KeepsRows
  BY <1>2 DEF KeepsRows, SameStations, SameTrain, SameCoaches
<1>6. OneGeneration(db')
  BY <1>2 DEF OneGeneration
<1>7. TellsOthers
  BY <1>1, <1>2, OthersTold DEF TypeOK
<1> QED BY <1>1, <1>2, <1>4, <1>5, <1>6, <1>7 DEF Proceeds, Commits, Finishes

LEMMA SeatProceeds ==
  ASSUME Inv, NEW r \in Requests, op' = op, seatController(r)
  PROVE  Proceeds(r)
<1>1. /\ TypeOK /\ RequestsValid /\ SeatsOneGeneration /\ StopsSound(db) /\ Found(r)
      /\ validRequest(op[r]) /\ r \in Ids /\ db \in Database
  BY DEF Inv, TypeInv, StopsOwned, RequestsValid, RowsStay, TypeOK
<1>2. CASE bulkCreateSeats(r)
  <2> DEFINE c == op[r].id
             total == got(r).total
             s == [i \in 1..MaxTotal |-> IF i <= total THEN r ELSE db.seats[c][i]]
             ev == [type |-> "SEAT_TEMPLATE_CREATED", coach |-> c, total |-> total]
  <2>1. op[r].name = "bulkCreateSeats" /\ c \in Ids
    BY <1>1, <1>2 DEF bulkCreateSeats, validRequest
  <2>2. \/ Proceeds(r) \/ (Learns(r, 1, db.coach[c]) /\ getCoachById(c)) \/ Learns(r, 2, got(r))
        \/ /\ req[r].pc = 3 /\ countSeatsByCoachId(c) \cap 1..total = {}
           /\ Commit(r, [db EXCEPT !.seats[c] = s], <<ev>>)
    BY <1>1, <1>2, EndProceeds, HasRead DEF bulkCreateSeats, bulkCreate, Check, Write, At, Learns, seatEvent
  <2>3. ASSUME Learns(r, 1, db.coach[c]), getCoachById(c) PROVE Proceeds(r)
    <3>1. db.coach[c] \in CoachRow
      BY <1>1, <2>1, <2>3 DEF getCoachById, Database
    <3> QED BY <2>1, <2>3, <3>1 DEF Learns, Proceeds, Quiet, got, Found, Checked
  <2>4. ASSUME Learns(r, 2, got(r)) PROVE Proceeds(r)
    BY <1>1, <2>1, <2>4 DEF Learns, Proceeds, Quiet, got, Found, Checked
  <2>5. ASSUME req[r].pc = 3, countSeatsByCoachId(c) \cap 1..total = {}, Commit(r, [db EXCEPT !.seats[c] = s], <<ev>>)
        PROVE  Proceeds(r)
    <3>1. got(r) \in CoachRow /\ total \in Capacity /\ total \in 1..MaxTotal
      BY <1>1, <2>1, <2>5, CatalogueAssumption DEF Found, CoachRow
    <3>2. db.seats[c] \in [1..MaxTotal -> Ids \cup {none}]
      BY <1>1, <2>1 DEF Database
    <3>3. s \in [1..MaxTotal -> Ids \cup {none}]
      BY <1>1, <3>2
    <3>4. \A n \in 1..total : db.seats[c][n] = none
      BY <2>5, <3>1, CatalogueAssumption DEF countSeatsByCoachId
    <3>5. \A m \in 1..MaxTotal : db.seats[c][m] = none
      <4>1. 1 \in 1..MaxTotal /\ db.seats[c][1] = none /\ \A m \in 1..MaxTotal : 1 <= m
        BY <3>1, <3>4, CatalogueAssumption
      <4>2. \A m \in 1..MaxTotal : db.seats[c][m] # none => db.seats[c][1] = db.seats[c][m]
        BY <1>1, <2>1, <4>1 DEF SeatsOneGeneration, OneGeneration
      <4> QED BY <4>1, <4>2
    <3>6. \A n, m \in 1..MaxTotal : s[m] # none /\ n <= m => s[n] = s[m]
      BY <3>1, <3>5, CatalogueAssumption
    <3> HIDE DEF s
    <3>7. OneGeneration([seats |-> [db.seats EXCEPT ![c] = s]])
      BY <1>1, <2>1, <3>6 DEF SeatsOneGeneration, OneGeneration, Database
    <3>8. req[r].pc \in 0..5 /\ Others(<<ev>>)
      BY <2>1, <2>5, <3>1, Topics DEF Others, Event
    <3> QED BY <1>1, <2>1, <2>5, <3>3, <3>7, <3>8, SetsSeats
  <2> QED BY <2>2, <2>3, <2>4, <2>5
<1>3. CASE resetSeats(r)
  <2> DEFINE c == op[r].id
             s == [i \in 1..MaxTotal |-> none]
  <2>1. op[r].name = "resetSeats" /\ c \in Ids
    BY <1>1, <1>3 DEF resetSeats, validRequest
  <2>2. \/ Proceeds(r) \/ Learns(r, 1, none) \/ Learns(r, 2, none)
        \/ req[r].pc = 3 /\ Commit(r, [db EXCEPT !.seats[c] = s], <<>>)
    BY <1>1, <1>3, EndProceeds, HasRead DEF resetSeats, Check, Write, At, Learns
  <2>3. ASSUME Learns(r, 1, none) \/ Learns(r, 2, none) PROVE Proceeds(r)
    BY <2>1, <2>3, NothingLearned DEF Attentive
  <2>4. ASSUME req[r].pc = 3, Commit(r, [db EXCEPT !.seats[c] = s], <<>>) PROVE Proceeds(r)
    <3>1. s \in [1..MaxTotal -> Ids \cup {none}] /\ \A n \in 1..MaxTotal : s[n] = none
      OBVIOUS
    <3> HIDE DEF s
    <3>2. OneGeneration([seats |-> [db.seats EXCEPT ![c] = s]])
      BY <1>1, <2>1, <3>1 DEF SeatsOneGeneration, OneGeneration, Database
    <3>3. req[r].pc \in 0..5 /\ Others(<<>>)
      BY <2>4 DEF Others
    <3> QED BY <1>1, <2>1, <2>4, <3>1, <3>2, <3>3, SetsSeats
  <2> QED BY <2>2, <2>3, <2>4
<1>4. CASE listSeats(r) \/ getSeatById(r)
  BY <1>1, <1>4, AnswerProceeds DEF listSeats, getSeatById
<1> QED BY <1>2, <1>3, <1>4 DEF seatController
-----------------------------------------------------------------------------
(* The line: operating days, route, stops and schedules.                   *)

LEMMA LineProceeds ==
  ASSUME TypeOK, SeatsOneGeneration, NEW r \in Requests, op' = op, Finishes(r),
         NEW events, Others(events), outbox' = outbox \o events,
         db' \in Database, SameStations, SameTrain, SameCoaches, SameSeats,
         KeepsStops(r), excused' \subseteq Dates, Harmless \/ Guarding
  PROVE  Proceeds(r)
<1>1. KeepsRows
  BY DEF KeepsRows, SameStations, SameTrain, SameCoaches
<1>2. OneGeneration(db')
  BY DEF SeatsOneGeneration, OneGeneration, SameSeats
<1>3. TellsOthers
  BY OthersTold DEF TypeOK
<1> QED BY <1>1, <1>2, <1>3 DEF Proceeds, Commits, Finishes

(* A commit that guards schedules excuses them all, or checked them. *)
LEMMA Guards ==
  ASSUME TypeOK, NEW r \in Requests, op[r].name \in GuardsSchedules, Counted(r),
         req[r].begun = commits
           => \A d \in Dates : isFuture(d) /\ db'.sched[d] = "ACTIVE" /\ d \notin excused => servedOn(db', d)
  PROVE  Guarding /\ excused' \subseteq Dates
<1>1. op[r].name # "updateScheduleStatus"
  BY DEF GuardsSchedules
<1>2. /\ commits' = commits + 1
      /\ excused' = excused \cup (IF req[r].begun # commits THEN ActiveDates(db') ELSE {})
  BY <1>1 DEF Counted
<1>3. excused' \subseteq Dates
  BY <1>2 DEF TypeOK, ActiveDates
<1>4. ActiveScheduleIsServed'
  BY <1>2 DEF ActiveScheduleIsServed, getFutureActiveSchedules, ActiveDates
<1> QED BY <1>2, <1>3, <1>4 DEF Guarding

(* The stop with an id, and the others. *)
LEMMA StopWithId ==
  ASSUME db \in Database, StopsSound(db), NEW i, getRouteStationById(i)
  PROVE  /\ stopOf(i) \in db.stops /\ stopOf(i) \in StopRow /\ stopOf(i).id = i
         /\ {s \in db.stops : s.id # i} = db.stops \ {stopOf(i)}
         /\ IsFiniteSet(db.stops \ {stopOf(i)})
         /\ Cardinality(db.stops) \in Nat
         /\ Cardinality(db.stops \ {stopOf(i)}) = Cardinality(db.stops) - 1
<1>1. stopOf(i) \in db.stops /\ stopOf(i).id = i
  BY DEF getRouteStationById, stopOf
<1>2. {s \in db.stops : s.id # i} = db.stops \ {stopOf(i)}
  BY <1>1 DEF StopsSound
<1>3. IsFiniteSet(db.stops) /\ Cardinality(db.stops) \in Nat
  BY FS_CardinalityType DEF StopsSound
<1>4. IsFiniteSet(db.stops \ {stopOf(i)}) /\ Cardinality(db.stops \ {stopOf(i)}) = Cardinality(db.stops) - 1
  BY <1>1, <1>3, FS_RemoveElement
<1>5. stopOf(i) \in StopRow
  BY <1>1 DEF Database
<1> QED BY <1>1, <1>2, <1>3, <1>4, <1>5

LEMMA DaysProceed ==
  ASSUME Inv, NEW r \in Requests, op' = op, updateTrainOperatingDays(r)
  PROVE  Proceeds(r)
<1> DEFINE days == op[r].days
           kept == db.days \ got(r)
<1>1. /\ TypeOK /\ RequestsValid /\ SeatsOneGeneration /\ StopsSound(db) /\ Checked(r) /\ ActiveScheduleIsServed
      /\ db \in Database /\ op[r].name = "updateTrainOperatingDays" /\ days \in SUBSET Dates
  BY DEF Inv, TypeInv, StopsOwned, RequestsValid, ChecksHold, TypeOK, updateTrainOperatingDays, validRequest
<1>2. \/ Proceeds(r) \/ Learns(r, 1, db.days)
      \/ (Learns(r, 2, none) /\ (got(r) \ days) \cap getFutureActiveSchedules = {})
      \/ Learns(r, 3, db.days)
      \/ /\ req[r].pc = 4 /\ kept \cap days = {}
         /\ Commit(r, [db EXCEPT !.days = kept \cup days], <<>>)
  BY <1>1, EndProceeds, HasRead DEF updateTrainOperatingDays, Check, Write, At, Learns
<1>3. ASSUME Learns(r, 1, db.days) PROVE Proceeds(r)
  BY <1>1, <1>3 DEF Learns, Proceeds, Quiet, got, Found, Checked
<1>4. ASSUME Learns(r, 2, none), (got(r) \ days) \cap getFutureActiveSchedules = {} PROVE Proceeds(r)
  <2>1. req[r].begun = commits => (db.days \ days) \cap Guarded = {}
    BY <1>1, <1>4 DEF Learns, Checked, Guarded
  <2>2. db' = db /\ Guarded' = Guarded
    BY <1>4 DEF Learns, Quiet, Guarded, getFutureActiveSchedules, ActiveDates
  <2> QED BY <1>1, <1>4, <2>1, <2>2 DEF Learns, Proceeds, Moves, Quiet, got, Found, Checked
<1>5. ASSUME Learns(r, 3, db.days) PROVE Proceeds(r)
  <2>1. req[r].begun = commits => (db.days \ days) \cap Guarded = {}
    BY <1>1, <1>5 DEF Learns, Checked
  <2>2. db' = db /\ Guarded' = Guarded
    BY <1>5 DEF Learns, Quiet, Guarded, getFutureActiveSchedules, ActiveDates
  <2> QED BY <1>1, <1>5, <2>1, <2>2 DEF Learns, Proceeds, Moves, Quiet, got, Found, Checked
<1>6. ASSUME req[r].pc = 4, kept \cap days = {}, Commit(r, [db EXCEPT !.days = kept \cup days], <<>>)
      PROVE  Proceeds(r)
  <2>1. req[r].pc \in 0..5 /\ kept \cup days \in SUBSET Dates
    BY <1>1, <1>6 DEF Database
  <2>2. Finishes(r) /\ Counted(r) /\ db' = [db EXCEPT !.days = kept \cup days] /\ outbox' = outbox \o <<>>
    BY <1>1, <1>6, <2>1, Committed
  <2>3. /\ db' \in Database /\ db'.days = kept \cup days
        /\ db'.route = db.route /\ db'.stops = db.stops /\ db'.sched = db.sched
        /\ SameStations /\ SameTrain /\ SameCoaches /\ SameSeats
    BY <1>1, <2>1, <2>2, PutDays
  <2>4. KeepsStops(r)
    BY <1>1, <2>3 DEF KeepsStops, StopsSound
  <2>5. ASSUME req[r].begun = commits, NEW d \in Dates, isFuture(d), db'.sched[d] = "ACTIVE", d \notin excused
        PROVE  servedOn(db', d)
    <3>1. d \in Guarded /\ servedOn(db, d)
      BY <1>1, <2>3, <2>5 DEF Guarded, ActiveScheduleIsServed, getFutureActiveSchedules, ActiveDates
    <3>2. got(r) = db.days /\ d \notin db.days \ days
      BY <1>1, <1>6, <2>5, <3>1 DEF Checked
    <3>3. d \in db'.days
      BY <2>3, <3>1, <3>2 DEF servedOn
    <3> QED BY <2>3, <3>1, <3>3 DEF servedOn
  <2>6. op[r].name \in GuardsSchedules
    BY <1>1 DEF GuardsSchedules
  <2>7. Guarding /\ excused' \subseteq Dates
    BY <1>1, <2>2, <2>5, <2>6, Guards
  <2>8. Others(<<>>)
    BY DEF Others
  <2> QED BY <1>1, <2>2, <2>3, <2>4, <2>7, <2>8, LineProceeds
<1> QED BY <1>2, <1>3, <1>4, <1>5, <1>6

(* The route is made, deleted and made inactive or active. *)
LEMMA SetsRoute ==
  ASSUME Inv, NEW r \in Requests, op' = op, req[r].pc \in 0..5,
         NEW row \in RouteRow, NEW t \in OtherTopics,
         Commit(r, [db EXCEPT !.route = row], <<[type |-> t, row |-> row]>>),
         \/ op[r].name = "createRoute" /\ db.route = none
         \/ op[r].name \in GuardsSchedules /\ (req[r].begun = commits => row.active \/ Guarded = {})
  PROVE  Proceeds(r)
<1>1. TypeOK /\ RequestsValid /\ SeatsOneGeneration /\ StopsSound(db) /\ ActiveScheduleIsServed /\ db \in Database
  BY DEF Inv, TypeInv, StopsOwned, TypeOK
<1> DEFINE ev == [type |-> t, row |-> row]
<1>2. Finishes(r) /\ Counted(r) /\ db' = [db EXCEPT !.route = row] /\ outbox' = outbox \o <<ev>>
  BY <1>1, Committed
<1>3. /\ db' \in Database /\ db'.route = row
      /\ db'.days = db.days /\ db'.stops = db.stops /\ db'.sched = db.sched
      /\ SameStations /\ SameTrain /\ SameCoaches /\ SameSeats
  BY <1>1, <1>2, PutRoute
<1>4. KeepsStops(r)
  BY <1>1, <1>3 DEF KeepsStops, StopsSound
<1>5. Others(<<ev>>)
  BY DEF Others, Event
<1>6. CASE op[r].name = "createRoute" /\ db.route = none
  <2>1. op[r].name \notin GuardsSchedules /\ op[r].name # "updateScheduleStatus"
    BY <1>6 DEF GuardsSchedules
  <2>2. commits' = commits /\ excused' = excused
    BY <1>2, <2>1 DEF Counted
  <2>3. Guarded' = Guarded /\ excused' \subseteq Dates
    BY <1>1, <1>3, <2>2 DEF Guarded, getFutureActiveSchedules, ActiveDates, TypeOK
  <2>4. \A d \in Dates : ~servedOn(db, d)
    BY <1>6 DEF servedOn
  <2>5. Cardinality(db.stops) \in Nat
    BY <1>1, FS_CardinalityType DEF StopsSound
  <2>6. Harmless
    BY <1>3, <2>2, <2>3, <2>4, <2>5 DEF Harmless
  <2> QED BY <1>1, <1>2, <1>3, <1>4, <1>5, <2>3, <2>6, LineProceeds
<1>7. CASE op[r].name \in GuardsSchedules /\ (req[r].begun = commits => row.active \/ Guarded = {})
  <2>1. ASSUME req[r].begun = commits, NEW d \in Dates, isFuture(d), db'.sched[d] = "ACTIVE", d \notin excused
        PROVE  servedOn(db', d)
    <3>1. d \in Guarded /\ servedOn(db, d)
      BY <1>1, <1>3, <2>1 DEF Guarded, ActiveScheduleIsServed, getFutureActiveSchedules, ActiveDates
    <3>2. row.active /\ row # none
      BY <1>7, <2>1, <3>1, CatalogueAssumption DEF RouteRow, TrainRow
    <3> QED BY <1>3, <3>1, <3>2 DEF servedOn
  <2>2. Guarding /\ excused' \subseteq Dates
    BY <1>1, <1>2, <1>7, <2>1, Guards
  <2> QED BY <1>1, <1>2, <1>3, <1>4, <1>5, <2>2, LineProceeds
<1> QED BY <1>6, <1>7

LEMMA RoutesProceed ==
  ASSUME Inv, NEW r \in Requests, op' = op, createRoute(r) \/ deleteRoute(r) \/ updateRouteStatus(r) \/ routeQueries(r)
  PROVE  Proceeds(r)
<1>1. /\ TypeOK /\ RequestsValid /\ validRequest(op[r]) /\ Checked(r)
      /\ db \in Database
  BY DEF Inv, TypeInv, RequestsValid, ChecksHold, TypeOK
<1>2. CASE createRoute(r)
  <2> DEFINE row == [active |-> TRUE]
  <2>1. op[r].name = "createRoute" /\ row \in RouteRow
    BY <1>2 DEF createRoute, RouteRow
  <2>2. \/ Proceeds(r) \/ Learns(r, 1, none) \/ Learns(r, 2, none)
        \/ /\ req[r].pc \in 0..5 /\ db.route = none
           /\ Commit(r, [db EXCEPT !.route = row], <<[type |-> "ROUTE_CREATED", row |-> row]>>)
    BY <1>1, <1>2, EndProceeds, HasRead DEF createRoute, Check, Write, At, Learns, routeEvent, withRoute
  <2>3. ASSUME Learns(r, 1, none) \/ Learns(r, 2, none) PROVE Proceeds(r)
    BY <2>1, <2>3, NothingLearned DEF Attentive
  <2> QED BY <2>1, <2>2, <2>3, Topics, SetsRoute
<1>3. CASE deleteRoute(r)
  <2> DEFINE row == [active |-> FALSE]
  <2>1. op[r].name = "deleteRoute" /\ row \in RouteRow /\ op[r].name \in GuardsSchedules
    BY <1>3 DEF deleteRoute, RouteRow, GuardsSchedules
  <2>2. \/ Proceeds(r) \/ Learns(r, 1, none) \/ (Learns(r, 2, none) /\ referencing = {})
        \/ /\ req[r].pc = 3
           /\ Commit(r, [db EXCEPT !.route = row], <<[type |-> "ROUTE_DELETED", row |-> row]>>)
    BY <1>1, <1>3, EndProceeds, HasRead DEF deleteRoute, Check, Write, At, Learns, routeEvent, withRoute
  <2>3. ASSUME Learns(r, 1, none) PROVE Proceeds(r)
    BY <2>1, <2>3 DEF Learns, Proceeds, Found, Checked
  <2>4. ASSUME Learns(r, 2, none), referencing = {} PROVE Proceeds(r)
    <3>1. Guarded' = {}
      BY <2>4 DEF Learns, Quiet, referencing, Guarded, getFutureActiveSchedules, ActiveDates
    <3> QED BY <2>1, <2>4, <3>1 DEF Learns, Proceeds, Found, Checked
  <2>5. ASSUME req[r].pc = 3, Commit(r, [db EXCEPT !.route = row], <<[type |-> "ROUTE_DELETED", row |-> row]>>)
        PROVE  Proceeds(r)
    <3>1. req[r].pc \in 0..5 /\ (req[r].begun = commits => Guarded = {})
      BY <1>1, <2>1, <2>5 DEF Checked
    <3> QED BY <2>1, <2>5, <3>1, Topics, SetsRoute
  <2> QED BY <2>2, <2>3, <2>4, <2>5
<1>4. CASE updateRouteStatus(r)
  <2> DEFINE row == [active |-> op[r].active]
  <2>1. /\ op[r].name = "updateRouteStatus" /\ row \in RouteRow /\ op[r].name \in GuardsSchedules
        /\ op[r].active \in BOOLEAN
    BY <1>1, <1>4 DEF updateRouteStatus, validRequest, RouteRow, GuardsSchedules
  <2>2. \/ Proceeds(r) \/ Learns(r, 1, none)
        \/ (Learns(r, 2, none) /\ (~op[r].active => referencing = {}))
        \/ /\ req[r].pc = 3
           /\ Commit(r, [db EXCEPT !.route = row], <<[type |-> "ROUTE_UPDATED", row |-> row]>>)
    BY <1>1, <1>4, EndProceeds, HasRead DEF updateRouteStatus, Check, Write, At, Learns, routeEvent, withRoute
  <2>3. ASSUME Learns(r, 1, none) PROVE Proceeds(r)
    BY <2>1, <2>3 DEF Learns, Proceeds, Found, Checked
  <2>4. ASSUME Learns(r, 2, none), ~op[r].active => referencing = {} PROVE Proceeds(r)
    <3>1. ~op[r].active => Guarded' = {}
      BY <2>4 DEF Learns, Quiet, referencing, Guarded, getFutureActiveSchedules, ActiveDates
    <3> QED BY <2>1, <2>4, <3>1 DEF Learns, Proceeds, Found, Checked
  <2>5. ASSUME req[r].pc = 3, Commit(r, [db EXCEPT !.route = row], <<[type |-> "ROUTE_UPDATED", row |-> row]>>)
        PROVE  Proceeds(r)
    <3>1. req[r].pc \in 0..5 /\ (req[r].begun = commits => row.active \/ Guarded = {})
      BY <1>1, <2>1, <2>5 DEF Checked
    <3> QED BY <2>1, <2>5, <3>1, Topics, SetsRoute
  <2> QED BY <2>2, <2>3, <2>4, <2>5
<1>5. CASE routeQueries(r)
  BY <1>1, <1>5, AnswerProceeds DEF routeQueries
<1> QED BY <1>2, <1>3, <1>4, <1>5

(* The stops come with what the change makes of them. *)
LEMMA SetsStops ==
  ASSUME Inv, NEW r \in Requests, op' = op, req[r].pc \in 0..5,
         NEW stops \in SUBSET StopRow, NEW row \in StopRow, NEW t \in OtherTopics,
         Commit(r, [db EXCEPT !.stops = stops], <<[type |-> t, row |-> row]>>),
         StopsSound([stops |-> stops]),
         \A s \in stops : s.id = r \/ \E u \in db.stops : u.id = s.id,
         \/ /\ op[r].name \in {"addStationToRoute", "updateRouteStation"}
            /\ Cardinality(db.stops) <= Cardinality(stops) /\ Cardinality(stops) \in Nat
         \/ op[r].name = "removeRouteStation" /\ (req[r].begun = commits => Cardinality(stops) >= 2)
  PROVE  Proceeds(r)
<1>1. /\ TypeOK /\ RequestsValid /\ SeatsOneGeneration /\ StopsSound(db) /\ ActiveScheduleIsServed /\ db \in Database
      /\ Cardinality(db.stops) \in Nat
  BY FS_CardinalityType DEF Inv, TypeInv, StopsOwned, TypeOK, StopsSound
<1> DEFINE ev == [type |-> t, row |-> row]
<1>2. Finishes(r) /\ Counted(r) /\ db' = [db EXCEPT !.stops = stops] /\ outbox' = outbox \o <<ev>>
  BY <1>1, Committed
<1>3. /\ db' \in Database /\ db'.stops = stops
      /\ db'.days = db.days /\ db'.route = db.route /\ db'.sched = db.sched
      /\ SameStations /\ SameTrain /\ SameCoaches /\ SameSeats
  BY <1>1, <1>2, PutStops
<1>4. KeepsStops(r)
  BY <1>3 DEF KeepsStops, StopsSound
<1>5. Others(<<ev>>)
  BY DEF Others, Event
<1>6. CASE /\ op[r].name \in {"addStationToRoute", "updateRouteStation"}
           /\ Cardinality(db.stops) <= Cardinality(stops) /\ Cardinality(stops) \in Nat
  <2>1. op[r].name \notin GuardsSchedules /\ op[r].name # "updateScheduleStatus"
    BY <1>6 DEF GuardsSchedules
  <2>2. commits' = commits /\ excused' = excused
    BY <1>2, <2>1 DEF Counted
  <2>3. Guarded' = Guarded /\ excused' \subseteq Dates
    BY <1>1, <1>3, <2>2 DEF Guarded, getFutureActiveSchedules, ActiveDates, TypeOK
  <2>4. \A d \in Dates : servedOn(db, d) => servedOn(db', d)
    BY <1>1, <1>3, <1>6 DEF servedOn
  <2>5. Harmless
    BY <1>3, <1>6, <2>2, <2>3, <2>4 DEF Harmless
  <2> QED BY <1>1, <1>2, <1>3, <1>4, <1>5, <2>3, <2>5, LineProceeds
<1>7. CASE op[r].name = "removeRouteStation" /\ (req[r].begun = commits => Cardinality(stops) >= 2)
  <2>1. ASSUME req[r].begun = commits, NEW d \in Dates, isFuture(d), db'.sched[d] = "ACTIVE", d \notin excused
        PROVE  servedOn(db', d)
    <3>1. servedOn(db, d)
      BY <1>1, <1>3, <2>1 DEF ActiveScheduleIsServed, getFutureActiveSchedules, ActiveDates
    <3> QED BY <1>3, <1>7, <2>1, <3>1 DEF servedOn
  <2>2. op[r].name \in GuardsSchedules
    BY <1>7 DEF GuardsSchedules
  <2>3. Guarding /\ excused' \subseteq Dates
    BY <1>1, <1>2, <2>1, <2>2, Guards
  <2> QED BY <1>1, <1>2, <1>3, <1>4, <1>5, <2>3, LineProceeds
<1> QED BY <1>6, <1>7

LEMMA StopsProceed ==
  ASSUME Inv, NEW r \in Requests, op' = op,
         addStationToRoute(r) \/ updateRouteStation(r) \/ removeRouteStation(r)
  PROVE  Proceeds(r)
<1>1. /\ TypeOK /\ RequestsValid /\ StopsOwned /\ StopsSound(db) /\ validRequest(op[r]) /\ Checked(r)
      /\ db \in Database /\ db.stops \subseteq StopRow /\ r \in Ids
  BY DEF Inv, TypeInv, RequestsValid, ChecksHold, TypeOK, StopsOwned, Database
<1>2. CASE addStationToRoute(r)
  <2> DEFINE row == [id |-> r, station |-> op[r].station, number |-> op[r].number, minutes |-> none]
             stops == db.stops \cup {row}
  <2>1. op[r].name = "addStationToRoute" /\ row \in StopRow
    BY <1>1, <1>2 DEF addStationToRoute, validRequest, StopRow
  <2>2. \/ Proceeds(r) \/ Learns(r, 1, none) \/ Learns(r, 2, none) \/ Learns(r, 3, none) \/ Learns(r, 4, none)
        \/ /\ req[r].pc = 5
           /\ Commit(r, [db EXCEPT !.stops = stops], <<[type |-> "ROUTE_STATION_ADDED", row |-> row]>>)
    BY <1>1, <1>2, EndProceeds, HasRead
       DEF addStationToRoute, Check, Write, At, Learns, routeStationEvent, addRouteStation
  <2>3. ASSUME Learns(r, 1, none) \/ Learns(r, 2, none) \/ Learns(r, 3, none) \/ Learns(r, 4, none)
        PROVE  Proceeds(r)
    BY <2>1, <2>3, NothingLearned DEF Attentive
  <2>4. ASSUME req[r].pc = 5,
               Commit(r, [db EXCEPT !.stops = stops], <<[type |-> "ROUTE_STATION_ADDED", row |-> row]>>)
        PROVE  Proceeds(r)
    <3>1. \A s \in db.stops : s.id # r
      BY <1>1, <2>1, <2>4 DEF StopsOwned, Done
    <3>2. row \notin db.stops /\ row.id = r
      BY <3>1
    <3>3. IsFiniteSet(db.stops) /\ Cardinality(db.stops) \in Nat
      BY <1>1, FS_CardinalityType DEF StopsSound
    <3>4. IsFiniteSet(stops) /\ Cardinality(stops) = Cardinality(db.stops) + 1
      BY <3>2, <3>3, FS_AddElement
    <3>5. stops \in SUBSET StopRow /\ req[r].pc \in 0..5
      BY <1>1, <2>1, <2>4
    <3>6. StopsSound([stops |-> stops])
      BY <1>1, <3>1, <3>2, <3>4 DEF StopsSound
    <3>7. \A s \in stops : s.id = r \/ \E u \in db.stops : u.id = s.id
      BY <3>2
    <3>8. Cardinality(db.stops) <= Cardinality(stops) /\ Cardinality(stops) \in Nat
      BY <3>3, <3>4
    <3> HIDE DEF row, stops
    <3> QED BY <2>1, <2>4, <3>5, <3>6, <3>7, <3>8, Topics, SetsStops
  <2> QED BY <2>2, <2>3, <2>4
<1>3. CASE updateRouteStation(r)
  <2> DEFINE i == op[r].id
             row == patched(stopOf(i), op[r].patch)
             others == {s \in db.stops : s.id # i}
             stops == others \cup {row}
  <2>1. op[r].name = "updateRouteStation" /\ allows(updateRouteStationSchema, op[r].patch)
    BY <1>1, <1>3 DEF updateRouteStation, validRequest
  <2>2. \/ Proceeds(r) \/ Learns(r, 1, none) \/ Learns(r, 2, none)
        \/ /\ req[r].pc = 3 /\ getRouteStationById(i)
           /\ Commit(r, [db EXCEPT !.stops = stops], <<[type |-> "ROUTE_STATION_UPDATED", row |-> row]>>)
    BY <1>1, <1>3, EndProceeds, HasRead DEF updateRouteStation, Check, Write, At, Learns, routeStationEvent
  <2>3. ASSUME Learns(r, 1, none) \/ Learns(r, 2, none) PROVE Proceeds(r)
    BY <2>1, <2>3, NothingLearned DEF Attentive
  <2>4. ASSUME req[r].pc = 3, getRouteStationById(i),
               Commit(r, [db EXCEPT !.stops = stops], <<[type |-> "ROUTE_STATION_UPDATED", row |-> row]>>)
        PROVE  Proceeds(r)
    <3>1. /\ stopOf(i) \in db.stops /\ stopOf(i) \in StopRow /\ stopOf(i).id = i
          /\ others = db.stops \ {stopOf(i)} /\ IsFiniteSet(others)
          /\ Cardinality(db.stops) \in Nat /\ Cardinality(others) = Cardinality(db.stops) - 1
      <4>1. db \in Database /\ StopsSound(db) /\ getRouteStationById(i)
        BY <1>1, <2>4
      <4> QED BY <4>1, StopWithId
    <3>2. row \in StopRow /\ row.id = i
      BY <2>1, <3>1, PatchedStop
    <3> HIDE DEF row
    <3>3. row \notin others
      BY <3>2
    <3>4. IsFiniteSet(stops) /\ Cardinality(stops) = Cardinality(db.stops)
      <4> HIDE DEF others
      <4>1. IsFiniteSet(others \cup {row}) /\ Cardinality(others \cup {row}) = Cardinality(others) + 1
        BY <3>1, <3>3, FS_AddElement
      <4> QED BY <3>1, <4>1
    <3>5. stops \in SUBSET StopRow /\ req[r].pc \in 0..5
      BY <1>1, <2>4, <3>2
    <3>6. StopsSound([stops |-> stops])
      BY <1>1, <3>2, <3>4 DEF StopsSound
    <3>7. \A s \in stops : s.id = r \/ \E u \in db.stops : u.id = s.id
      BY <3>1, <3>2
    <3>8. Cardinality(db.stops) <= Cardinality(stops) /\ Cardinality(stops) \in Nat
      BY <3>1, <3>4
    <3> HIDE DEF stops
    <3> QED BY <2>1, <2>4, <3>2, <3>5, <3>6, <3>7, <3>8, Topics, SetsStops
  <2> QED BY <2>2, <2>3, <2>4
<1>4. CASE removeRouteStation(r)
  <2> DEFINE i == op[r].id
             stops == {s \in db.stops : s.id # i}
  <2>1. op[r].name = "removeRouteStation"
    BY <1>4 DEF removeRouteStation
  <2>2. \/ Proceeds(r) \/ Learns(r, 1, none) \/ (Learns(r, 2, none) /\ Cardinality(db.stops) > 2)
        \/ /\ req[r].pc = 3 /\ getRouteStationById(i)
           /\ Commit(r, [db EXCEPT !.stops = stops], <<[type |-> "ROUTE_STATION_REMOVED", row |-> stopOf(i)]>>)
    BY <1>1, <1>4, EndProceeds, HasRead DEF removeRouteStation, Check, Write, At, Learns, routeStationEvent
  <2>3. ASSUME Learns(r, 1, none) PROVE Proceeds(r)
    BY <2>1, <2>3 DEF Learns, Proceeds, Found, Checked
  <2>4. ASSUME Learns(r, 2, none), Cardinality(db.stops) > 2 PROVE Proceeds(r)
    BY <2>1, <2>4 DEF Learns, Proceeds, Quiet, Found, Checked
  <2>5. ASSUME req[r].pc = 3, getRouteStationById(i),
               Commit(r, [db EXCEPT !.stops = stops], <<[type |-> "ROUTE_STATION_REMOVED", row |-> stopOf(i)]>>)
        PROVE  Proceeds(r)
    <3>1. /\ stopOf(i) \in StopRow
          /\ stops = db.stops \ {stopOf(i)} /\ IsFiniteSet(stops)
          /\ Cardinality(db.stops) \in Nat /\ Cardinality(stops) = Cardinality(db.stops) - 1
      <4>1. db \in Database /\ StopsSound(db) /\ getRouteStationById(i)
        BY <1>1, <2>5
      <4> QED BY <4>1, StopWithId
    <3>2. stops \in SUBSET StopRow /\ req[r].pc \in 0..5
      BY <1>1, <2>5
    <3>3. StopsSound([stops |-> stops])
      BY <1>1, <3>1 DEF StopsSound
    <3>4. \A s \in stops : s.id = r \/ \E u \in db.stops : u.id = s.id
      OBVIOUS
    <3>5. req[r].begun = commits => Cardinality(stops) >= 2
      BY <1>1, <2>1, <2>5, <3>1 DEF Checked
    <3> HIDE DEF stops
    <3> QED BY <2>1, <2>5, <3>1, <3>2, <3>3, <3>4, <3>5, Topics, SetsStops
  <2> QED BY <2>2, <2>3, <2>4, <2>5
<1> QED BY <1>2, <1>3, <1>4

LEMMA ScheduleProceeds ==
  ASSUME Inv, NEW r \in Requests, op' = op, scheduleController(r)
  PROVE  Proceeds(r)
<1> DEFINE d == op[r].date
<1>1. /\ TypeOK /\ RequestsValid /\ SeatsOneGeneration /\ StopsSound(db) /\ validRequest(op[r]) /\ Checked(r)
      /\ ActiveScheduleIsServed /\ db \in Database /\ excused \subseteq Dates
  BY DEF Inv, TypeInv, StopsOwned, RequestsValid, ChecksHold, TypeOK
<1>2. ASSUME NEW s \in ScheduleStatus, db' = [db EXCEPT !.sched[d] = s], d \in Dates
      PROVE  /\ db' \in Database /\ db'.sched = [db.sched EXCEPT ![d] = s]
             /\ db'.days = db.days /\ db'.route = db.route /\ db'.stops = db.stops
             /\ SameStations /\ SameTrain /\ SameCoaches /\ SameSeats
             /\ KeepsStops(r)
             /\ \A x \in Dates : servedOn(db', x) = servedOn(db, x)
             /\ \A x \in Dates : db'.sched[x] = IF x = d THEN s ELSE db.sched[x]
  <2>1. /\ db' \in Database /\ db'.sched = [db.sched EXCEPT ![d] = s]
        /\ db'.days = db.days /\ db'.route = db.route /\ db'.stops = db.stops
        /\ SameStations /\ SameTrain /\ SameCoaches /\ SameSeats
    BY <1>1, <1>2, PutSchedule
  <2>2. KeepsStops(r)
    BY <1>1, <2>1 DEF KeepsStops, StopsSound
  <2>3. \A x \in Dates : servedOn(db', x) = servedOn(db, x)
    BY <2>1 DEF servedOn
  <2>4. \A x \in Dates : db'.sched[x] = IF x = d THEN s ELSE db.sched[x]
    BY <1>1, <2>1 DEF Database
  <2> QED BY <2>1, <2>2, <2>3, <2>4
<1>3. CASE createSchedule(r)
  <2> DEFINE ev == [type |-> "SCHEDULE_CREATED", date |-> d, status |-> "ACTIVE"]
  <2>1. op[r].name = "createSchedule" /\ d \in Dates /\ op[r].name \in GuardsSchedules
    BY <1>1, <1>3 DEF createSchedule, validRequest, GuardsSchedules
  <2>2. \/ Proceeds(r) \/ Learns(r, 1, db.days) \/ (Learns(r, 2, none) /\ d \in got(r))
        \/ (Learns(r, 3, none) /\ getRouteByTrainId /\ Cardinality(db.stops) >= 2) \/ Learns(r, 4, none)
        \/ /\ req[r].pc = 5
           /\ Commit(r, [db EXCEPT !.sched[d] = "ACTIVE"], <<ev>>)
    BY <1>1, <1>3, EndProceeds, HasRead DEF createSchedule, Check, Write, At, Learns, scheduleEvent, withSchedule
  <2>3. ASSUME Learns(r, 1, db.days) PROVE Proceeds(r)
    BY <2>1, <2>3 DEF Learns, Proceeds, Quiet, got, Found, Checked
  <2>4. ASSUME Learns(r, 2, none), d \in got(r) PROVE Proceeds(r)
    BY <1>1, <2>1, <2>4 DEF Learns, Proceeds, Moves, Quiet, got, Found, Checked
  <2>5. ASSUME Learns(r, 3, none), getRouteByTrainId, Cardinality(db.stops) >= 2 PROVE Proceeds(r)
    <3>1. req[r].begun = commits => d \in db.days
      BY <1>1, <2>1, <2>5 DEF Learns, Checked
    <3>2. req[r].begun = commits => servedOn(db, d)
      BY <2>5, <3>1 DEF getRouteByTrainId, getRouteById, servedOn
    <3>3. db' = db
      BY <2>5 DEF Learns, Quiet
    <3> QED BY <2>1, <2>5, <3>1, <3>2, <3>3 DEF Learns, Proceeds, Moves, Quiet, Found, Checked
  <2>6. ASSUME Learns(r, 4, none) PROVE Proceeds(r)
    <3>1. req[r].begun = commits => d \in db.days /\ servedOn(db, d)
      BY <1>1, <2>1, <2>6 DEF Learns, Checked
    <3>2. db' = db
      BY <2>6 DEF Learns, Quiet
    <3> QED BY <2>1, <2>6, <3>1, <3>2 DEF Learns, Proceeds, Moves, Quiet, Found, Checked
  <2>7. ASSUME req[r].pc = 5, Commit(r, [db EXCEPT !.sched[d] = "ACTIVE"], <<ev>>) PROVE Proceeds(r)
    <3>1. req[r].pc \in 0..5 /\ "ACTIVE" \in ScheduleStatus
      BY <2>7 DEF ScheduleStatus
    <3>2. Finishes(r) /\ Counted(r) /\ db' = [db EXCEPT !.sched[d] = "ACTIVE"] /\ outbox' = outbox \o <<ev>>
      BY <1>1, <2>7, <3>1, Committed
    <3>3. /\ db' \in Database /\ KeepsStops(r)
          /\ SameStations /\ SameTrain /\ SameCoaches /\ SameSeats
          /\ \A x \in Dates : servedOn(db', x) = servedOn(db, x)
          /\ \A x \in Dates : db'.sched[x] = IF x = d THEN "ACTIVE" ELSE db.sched[x]
      BY <1>2, <2>1, <3>1, <3>2
    <3>4. ASSUME req[r].begun = commits, NEW x \in Dates, isFuture(x), db'.sched[x] = "ACTIVE", x \notin excused
          PROVE  servedOn(db', x)
      <4>1. CASE x = d
        BY <1>1, <2>1, <2>7, <3>3, <3>4, <4>1 DEF Checked
      <4>2. CASE x # d
        BY <1>1, <3>3, <3>4, <4>2 DEF ActiveScheduleIsServed, getFutureActiveSchedules, ActiveDates
      <4> QED BY <4>1, <4>2
    <3>5. Guarding /\ excused' \subseteq Dates
      BY <1>1, <2>1, <3>2, <3>4, Guards
    <3>6. Others(<<ev>>)
      BY <2>1, <3>1, Topics DEF Others, Event
    <3> QED BY <1>1, <3>2, <3>3, <3>5, <3>6, LineProceeds
  <2> QED BY <2>2, <2>3, <2>4, <2>5, <2>6, <2>7
<1>4. CASE updateScheduleStatus(r)
  <2> DEFINE s == op[r].status
             ev == [type |-> "SCHEDULE_STATUS_CHANGED", date |-> d, status |-> s]
  <2>1. /\ op[r].name = "updateScheduleStatus" /\ d \in Dates /\ s \in ScheduleStatus
        /\ op[r].name \notin GuardsSchedules
    BY <1>1, <1>4 DEF updateScheduleStatus, validRequest, GuardsSchedules
  <2>2. \/ Proceeds(r) \/ Learns(r, 1, db.sched[d]) \/ Learns(r, 2, none)
        \/ /\ req[r].pc = 3 /\ Commit(r, [db EXCEPT !.sched[d] = s], <<ev>>)
    BY <1>1, <1>4, EndProceeds, HasRead
       DEF updateScheduleStatus, Check, Write, At, Learns, scheduleEvent, withSchedule, getById
  <2>3. ASSUME Learns(r, 1, db.sched[d]) \/ Learns(r, 2, none) PROVE Proceeds(r)
    BY <2>1, <2>3, NothingLearned DEF Attentive
  <2>4. ASSUME req[r].pc = 3, Commit(r, [db EXCEPT !.sched[d] = s], <<ev>>) PROVE Proceeds(r)
    <3>1. req[r].pc \in 0..5
      BY <2>4
    <3>2. Finishes(r) /\ Counted(r) /\ db' = [db EXCEPT !.sched[d] = s] /\ outbox' = outbox \o <<ev>>
      BY <1>1, <2>4, <3>1, Committed
    <3>3. /\ db' \in Database /\ KeepsStops(r) /\ db'.days = db.days /\ db'.stops = db.stops
          /\ SameStations /\ SameTrain /\ SameCoaches /\ SameSeats
          /\ \A x \in Dates : servedOn(db', x) = servedOn(db, x)
          /\ \A x \in Dates : db'.sched[x] = IF x = d THEN s ELSE db.sched[x]
      BY <1>2, <2>1, <3>2
    <3>4. commits' = commits /\ excused' = excused \cup {d}
      BY <2>1, <3>2 DEF Counted
    <3>5. Guarded' \subseteq Guarded /\ excused' \subseteq Dates
      BY <1>1, <2>1, <3>3, <3>4 DEF Guarded, getFutureActiveSchedules, ActiveDates
    <3>6. Cardinality(db.stops) \in Nat
      BY <1>1, FS_CardinalityType DEF StopsSound
    <3>7. Harmless
      BY <3>3, <3>4, <3>5, <3>6 DEF Harmless
    <3>8. Others(<<ev>>)
      BY <2>1, Topics DEF Others, Event
    <3> QED BY <1>1, <3>2, <3>3, <3>5, <3>7, <3>8, LineProceeds
  <2> QED BY <2>2, <2>3, <2>4
<1>5. CASE scheduleQuery(r) \/ schedulesQuery(r)
  BY <1>1, <1>5, AnswerProceeds DEF scheduleQuery, schedulesQuery
<1> QED BY <1>3, <1>4, <1>5 DEF scheduleController

(* Whatever a request does next. *)
LEMMA RequestProceeds ==
  ASSUME Inv, NEW r \in Requests, Administer(r)
  PROVE  Proceeds(r) /\ UNCHANGED <<op, index, consumer, key, overtaken, faults, suggestions, fresh>>
<1>1. op' = op /\ UNCHANGED <<index, consumer, key, overtaken, faults, suggestions, fresh>> /\ adminRouter(r)
  BY DEF Administer, searchVars, suggestVars
<1>2. TypeOK /\ RequestsValid
  BY DEF Inv, TypeInv
<1>3. CASE requireAdmin(r)
  BY <1>1, <1>2, <1>3, AdmitProceeds
<1>4. CASE stationController(r)
  BY <1>1, <1>4, StationProceeds
<1>5. CASE trainController(r)
  BY <1>1, <1>5, TrainProceeds, DaysProceed DEF trainController
<1>6. CASE coachController(r)
  BY <1>1, <1>6, CoachProceeds
<1>7. CASE seatController(r)
  BY <1>1, <1>7, SeatProceeds
<1>8. CASE routeController(r)
  BY <1>1, <1>8, RoutesProceed, StopsProceed DEF routeController
<1>9. CASE scheduleController(r)
  BY <1>1, <1>9, ScheduleProceeds
<1> QED BY <1>1, <1>3, <1>4, <1>5, <1>6, <1>7, <1>8, <1>9 DEF adminRouter
-----------------------------------------------------------------------------
(* The invariant, when a request goes on.                                  *)

LEMMA EventAdded ==
  ASSUME TypeOK, TellsOthers \/ TellsStation
  PROVE  outbox' \in Seq(Event) /\ Len(outbox') \in {Len(outbox), Len(outbox) + 1}
<1>1. ASSUME NEW ev \in Event, outbox' = Append(outbox, ev)
      PROVE  outbox' \in Seq(Event) /\ Len(outbox') \in {Len(outbox), Len(outbox) + 1}
  BY <1>1 DEF TypeOK
<1>2. CASE TellsOthers
  BY <1>1, <1>2 DEF TellsOthers, TypeOK
<1>3. CASE TellsStation
  <2>1. PICK i \in Ids, row \in StationRow, t \in StationTopics :
          outbox' = Append(outbox, [type |-> t, id |-> i, row |-> row])
    BY <1>3 DEF TellsStation
  <2>2. [type |-> t, id |-> i, row |-> row] \in Event
    BY DEF Event
  <2> QED BY <1>1, <2>1, <2>2
<1> QED BY <1>2, <1>3

LEMMA AdministerTypes ==
  ASSUME Inv, NEW r \in Requests, Administer(r)
  PROVE  TypeInv'
<1>1. /\ Proceeds(r) /\ Moves(r)
      /\ UNCHANGED <<op, index, consumer, key, overtaken, faults, suggestions, fresh>>
      /\ Requests' = Requests
  BY RequestProceeds DEF Proceeds, Requests
<1>2. TypeOK /\ RequestsValid /\ RowsStay
  BY DEF Inv, TypeInv
<1>3. RequestsValid'
  BY <1>1, <1>2 DEF RequestsValid, Moves
<1>4. /\ \A q \in Requests \ {r} : req'[q] = req[q]
      /\ req'[r].pc \in 0..Done /\ req'[r].begun \in 0..commits
      /\ DOMAIN req' = Requests
  BY <1>1, <1>2 DEF Moves, TypeOK, Done
<1>5. CASE Quiet /\ Found(r)'
  <2>1. TypeOK'
    BY <1>1, <1>2, <1>4, <1>5 DEF TypeOK, Quiet
  <2>2. RowsStay'
    BY <1>1, <1>2, <1>4, <1>5 DEF RowsStay, Found, Quiet, got
  <2> QED BY <1>3, <2>1, <2>2 DEF TypeInv
<1>6. CASE Finishes(r) /\ Commits(r)
  <2>1. commits' \in Nat /\ commits' \in {commits, commits + 1}
    BY <1>2, <1>6 DEF Commits, Harmless, Guarding, TypeOK
  <2>2. outbox' \in Seq(Event)
    BY <1>2, <1>6, EventAdded DEF Commits
  <2>3. \A q \in Requests : req'[q].pc \in 0..Done /\ req'[q].begun \in 0..commits'
    BY <1>2, <1>4, <2>1 DEF TypeOK
  <2>4. TypeOK'
    BY <1>1, <1>2, <1>4, <1>6, <2>1, <2>2, <2>3 DEF TypeOK, Commits
  <2>5. ASSUME NEW q \in Requests PROVE Found(q)'
    <3>1. CASE q = r
      BY <1>1, <1>6, <3>1, Finished
    <3>2. CASE q # r
      <4>1. Found(q) /\ req'[q] = req[q] /\ op' = op /\ validRequest(op[q])
        BY <1>1, <1>2, <1>4, <3>2 DEF RowsStay, RequestsValid
      <4>2. KeepsRows
        BY <1>6 DEF Commits
      <4> QED BY <4>1, <4>2 DEF Found, KeepsRows, validRequest, got
    <3> QED BY <3>1, <3>2
  <2>6. RowsStay'
    BY <1>1, <2>5 DEF RowsStay
  <2> QED BY <1>3, <2>4, <2>6 DEF TypeInv
<1> QED BY <1>1, <1>5, <1>6 DEF Proceeds

LEMMA AdministerLine ==
  ASSUME Inv, NEW r \in Requests, Administer(r)
  PROVE  (SeatsOneGeneration /\ StopsOwned /\ ChecksHold /\ ActiveScheduleIsServed)'
<1>1. Proceeds(r) /\ Moves(r) /\ op' = op /\ \A q \in Requests \ {r} : req'[q] = req[q]
  BY RequestProceeds DEF Proceeds, Moves
<1> Requests' = Requests
  BY <1>1 DEF Requests
<1>2. /\ TypeOK /\ SeatsOneGeneration /\ StopsOwned /\ ChecksHold /\ ActiveScheduleIsServed
      /\ req[r].pc # Done
  BY <1>1 DEF Inv, TypeInv, Moves, Done
<1>3. CASE Quiet /\ Checked(r)'
  <2>1. SeatsOneGeneration' /\ ActiveScheduleIsServed' /\ Guarded' = Guarded
    BY <1>2, <1>3 DEF Quiet, SeatsOneGeneration, ActiveScheduleIsServed, Guarded, getFutureActiveSchedules, ActiveDates
  <2>2. StopsOwned'
    BY <1>1, <1>2, <1>3 DEF Quiet, StopsOwned
  <2>3. ASSUME NEW q \in Requests \ {r} PROVE Checked(q)'
    BY <1>1, <1>2, <1>3, <2>1, <2>3 DEF Quiet, ChecksHold, Checked, got
  <2>4. ChecksHold'
    BY <1>1, <1>3, <2>3 DEF ChecksHold
  <2> QED BY <2>1, <2>2, <2>4
<1>4. CASE Finishes(r) /\ Commits(r)
  <2>1. SeatsOneGeneration'
    BY <1>4 DEF Commits, SeatsOneGeneration
  <2>2. StopsOwned'
    <3>1. KeepsStops(r) /\ req'[r].pc = Done
      BY <1>4 DEF Commits, Finishes
    <3>2. ASSUME NEW q \in Requests, op[q].name = "addStationToRoute", req'[q].pc # Done, NEW s \in db'.stops
          PROVE  s.id # q
      <4>1. q # r /\ req[q].pc # Done
        BY <1>1, <3>1, <3>2
      <4>2. \A t \in db.stops : t.id # q
        BY <1>2, <3>2, <4>1 DEF StopsOwned
      <4> QED BY <3>1, <4>1, <4>2 DEF KeepsStops
    <3> QED BY <1>1, <3>1, <3>2 DEF StopsOwned, KeepsStops
  <2>3. Checked(r)'
    BY <1>1, <1>4, Finished
  <2>4. CASE Harmless
    <3>1. ActiveScheduleIsServed'
      BY <1>2, <2>4 DEF Harmless, Guarded, ActiveScheduleIsServed, getFutureActiveSchedules, ActiveDates
    <3>2. ASSUME NEW q \in Requests \ {r} PROVE Checked(q)'
      <4>1. Checked(q) /\ req'[q] = req[q] /\ op' = op /\ validRequest(op[q])
        BY <1>1, <1>2 DEF ChecksHold, Inv, TypeInv, RequestsValid
      <4>2. Cardinality(db.stops) \in Nat /\ Cardinality(db'.stops) \in Nat
        BY <1>2, <1>4, FS_CardinalityType DEF StopsOwned, StopsSound, Commits, KeepsStops
      <4> QED BY <2>4, <4>1, <4>2 DEF Harmless, Checked, got, validRequest
    <3>3. ChecksHold'
      BY <1>1, <2>3, <3>2 DEF ChecksHold
    <3> QED BY <2>1, <2>2, <3>1, <3>3
  <2>5. CASE Guarding
    <3>1. ASSUME NEW q \in Requests \ {r} PROVE Checked(q)'
      <4>1. req'[q].begun # commits'
        BY <1>1, <1>2, <2>5 DEF Guarding, TypeOK
      <4> QED BY <4>1 DEF Checked
    <3>2. ChecksHold'
      BY <1>1, <2>3, <3>1 DEF ChecksHold
    <3> QED BY <2>1, <2>2, <2>5, <3>2 DEF Guarding
  <2> QED BY <1>4, <2>4, <2>5 DEF Commits
<1> QED BY <1>1, <1>3, <1>4 DEF Proceeds

DoneRequests == {q \in Requests : req[q].pc = Done}

(* Events have ids, as every request made one at most. *)
LEMMA EventIds ==
  ASSUME TypeOK, RequestsValid, EventsCounted
  PROVE  /\ DOMAIN outbox = 1..Len(outbox) /\ Len(outbox) \in Nat /\ 1..Len(outbox) \subseteq Ids
         /\ IsFiniteSet(DoneRequests) /\ Cardinality(DoneRequests) \in Nat
         /\ Cardinality(DoneRequests) <= Cardinality(Requests) /\ Cardinality(Requests) \in Nat
<1>1. DOMAIN outbox = 1..Len(outbox) /\ Len(outbox) \in Nat
  BY DEF TypeOK
<1>2. IsFiniteSet(Requests) /\ 1..Cardinality(Requests) \subseteq Ids
  BY DEF RequestsValid
<1>3. /\ IsFiniteSet(DoneRequests)
      /\ Cardinality(DoneRequests) \in Nat /\ Cardinality(Requests) \in Nat
      /\ Cardinality(DoneRequests) <= Cardinality(Requests)
  <2>1. DoneRequests \subseteq Requests
    BY DEF DoneRequests
  <2> QED BY <1>2, <2>1, FS_Subset, FS_CardinalityType
<1>4. Len(outbox) <= Cardinality(DoneRequests)
  BY DEF EventsCounted, DoneRequests
<1> QED BY <1>1, <1>2, <1>3, <1>4

LEMMA AdministerCounts ==
  ASSUME Inv, NEW r \in Requests, Administer(r)
  PROVE  EventsCounted' /\ (outbox' # outbox => Len(outbox) + 1 \in Ids)
<1>1. /\ Proceeds(r) /\ Moves(r) /\ op' = op /\ \A q \in Requests \ {r} : req'[q] = req[q]
      /\ Requests' = Requests
  BY RequestProceeds DEF Proceeds, Moves, Requests
<1>2. TypeOK /\ RequestsValid /\ EventsCounted /\ req[r].pc # Done
  BY <1>1 DEF Inv, TypeInv, IndexInv, Moves, Done
<1>3. /\ Len(outbox) \in Nat
      /\ IsFiniteSet(DoneRequests) /\ Cardinality(DoneRequests) \in Nat /\ Cardinality(Requests) \in Nat
      /\ Len(outbox) <= Cardinality(DoneRequests)
  BY <1>2, EventIds DEF EventsCounted, DoneRequests
<1>4. r \notin DoneRequests
  BY <1>2 DEF DoneRequests
<1>5. CASE req'[r].pc = Done
  <2>1. DoneRequests' = DoneRequests \cup {r}
    BY <1>1, <1>5 DEF DoneRequests
  <2>2. Cardinality(DoneRequests') = Cardinality(DoneRequests) + 1
    BY <1>3, <1>4, <2>1, FS_AddElement
  <2>3. Cardinality(DoneRequests') <= Cardinality(Requests)
    <3>1. DoneRequests' \subseteq Requests
      BY <1>1 DEF DoneRequests
    <3> QED BY <1>2, <3>1, FS_Subset DEF RequestsValid
  <2>4. Len(outbox') = Len(outbox) \/ Len(outbox') = Len(outbox) + 1
    BY <1>1, <1>2, EventAdded DEF Proceeds, Quiet, Commits
  <2>5. EventsCounted'
    BY <1>3, <2>2, <2>4 DEF EventsCounted, DoneRequests
  <2>6. Len(outbox) + 1 \in 1..Cardinality(Requests)
    BY <1>3, <2>2, <2>3
  <2> QED BY <1>2, <2>5, <2>6 DEF RequestsValid
<1>6. CASE req'[r].pc # Done
  <2>1. DoneRequests' = DoneRequests
    BY <1>1, <1>2, <1>6 DEF DoneRequests
  <2>2. outbox' = outbox
    BY <1>1, <1>6 DEF Proceeds, Quiet, Finishes
  <2> QED BY <1>3, <2>1, <2>2 DEF EventsCounted, DoneRequests
<1> QED BY <1>5, <1>6

LEMMA NewEvent ==
  ASSUME outbox \in Seq(Event), NEW ev \in Event, outbox' = Append(outbox, ev)
  PROVE  LET n == Len(outbox) + 1 IN
         /\ n \in Nat /\ DOMAIN outbox' = 1..n /\ DOMAIN outbox = 1..(n - 1) /\ outbox'[n] = ev
         /\ \A e \in 1..(n - 1) : outbox'[e] = outbox[e]
         /\ \A e \in StationEvents : e \in Nat /\ e < n
         /\ StationEvents' = StationEvents \cup (IF ev.type \in StationTopics THEN {n} ELSE {})
<1> DEFINE n == Len(outbox) + 1
<1>1. /\ n \in Nat /\ DOMAIN outbox' = 1..n /\ DOMAIN outbox = 1..(n - 1) /\ outbox'[n] = ev
      /\ \A e \in 1..(n - 1) : outbox'[e] = outbox[e]
  OBVIOUS
<1> HIDE DEF n
<1>2. 1..n = (1..(n - 1)) \cup {n} /\ n \notin 1..(n - 1)
  BY <1>1
<1>3. StationEvents' = StationEvents \cup (IF ev.type \in StationTopics THEN {n} ELSE {})
  BY <1>1, <1>2 DEF StationEvents, isStationEvent
<1>4. \A e \in StationEvents : e \in Nat /\ e < n
  BY <1>1 DEF StationEvents
<1> QED BY <1>1, <1>3, <1>4 DEF n

(* Events that are not about a station do not count. *)
LEMMA SameEvents ==
  ASSUME outbox \in Seq(Event), outbox' = outbox \/ \E ev \in Event : ev.type \in OtherTopics /\ outbox' = Append(outbox, ev)
  PROVE  /\ StationEvents' = StationEvents /\ \A e \in StationEvents : outbox'[e] = outbox[e]
         /\ DOMAIN outbox \subseteq DOMAIN outbox'
         /\ \A i : About(i)' = About(i) /\ Upserts(i)' = Upserts(i)
<1>1. /\ StationEvents' = StationEvents /\ \A e \in StationEvents : outbox'[e] = outbox[e]
      /\ DOMAIN outbox \subseteq DOMAIN outbox'
  <2>1. CASE outbox' = outbox
    BY <2>1 DEF StationEvents, isStationEvent
  <2>2. ASSUME NEW ev \in Event, ev.type \in OtherTopics, outbox' = Append(outbox, ev)
        PROVE  /\ StationEvents' = StationEvents /\ \A e \in StationEvents : outbox'[e] = outbox[e]
               /\ DOMAIN outbox \subseteq DOMAIN outbox'
    <3>1. ev.type \notin StationTopics
      BY <2>2 DEF OtherTopics, StationTopics
    <3>2. StationEvents \subseteq DOMAIN outbox
      BY DEF StationEvents
    <3>3. /\ DOMAIN outbox \subseteq DOMAIN outbox' /\ \A e \in DOMAIN outbox : outbox'[e] = outbox[e]
          /\ StationEvents' = StationEvents
      <4> DEFINE n == Len(outbox) + 1
      <4>1. /\ n \in Nat /\ DOMAIN outbox' = 1..n /\ DOMAIN outbox = 1..(n - 1)
            /\ \A e \in 1..(n - 1) : outbox'[e] = outbox[e]
            /\ StationEvents' = StationEvents \cup (IF ev.type \in StationTopics THEN {n} ELSE {})
        BY <2>2, NewEvent
      <4> HIDE DEF n
      <4> QED BY <3>1, <4>1
    <3> QED BY <3>2, <3>3
  <2> QED BY <2>1, <2>2
<1>2. ASSUME NEW i PROVE About(i)' = About(i) /\ Upserts(i)' = Upserts(i)
  BY <1>1 DEF About, Upserts
<1> QED BY <1>1, <1>2

LEMMA AdministerIndex ==
  ASSUME Inv, NEW r \in Requests, Administer(r)
  PROVE  IndexInv'
<1>1. Proceeds(r) /\ UNCHANGED <<index, consumer, key, overtaken>>
  BY RequestProceeds
<1>2. TypeOK /\ RequestsValid /\ EventsCounted /\ EventsTellRows /\ KeysHeld /\ IndexFollows
  BY DEF Inv, TypeInv, IndexInv
<1>3. EventsCounted' /\ (outbox' # outbox => Len(outbox) + 1 \in Ids)
  BY AdministerCounts
<1>4. outbox \in Seq(Event) /\ db \in Database
  BY <1>2 DEF TypeOK
<1>5. CASE TellsOthers \/ Quiet
  <2>1. SameStations /\ (outbox' = outbox \/ \E ev \in Event : ev.type \in OtherTopics /\ outbox' = Append(outbox, ev))
    BY <1>5 DEF TellsOthers, Quiet, SameStations
  <2>2. /\ \A e \in StationEvents : outbox'[e] = outbox[e]
        /\ DOMAIN outbox \subseteq DOMAIN outbox'
        /\ \A i : About(i)' = About(i) /\ Upserts(i)' = Upserts(i)
    BY <1>4, <2>1, SameEvents
  <2>3. KeysHeld'
    BY <1>1, <1>2, <2>2 DEF KeysHeld
  <2>4. ASSUME NEW i PROVE About(i) \subseteq StationEvents /\ Upserts(i) \subseteq StationEvents
    BY DEF About, Upserts
  <2>5. EventsTellRows'
    BY <1>2, <2>1, <2>2, <2>4 DEF EventsTellRows, IsLast, SameStations
  <2>6. IndexFollows'
    BY <1>1, <1>2, <2>1, <2>2 DEF IndexFollows, LastSettled, Settled, SameStations
  <2> QED BY <1>3, <2>3, <2>5, <2>6 DEF IndexInv
<1>6. CASE TellsStation
  <2>1. PICK i \in Ids, row \in StationRow, t \in StationTopics :
          /\ db'.station = [db.station EXCEPT ![i] = row]
          /\ outbox' = Append(outbox, [type |-> t, id |-> i, row |-> row])
          /\ t = "STATION_DEACTIVATED" => db.station[i] # none /\ ~row.active /\ SameButActive(row, db.station[i])
    BY <1>6 DEF TellsStation
  <2> DEFINE ev == [type |-> t, id |-> i, row |-> row]
             n == Len(outbox) + 1
  <2>2. ev \in Event /\ ev.type = t /\ ev.id = i /\ ev.row = row
    BY DEF Event
  <2>3. /\ n \in Nat /\ DOMAIN outbox' = 1..n /\ DOMAIN outbox = 1..(n - 1) /\ outbox'[n] = ev
        /\ \A e \in 1..(n - 1) : outbox'[e] = outbox[e]
        /\ \A e \in StationEvents : e \in Nat /\ e < n
        /\ StationEvents' = StationEvents \cup {n}
    BY <1>4, <2>1, <2>2, NewEvent
  <2>4. n \in Ids
    <3>1. outbox' # outbox
      BY <2>3
    <3> QED BY <1>3, <3>1
  <2>5. /\ row # none /\ db'.station[i] = row
        /\ \A j \in Ids \ {i} : db'.station[j] = db.station[j]
    BY <1>4, <2>1, CatalogueAssumption DEF Database
  <2> HIDE DEF ev, n
  <2>6. StationEvents \subseteq 1..(n - 1)
    BY <2>3 DEF StationEvents
  <2>7. /\ About(i)' = About(i) \cup {n}
        /\ Upserts(i)' = Upserts(i) \cup (IF t = "STATION_DEACTIVATED" THEN {} ELSE {n})
        /\ \A j \in Ids \ {i} : About(j)' = About(j) /\ Upserts(j)' = Upserts(j)
    <3>1. ASSUME NEW j PROVE About(j)' = About(j) \cup (IF j = i THEN {n} ELSE {})
      BY <2>2, <2>3, <2>6 DEF About
    <3>2. ASSUME NEW j PROVE About(j) \subseteq 1..(n - 1)
      BY <2>6 DEF About
    <3>3. ASSUME NEW j
          PROVE  Upserts(j)' = Upserts(j) \cup (IF j = i /\ t # "STATION_DEACTIVATED" THEN {n} ELSE {})
      BY <2>2, <2>3, <3>1, <3>2 DEF Upserts
    <3> QED BY <3>1, <3>3
  <2>8. ASSUME NEW j PROVE /\ About(j) \subseteq StationEvents /\ Upserts(j) \subseteq About(j)
    BY DEF About, Upserts
  <2>9. consumer[n] = "new" /\ key[n] = "free"
    BY <1>2, <2>3, <2>4 DEF KeysHeld
  <2>10. KeysHeld'
    BY <1>1, <1>2, <2>3 DEF KeysHeld
  <2>11. EventsTellRows'
    <3>1. ASSUME NEW j \in Ids \ {i}
          PROVE  /\ \A e \in About(j)' : /\ db'.station[j] # none
                                         /\ outbox'[e].type = "STATION_DEACTIVATED" => ~outbox'[e].row.active
                 /\ \A e \in Upserts(j)' : IsLast(e, Upserts(j)') => SameButActive(outbox'[e].row, db'.station[j])
                 /\ \A e \in About(j)' : IsLast(e, About(j)') => outbox'[e].row.active = db'.station[j].active
      <4>1. /\ About(j)' = About(j) /\ Upserts(j)' = Upserts(j) /\ db'.station[j] = db.station[j]
            /\ About(j) \subseteq 1..(n - 1) /\ Upserts(j) \subseteq 1..(n - 1)
        BY <2>5, <2>6, <2>7, <2>8
      <4>2. \A e \in About(j) \cup Upserts(j) : outbox'[e] = outbox[e]
        BY <2>3, <4>1
      <4> QED BY <1>2, <4>1, <4>2 DEF EventsTellRows
    <3>2. \A e \in About(i)' : /\ db'.station[i] # none
                               /\ outbox'[e].type = "STATION_DEACTIVATED" => ~outbox'[e].row.active
      <4>1. \A e \in About(i) : outbox'[e] = outbox[e] /\ (outbox[e].type = "STATION_DEACTIVATED" => ~outbox[e].row.active)
        BY <1>2, <2>3, <2>6, <2>8 DEF EventsTellRows
      <4>2. outbox'[n].type = "STATION_DEACTIVATED" => ~outbox'[n].row.active
        BY <2>1, <2>2, <2>3
      <4> QED BY <2>5, <2>7, <4>1, <4>2
    <3>3. ASSUME NEW e \in Upserts(i)', IsLast(e, Upserts(i)') PROVE SameButActive(outbox'[e].row, db'.station[i])
      <4>1. CASE t = "STATION_DEACTIVATED"
        <5>1. e \in Upserts(i) /\ IsLast(e, Upserts(i)) /\ outbox'[e] = outbox[e]
          BY <2>3, <2>6, <2>7, <2>8, <3>3, <4>1
        <5>2. SameButActive(outbox[e].row, db.station[i]) /\ SameButActive(row, db.station[i])
          BY <1>2, <2>1, <4>1, <5>1 DEF EventsTellRows
        <5> QED BY <2>5, <5>1, <5>2 DEF SameButActive
      <4>2. CASE t # "STATION_DEACTIVATED"
        <5>1. e = n
          <6>1. Upserts(i)' = Upserts(i) \cup {n}
            BY <2>7, <4>2
          <6>2. n <= e /\ (e \in Upserts(i) \/ e = n)
            BY <3>3, <6>1 DEF IsLast
          <6>3. e \in Upserts(i) => e \in Nat /\ e < n
            BY <2>3, <2>8
          <6> QED BY <2>3, <6>2, <6>3
        <5> QED BY <2>2, <2>3, <2>5, <5>1 DEF SameButActive
      <4> QED BY <4>1, <4>2
    <3>4. ASSUME NEW e \in About(i)', IsLast(e, About(i)') PROVE outbox'[e].row.active = db'.station[i].active
      <4>1. e = n
        <5>1. e \in About(i) \/ e = n
          BY <2>7, <3>4
        <5>2. n <= e
          BY <2>7, <3>4 DEF IsLast
        <5>3. e \in About(i) => e \in Nat /\ e < n
          BY <2>3, <2>8
        <5> QED BY <2>3, <5>1, <5>2, <5>3
      <4> QED BY <2>2, <2>3, <2>5, <4>1
    <3> QED BY <3>1, <3>2, <3>3, <3>4 DEF EventsTellRows
  <2>12. IndexFollows'
    <3>1. ASSUME NEW j \in Ids \ overtaken
          PROVE  /\ LastSettled(Upserts(j))' =>
                      /\ (index[j] = none) = (db'.station[j] = none)
                      /\ index[j] # none => SameButActive(index[j], db'.station[j])
                 /\ LastSettled(About(j))' /\ index[j] # none => index[j].active = db'.station[j].active
      <4>1. CASE j # i
        BY <1>1, <1>2, <2>5, <2>7, <3>1, <4>1 DEF IndexFollows, LastSettled, Settled
      <4>2. CASE j = i
        <5>1. \A e \in About(i)' : e \in Nat /\ e <= n
          BY <2>3, <2>7, <2>8
        <5>2. ~LastSettled(About(i))'
          BY <1>1, <2>7, <2>9, <5>1 DEF LastSettled, Settled, IsLast
        <5>3. CASE t # "STATION_DEACTIVATED"
          <6>1. ~LastSettled(Upserts(i))'
            BY <1>1, <2>3, <2>7, <2>8, <2>9, <5>3 DEF LastSettled, Settled, IsLast
          <6> QED BY <4>2, <5>2, <6>1
        <5>4. CASE t = "STATION_DEACTIVATED"
          <6>1. LastSettled(Upserts(i))' = LastSettled(Upserts(i))
            BY <1>1, <2>7, <5>4 DEF LastSettled, Settled
          <6> QED BY <1>2, <2>1, <2>5, <3>1, <4>2, <5>2, <5>4, <6>1 DEF IndexFollows, SameButActive
        <5> QED BY <5>3, <5>4
      <4> QED BY <4>1, <4>2
    <3> QED BY <1>1, <3>1 DEF IndexFollows
  <2> QED BY <1>3, <2>10, <2>11, <2>12 DEF IndexInv
<1> QED BY <1>1, <1>5, <1>6 DEF Proceeds, Commits
-----------------------------------------------------------------------------
(* The invariant, when the search service handles an event.                *)

(* A set of events that is not empty has a last one. *)
LEMMA LastOf ==
  ASSUME NEW n \in Nat, NEW S \in SUBSET (1..n), S # {}
  PROVE  \E e \in S : IsLast(e, S)
<1> DEFINE R == OpToRel(<, Nat)
           T == {n - e : e \in S}
<1>1. IsWellFoundedOn(R, Nat)
  BY NatLessThanWellFounded
<1>2. \A x, y \in Nat : <<x, y>> \in R <=> x < y
  BY DEF OpToRel
<1>3. T \subseteq Nat /\ T # {}
  <2>1. \A e \in S : n - e \in Nat
    OBVIOUS
  <2>2. PICK e \in S : n - e \in T
    OBVIOUS
  <2> QED BY <2>1, <2>2
<1> HIDE DEF R
<1>4. PICK x \in T : \A y \in T : ~(<<y, x>> \in R)
  BY <1>1, <1>3, WFMin
<1>5. PICK e \in S : x = n - e
  OBVIOUS
<1>6. ASSUME NEW f \in S PROVE f <= e
  <2>1. n - f \in T /\ ~(n - f < x)
    BY <1>2, <1>3, <1>4
  <2> QED BY <1>5, <2>1
<1> QED BY <1>6 DEF IsLast

LEMMA AdminUnchanged ==
  ASSUME Inv, UNCHANGED adminVars
  PROVE  /\ RequestsValid' /\ RowsStay'
         /\ (SeatsOneGeneration /\ StopsOwned /\ ChecksHold /\ ActiveScheduleIsServed)'
         /\ EventsCounted' /\ EventsTellRows'
         /\ \A i : About(i)' = About(i) /\ Upserts(i)' = Upserts(i)
<1>1. /\ db' = db /\ outbox' = outbox /\ op' = op /\ req' = req /\ commits' = commits /\ excused' = excused
      /\ Requests' = Requests
  BY DEF adminVars, Requests
<1>2. RequestsValid' /\ RowsStay'
  BY <1>1 DEF Inv, TypeInv, RequestsValid, RowsStay, Found, got
<1>3. StationEvents' = StationEvents /\ Guarded' = Guarded /\ getFutureActiveSchedules' = getFutureActiveSchedules
  BY <1>1 DEF StationEvents, isStationEvent, Guarded, getFutureActiveSchedules, ActiveDates
<1>4. (SeatsOneGeneration /\ StopsOwned /\ ActiveScheduleIsServed)'
  BY <1>1, <1>3 DEF Inv, SeatsOneGeneration, StopsOwned, ActiveScheduleIsServed
<1>5. ChecksHold'
  BY <1>1, <1>3 DEF Inv, ChecksHold, Checked, got
<1>6. ASSUME NEW i PROVE About(i)' = About(i) /\ Upserts(i)' = Upserts(i)
  BY <1>1, <1>3 DEF About, Upserts
<1>7. EventsCounted' /\ EventsTellRows'
  BY <1>1, <1>6 DEF Inv, IndexInv, EventsCounted, EventsTellRows
<1> QED BY <1>2, <1>4, <1>5, <1>6, <1>7

LEMMA EventOf ==
  ASSUME Inv, NEW e \in StationEvents
  PROVE  /\ e \in Ids /\ e \in 1..Len(outbox) /\ Len(outbox) \in Nat
         /\ outbox[e].type \in StationTopics /\ outbox[e].id \in Ids /\ outbox[e].row \in StationRow
<1>1. TypeOK /\ RequestsValid /\ EventsCounted
  BY DEF Inv, TypeInv, IndexInv
<1>2. e \in Ids /\ e \in 1..Len(outbox) /\ Len(outbox) \in Nat
  BY <1>1, EventIds DEF StationEvents
<1>3. outbox[e] \in Event /\ outbox[e].type \in StationTopics
  BY <1>1, <1>2 DEF TypeOK, StationEvents, isStationEvent
<1> QED BY <1>2, <1>3 DEF Event, OtherTopics, StationTopics

(* As long as nothing new is settled, the index has nothing to follow. *)
LEMMA NothingSettled ==
  ASSUME Inv, UNCHANGED <<adminVars, index, overtaken>>,
         \A f \in StationEvents : Settled(f)' => Settled(f)
  PROVE  IndexFollows'
<1>1. db' = db /\ index' = index /\ overtaken' = overtaken /\ \A i : About(i)' = About(i) /\ Upserts(i)' = Upserts(i)
  BY AdminUnchanged DEF adminVars
<1>2. ASSUME NEW i PROVE About(i) \subseteq StationEvents /\ Upserts(i) \subseteq StationEvents
  BY DEF About, Upserts
<1>3. ASSUME NEW i \in Ids \ overtaken
      PROVE  /\ LastSettled(Upserts(i))' =>
                  /\ (index[i] = none) = (db.station[i] = none)
                  /\ index[i] # none => SameButActive(index[i], db.station[i])
             /\ LastSettled(About(i))' /\ index[i] # none => index[i].active = db.station[i].active
  <2>1. LastSettled(About(i))' => LastSettled(About(i))
    BY <1>1, <1>2 DEF LastSettled
  <2>2. LastSettled(Upserts(i))' => LastSettled(Upserts(i))
    BY <1>1, <1>2 DEF LastSettled
  <2> QED BY <2>1, <2>2 DEF Inv, IndexInv, IndexFollows
<1> QED BY <1>1, <1>3 DEF IndexFollows

(* Writing a document: the index then tells what the last event told, or   *)
(* a later one has been overtaken.                                         *)
LEMMA ApplyFollows ==
  ASSUME Inv, UNCHANGED <<adminVars, suggestVars>>, NEW e \in StationEvents, NEW document \in StationRow \cup {none},
         Apply(e, document),
         LET i == outbox[e].id IN
         \/ outbox[e].type # "STATION_DEACTIVATED" /\ document = outbox[e].row
         \/ outbox[e].type = "STATION_DEACTIVATED" /\ document = updateActiveStatus(i, FALSE)
  PROVE  TypeOK' /\ KeysHeld' /\ IndexFollows'
<1> DEFINE i == outbox[e].id
<1>1. /\ TypeOK /\ KeysHeld /\ IndexFollows /\ EventsTellRows
      /\ e \in Ids /\ e \in 1..Len(outbox) /\ Len(outbox) \in Nat /\ i \in Ids /\ outbox[e].row \in StationRow
  BY EventOf DEF Inv, TypeInv, IndexInv
<1>2. /\ db' = db /\ outbox' = outbox /\ req' = req /\ op' = op /\ commits' = commits /\ excused' = excused
      /\ \A j : About(j)' = About(j) /\ Upserts(j)' = Upserts(j)
  BY AdminUnchanged DEF adminVars
<1>3. /\ consumer[e] = "apply" /\ consumer' = [consumer EXCEPT ![e] = "mark"]
      /\ key' = key /\ faults' = faults /\ key[e] = "PROCESSING"
      /\ index' = [index EXCEPT ![i] = document]
      /\ overtaken' = IF \E f \in Applied : f > e /\ outbox[f].id = i THEN overtaken \cup {i} ELSE overtaken
  BY <1>1 DEF Apply, KeysHeld
<1>4. consumer'[e] = "mark" /\ \A f \in Ids \ {e} : consumer'[f] = consumer[f]
  BY <1>1, <1>3 DEF TypeOK
<1>5. index'[i] = document /\ \A j \in Ids \ {i} : index'[j] = index[j]
  BY <1>1, <1>3 DEF TypeOK
<1>6. KeysHeld'
  BY <1>1, <1>2, <1>3, <1>4 DEF KeysHeld
<1>7. ASSUME NEW j PROVE /\ About(j) \subseteq StationEvents /\ StationEvents \subseteq Ids
                        /\ Upserts(j) \subseteq About(j) /\ About(j) \subseteq 1..Len(outbox)
  BY EventOf DEF About, Upserts
(* Any other event of the station that is settled is an earlier one. *)
<1>8. ASSUME i \notin overtaken', NEW f \in About(i), Settled(f)', f # e PROVE f < e
  <2>1. f \in Ids /\ f \in StationEvents /\ outbox[f].id = i /\ f \in Nat
    <3>1. f \in StationEvents /\ outbox[f].id = i
      BY <1>8 DEF About
    <3>2. f \in Ids /\ f \in 1..Len(outbox)
      BY <1>7, <1>8, <3>1
    <3> QED BY <1>1, <3>1, <3>2
  <2>2. Settled(f)
    BY <1>3, <1>4, <1>8, <2>1 DEF Settled
  <2>3. f \in Applied
    BY <1>1, <2>1, <2>2 DEF Settled, Applied, KeysHeld
  <2>4. ~(f > e)
    BY <1>3, <1>8, <2>1, <2>3
  <2> QED BY <1>1, <1>8, <2>1, <2>4
<1>9. ASSUME i \notin overtaken', e \in About(i), LastSettled(About(i))' PROVE IsLast(e, About(i))
  <2>1. PICK f \in About(i) : IsLast(f, About(i))
    BY <1>1, <1>7, <1>9, LastOf
  <2>2. Settled(f)' /\ e <= f /\ f \in Nat
    BY <1>2, <1>7, <1>9, <2>1 DEF LastSettled, IsLast
  <2>3. f = e
    BY <1>1, <1>8, <1>9, <2>1, <2>2
  <2> QED BY <2>1, <2>3
<1>10. ASSUME i \notin overtaken', e \in Upserts(i), LastSettled(Upserts(i))' PROVE IsLast(e, Upserts(i))
  <2>1. PICK f \in Upserts(i) : IsLast(f, Upserts(i))
    BY <1>1, <1>7, <1>10, LastOf
  <2>2. Settled(f)' /\ e <= f /\ f \in Nat /\ f \in About(i)
    BY <1>2, <1>7, <1>10, <2>1 DEF LastSettled, IsLast
  <2>3. f = e
    BY <1>1, <1>8, <1>10, <2>1, <2>2
  <2> QED BY <2>1, <2>3
<1>11. e \in About(i) /\ (e \in Upserts(i) <=> outbox[e].type # "STATION_DEACTIVATED")
  BY DEF About, Upserts
<1>12. overtaken \subseteq overtaken' /\ overtaken' \subseteq Ids
  BY <1>1, <1>3 DEF TypeOK
<1>13. ASSUME NEW j \in Ids \ overtaken'
       PROVE  /\ LastSettled(Upserts(j))' =>
                   /\ (index'[j] = none) = (db.station[j] = none)
                   /\ index'[j] # none => SameButActive(index'[j], db.station[j])
              /\ LastSettled(About(j))' /\ index'[j] # none => index'[j].active = db.station[j].active
  <2>1. j \in Ids \ overtaken
    BY <1>12, <1>13
  <2>2. CASE j # i
    <3>1. \A f \in About(j) : f # e /\ f \in Ids
      BY <1>7, <2>2 DEF About
    <3>2. \A f \in About(j) : Settled(f)' => Settled(f)
      BY <1>3, <1>4, <3>1 DEF Settled
    <3>3. LastSettled(About(j))' => LastSettled(About(j))
      BY <1>2, <3>2 DEF LastSettled
    <3>4. LastSettled(Upserts(j))' => LastSettled(Upserts(j))
      BY <1>2, <1>7, <3>2 DEF LastSettled
    <3> QED BY <1>1, <1>5, <2>1, <2>2, <3>3, <3>4 DEF IndexFollows
  <2>3. CASE j = i /\ outbox[e].type # "STATION_DEACTIVATED" /\ document = outbox[e].row
    <3>1. document # none /\ db.station[i] # none
      BY <1>1, <1>11, <2>3, CatalogueAssumption DEF EventsTellRows
    <3>2. LastSettled(Upserts(i))' => SameButActive(document, db.station[i])
      BY <1>1, <1>10, <1>11, <1>13, <2>3 DEF EventsTellRows
    <3>3. LastSettled(About(i))' => document.active = db.station[i].active
      BY <1>1, <1>9, <1>11, <1>13, <2>3 DEF EventsTellRows
    <3>4. LastSettled(Upserts(j))' = LastSettled(Upserts(i))' /\ LastSettled(About(j))' = LastSettled(About(i))'
      BY <1>2, <2>3 DEF LastSettled
    <3> QED BY <1>5, <2>3, <3>1, <3>2, <3>3, <3>4
  <2>4. CASE j = i /\ outbox[e].type = "STATION_DEACTIVATED" /\ document = updateActiveStatus(i, FALSE)
    <3>1. \A f \in Upserts(i) : Settled(f)' => Settled(f)
      BY <1>3, <1>4, <1>7, <1>11, <2>4 DEF Settled
    <3>2. LastSettled(Upserts(i))' => LastSettled(Upserts(i))
      BY <1>2, <3>1 DEF LastSettled
    <3>3. /\ (document = none) = (index[i] = none)
          /\ index[i] # none => SameButActive(document, index[i]) /\ document.active = FALSE
      <4>1. index[i] \in StationRow \cup {none}
        BY <1>1 DEF TypeOK
      <4>2. CASE index[i] = none
        BY <2>4, <4>2 DEF updateActiveStatus
      <4>3. CASE index[i] # none
        <5>1. index[i] \in StationRow /\ document = [index[i] EXCEPT !.active = FALSE]
          BY <2>4, <4>1, <4>3 DEF updateActiveStatus
        <5>2. document \in StationRow /\ SameButActive(document, index[i]) /\ document.active = FALSE
          BY <5>1 DEF StationRow, SameButActive
        <5> QED BY <4>3, <5>2, CatalogueAssumption
      <4> QED BY <4>2, <4>3
    <3>4. LastSettled(Upserts(i))' =>
            /\ (document = none) = (db.station[i] = none)
            /\ document # none => SameButActive(document, db.station[i])
      BY <1>1, <2>1, <2>4, <3>2, <3>3 DEF IndexFollows, SameButActive
    <3>5. LastSettled(About(i))' => db.station[i].active = FALSE
      <4>1. outbox[e].row.active = FALSE
        BY <1>1, <1>11, <2>4 DEF EventsTellRows, StationRow
      <4> QED BY <1>1, <1>9, <1>11, <1>13, <2>4, <4>1 DEF EventsTellRows
    <3>6. LastSettled(Upserts(j))' = LastSettled(Upserts(i))' /\ LastSettled(About(j))' = LastSettled(About(i))'
      BY <1>2, <2>4 DEF LastSettled
    <3> QED BY <1>5, <2>4, <3>3, <3>4, <3>5, <3>6
  <2> QED BY <2>2, <2>3, <2>4
<1>14. IndexFollows'
  BY <1>2, <1>13 DEF IndexFollows
<1>15. TypeOK'
  <2>1. index' \in [Ids -> StationRow \cup {none}]
    BY <1>1, <1>3 DEF TypeOK
  <2>2. consumer' \in [Ids -> {"new", "apply", "mark", "release", "acked"}]
    BY <1>1, <1>3 DEF TypeOK
  <2>3. fresh' = fresh /\ suggestions' = suggestions
    BY DEF suggestVars
  <2> QED BY <1>1, <1>2, <1>3, <1>12, <2>1, <2>2, <2>3 DEF TypeOK, Requests
<1> QED BY <1>6, <1>14, <1>15

(* The steps around it settle nothing new. *)
LEMMA HandlingFollows ==
  ASSUME Inv, UNCHANGED <<adminVars, suggestVars>>, NEW e \in StationEvents,
         dispatch(e) \/ markProcessed(e) \/ release(e) \/ dispatchFails(e) \/ leaseEnds(e)
  PROVE  TypeOK' /\ KeysHeld' /\ IndexFollows'
<1>1. TypeOK /\ KeysHeld /\ e \in Ids /\ StationEvents \subseteq Ids
  BY EventOf DEF Inv, TypeInv, IndexInv
<1>2. /\ db' = db /\ outbox' = outbox /\ req' = req /\ op' = op /\ commits' = commits /\ excused' = excused
      /\ fresh' = fresh /\ suggestions' = suggestions
  BY DEF adminVars, suggestVars
<1>3. /\ index' = index /\ overtaken' = overtaken /\ faults' \in 0..MaxFaults
      /\ \A f \in Ids \ {e} : consumer'[f] = consumer[f] /\ key'[f] = key[f]
      /\ consumer' \in [Ids -> {"new", "apply", "mark", "release", "acked"}]
      /\ key' \in [Ids -> {"free", "PROCESSING", "PROCESSED"}]
  <2>1. CASE dispatch(e)
    BY <1>1, <2>1 DEF dispatch, TypeOK
  <2>2. CASE markProcessed(e)
    BY <1>1, <2>2 DEF markProcessed, TypeOK
  <2> MaxFaults \in Nat
    BY CatalogueAssumption
  <2>3. CASE release(e)
    <3>1. faults' \in 0..MaxFaults
      BY <1>1, <2>3 DEF release, Fault, TypeOK
    <3>2. key' = key \/ key' = [key EXCEPT ![e] = "free"]
      BY <2>3 DEF release
    <3> QED BY <1>1, <2>3, <3>1, <3>2 DEF release, TypeOK
  <2>4. CASE dispatchFails(e)
    BY <1>1, <2>4 DEF dispatchFails, Fault, TypeOK
  <2>5. CASE leaseEnds(e)
    BY <1>1, <2>5 DEF leaseEnds, TypeOK
  <2> QED BY <2>1, <2>2, <2>3, <2>4, <2>5
<1>4. /\ consumer'[e] \in {"apply", "mark", "release"} => key'[e] = "PROCESSING"
      /\ key'[e] = "PROCESSED" => consumer'[e] = "acked"
      /\ Settled(e)' => Settled(e)
  <2>1. CASE dispatch(e)
    BY <1>1, <2>1 DEF dispatch, TypeOK, KeysHeld, Settled
  <2>2. CASE markProcessed(e)
    BY <1>1, <2>2 DEF markProcessed, TypeOK, KeysHeld, Settled
  <2>3. CASE release(e)
    BY <1>1, <2>3 DEF release, TypeOK, KeysHeld, Settled
  <2>4. CASE dispatchFails(e)
    BY <1>1, <2>4 DEF dispatchFails, TypeOK, KeysHeld, Settled
  <2>5. CASE leaseEnds(e)
    BY <1>1, <2>5 DEF leaseEnds, TypeOK, KeysHeld, Settled
  <2> QED BY <2>1, <2>2, <2>3, <2>4, <2>5
<1>5. TypeOK'
  BY <1>1, <1>2, <1>3 DEF TypeOK, Requests
<1>6. e \in DOMAIN outbox
  BY DEF StationEvents
<1>7. KeysHeld'
  BY <1>1, <1>2, <1>3, <1>4, <1>6 DEF KeysHeld
<1>8. \A f \in StationEvents : Settled(f)' => Settled(f)
  BY <1>1, <1>3, <1>4 DEF Settled
<1>9. IndexFollows'
  BY <1>3, <1>8, NothingSettled
<1> QED BY <1>5, <1>7, <1>9

LEMMA ProjectKeepsInv ==
  ASSUME Inv, NEW e \in StationEvents, Project(e) \/ Trouble(e)
  PROVE  Inv'
<1>1. /\ UNCHANGED <<adminVars, suggestVars>> /\ UNCHANGED adminVars
      /\ \/ dispatch(e) \/ applyUpsert(e) \/ applyDeactivated(e) \/ markProcessed(e) \/ release(e)
         \/ dispatchFails(e) \/ leaseEnds(e)
  BY DEF Project, Trouble, stationConsumer
<1>2. /\ RequestsValid' /\ RowsStay'
      /\ (SeatsOneGeneration /\ StopsOwned /\ ChecksHold /\ ActiveScheduleIsServed)'
      /\ EventsCounted' /\ EventsTellRows'
  BY <1>1, AdminUnchanged
<1>3. TypeOK' /\ KeysHeld' /\ IndexFollows'
  <2>1. CASE applyUpsert(e)
    <3>1. outbox[e].type # "STATION_DEACTIVATED" /\ outbox[e].row \in StationRow /\ Apply(e, outbox[e].row)
      BY <2>1, EventOf DEF applyUpsert, toDocument
    <3> QED BY <1>1, <3>1, ApplyFollows
  <2>2. CASE applyDeactivated(e)
    <3> DEFINE document == updateActiveStatus(outbox[e].id, FALSE)
    <3>1. outbox[e].type = "STATION_DEACTIVATED" /\ Apply(e, document) /\ outbox[e].id \in Ids
      BY <2>2, EventOf DEF applyDeactivated
    <3>2. document \in StationRow \cup {none}
      BY <3>1 DEF Inv, TypeInv, TypeOK, updateActiveStatus, StationRow
    <3> HIDE DEF document
    <3> QED BY <1>1, <3>1, <3>2, ApplyFollows DEF document
  <2>3. CASE dispatch(e) \/ markProcessed(e) \/ release(e) \/ dispatchFails(e) \/ leaseEnds(e)
    BY <1>1, <2>3, HandlingFollows
  <2> QED BY <1>1, <2>1, <2>2, <2>3
<1> QED BY <1>2, <1>3 DEF Inv, TypeInv, IndexInv

(* Suggestions are only read from the index. *)
LEMMA SuggestKeepsInv ==
  ASSUME Inv, UNCHANGED <<adminVars, searchVars>>,
         fresh' \in (SUBSET Ids) \cup {none}, suggestions' \in (SUBSET Ids) \cup {none}
  PROVE  Inv'
<1>1. UNCHANGED <<adminVars, index, overtaken>> /\ UNCHANGED adminVars /\ key' = key /\ consumer' = consumer
      /\ outbox' = outbox
  BY DEF searchVars, adminVars
<1>2. /\ RequestsValid' /\ RowsStay'
      /\ (SeatsOneGeneration /\ StopsOwned /\ ChecksHold /\ ActiveScheduleIsServed)'
      /\ EventsCounted' /\ EventsTellRows'
  BY <1>1, AdminUnchanged
<1>3. TypeOK'
  BY DEF Inv, TypeInv, TypeOK, adminVars, searchVars, Requests
<1>4. KeysHeld'
  BY <1>1 DEF Inv, IndexInv, KeysHeld
<1>5. \A f \in StationEvents : Settled(f)' => Settled(f)
  BY <1>1 DEF Settled
<1>6. IndexFollows'
  BY <1>1, <1>5, NothingSettled
<1> QED BY <1>2, <1>3, <1>4, <1>6 DEF Inv, TypeInv, IndexInv
-----------------------------------------------------------------------------
LEMMA InitInv ==
  ASSUME Init
  PROVE  Inv
<1>1. PICK s \in Scenarios : db = s.db /\ op = s.ops
  BY DEF Init
<1>2. /\ outbox = <<>> /\ commits = 0 /\ excused = {d \in ActiveDates(db) : ~servedOn(db, d)}
      /\ req = [r \in Requests |-> [pc |-> 0, got |-> none, begun |-> 0, reply |-> none]]
      /\ index = [i \in Ids |-> db.station[i]]
      /\ consumer = [e \in Ids |-> "new"] /\ key = [e \in Ids |-> "free"]
      /\ overtaken = {} /\ faults = 0 /\ suggestions = none /\ fresh = none
  BY DEF Init, Requests
<1>3. /\ db \in Database /\ OneGeneration(db) /\ StopsSound(db)
      /\ IsFiniteSet(Requests) /\ 1..Cardinality(Requests) \subseteq Ids
      /\ \A r \in Requests : r \in Ids /\ IdIsNew(db, r) /\ validRequest(op[r])
      /\ MaxFaults \in Nat
  BY <1>1, CatalogueAssumption DEF Requests
<1>4. \A r \in Requests : req[r].pc = 0 /\ req[r].begun = 0
  BY <1>2
<1>5. RequestsValid
  BY <1>2, <1>3 DEF RequestsValid
<1>6. TypeOK
  <2>1. outbox \in Seq(Event) /\ excused \subseteq Dates /\ DOMAIN req = Requests
    BY <1>2 DEF ActiveDates
  <2>2. index \in [Ids -> StationRow \cup {none}]
    BY <1>2, <1>3 DEF Database
  <2> QED BY <1>2, <1>3, <1>4, <2>1, <2>2 DEF TypeOK, Done
<1>7. RowsStay
  BY <1>4 DEF RowsStay, Found
<1>8. SeatsOneGeneration /\ StopsOwned
  BY <1>3 DEF SeatsOneGeneration, StopsOwned, IdIsNew
<1>9. ChecksHold
  BY <1>4 DEF ChecksHold, Checked
<1>10. ActiveScheduleIsServed
  BY <1>2 DEF ActiveScheduleIsServed, getFutureActiveSchedules
<1>11. EventsCounted
  <2>1. DoneRequests = {}
    BY <1>4 DEF DoneRequests, Done
  <2>2. Cardinality(DoneRequests) = 0 /\ Len(outbox) = 0
    BY <1>2, <2>1, FS_EmptySet
  <2> QED BY <2>2 DEF EventsCounted, DoneRequests
<1>12. StationEvents = {}
  BY <1>2 DEF StationEvents
<1>13. EventsTellRows /\ KeysHeld
  BY <1>2, <1>12 DEF EventsTellRows, KeysHeld, About, Upserts
<1>14. IndexFollows
  BY <1>2 DEF IndexFollows, SameButActive
<1> QED BY <1>5, <1>6, <1>7, <1>8, <1>9, <1>10, <1>11, <1>13, <1>14 DEF Inv, TypeInv, IndexInv

LEMMA NextInv ==
  ASSUME Inv, [Next]_vars
  PROVE  Inv'
<1>1. CASE UNCHANGED vars
  BY <1>1, SuggestKeepsInv DEF vars, suggestVars, Inv, TypeInv, TypeOK
<1>2. ASSUME NEW r \in Requests, Administer(r) PROVE Inv'
  BY <1>2, AdministerTypes, AdministerLine, AdministerIndex DEF Inv
<1>3. ASSUME NEW e \in StationEvents, Project(e) \/ Trouble(e) PROVE Inv'
  BY <1>3, ProjectKeepsInv
<1>4. CASE (suggestStations /\ UNCHANGED <<adminVars, searchVars>>) \/ Cache \/ Expire
  <2>1. UNCHANGED <<adminVars, searchVars>>
    BY <1>4 DEF Cache, Expire
  <2>2. fresh \in (SUBSET Ids) \cup {none} /\ suggestions \in (SUBSET Ids) \cup {none}
    BY DEF Inv, TypeInv, TypeOK
  <2>3. suggest \in SUBSET Ids
    BY DEF suggest
  <2>4. fresh' \in (SUBSET Ids) \cup {none} /\ suggestions' \in (SUBSET Ids) \cup {none}
    BY <1>4, <2>2, <2>3 DEF suggestStations, Cache, tryWriteCache, Expire, suggestionsExpire
  <2> QED BY <2>1, <2>4, SuggestKeepsInv
<1> QED BY <1>1, <1>2, <1>3, <1>4 DEF Next

LEMMA InvHolds == Spec => []Inv
<1>1. Init => Inv
  BY InitInv
<1>2. Inv /\ [Next]_vars => Inv'
  BY NextInv
<1> QED BY <1>1, <1>2, PTL DEF Spec

(* The database keeps its schema, events are built from rows that are      *)
(* there, and no row a transaction has found is removed under it (the      *)
(* repositories of admin-service and the events its services record).      *)
THEOREM CatalogueTypes == Spec => []TypeOK
BY InvHolds, PTL DEF Inv, TypeInv

(* The seats of a coach are of one bulkCreateSeats, whatever resets and    *)
(* changes of the coach overlap (seat.service.ts bulkCreateSeats,          *)
(* resetSeats).                                                            *)
THEOREM SeatsOfOneGeneration == Spec => []SeatsOneGeneration
BY InvHolds, PTL DEF Inv

(* Schedules that are ACTIVE for a later day are served, unless guarding   *)
(* transactions overlapped or the status was set by hand                   *)
(* (schedule.service.ts, route.service.ts, train.service.ts).              *)
THEOREM SchedulesAreServed == Spec => []ActiveScheduleIsServed
BY InvHolds, PTL DEF Inv

(* The index shows the stations once their events are processed in order,  *)
(* whichever writes failed on the way (station-projection.service.ts).     *)
THEOREM IndexShowsStations == Spec => []IndexIsCurrent
<1>1. Inv => IndexIsCurrent
  <2> SUFFICES ASSUME Inv, AllProcessed, NEW i \in Ids \ overtaken PROVE index[i] = db.station[i]
    BY DEF IndexIsCurrent
  <2>1. TypeOK /\ IndexFollows /\ index[i] \in StationRow \cup {none} /\ db.station[i] \in StationRow \cup {none}
    BY DEF Inv, TypeInv, TypeOK, IndexInv, Database
  <2>2. LastSettled(About(i)) /\ LastSettled(Upserts(i))
    BY DEF AllProcessed, LastSettled, Settled, About, Upserts
  <2>3. /\ (index[i] = none) = (db.station[i] = none)
        /\ index[i] # none => /\ SameButActive(index[i], db.station[i])
                             /\ index[i].active = db.station[i].active
    BY <2>1, <2>2 DEF IndexFollows
  <2> QED BY <2>1, <2>3 DEF SameButActive, StationRow
<1> QED BY <1>1, InvHolds, PTL
=============================================================================
