---------------------------- MODULE SearchQueries ----------------------------
(***************************************************************************)
(* The passengers' queries about the schedule, on top of its projections:  *)
(* the train search, which asks the Elasticsearch document, and the seat   *)
(* map, which checks that document and then asks the inventory's row over  *)
(* gRPC. Both go through a Redis cache of their own (apps/search service/  *)
(* src/services/train-search.service.ts, seat-map.service.ts).             *)
(*                                                                         *)
(* Entries of different keys never meet, and queries of one key ask the    *)
(* same (SearchRequest), so a behaviour follows the queries of one key:    *)
(* those of one train search or of one seat map.                           *)
(***************************************************************************)
EXTENDS ScheduleProjection, SearchDocument, SearchRequest, GrpcErrors

CONSTANT Readers    \* executions of the query under way at once

VARIABLES
  kind,     \* which query is followed, "train" or "seatMap"
  cache,    \* the Redis entry under its key, None when there is none
  at,       \* at[r]: where execution r stands
  answer    \* answer[r]: the answer it is about to cache

queryVars == <<kind, cache, at, answer>>
allVars == <<vars, queryVars>>

Answers == {"listed", "empty", "OK"}

QueryTypeOK ==
  /\ kind \in {"train", "seatMap"}
  /\ cache \in Answers \cup {None}
  /\ at \in [Readers -> {"idle", "callInventory", "write"}]
  /\ answer \in [Readers -> Answers \cup {None}]

QueryInit ==
  /\ Init
  /\ kind \in {"train", "seatMap"}
  /\ cache = None
  /\ at = [r \in Readers |-> "idle"]
  /\ answer = [r \in Readers |-> None]

moves(r, step, a) ==
  /\ at' = [at EXCEPT ![r] = step]
  /\ answer' = [answer EXCEPT ![r] = a]
  /\ UNCHANGED <<vars, kind>>

-----------------------------------------------------------------------------
(* A hit returns the entry and changes nothing; what follows is the way of *)
(* a miss, of a Redis error, which counts as a miss, and of a seat map     *)
(* asked for with no-cache. Stations that cannot be resolved end a train   *)
(* search before it reads anything else.                                   *)
tryReadCache == {cache, None}
noCache == kind = "seatMap"
goesOn == None \in tryReadCache \/ noCache

(* The repository's query keeps the documents with status ACTIVE; the      *)
(* schedule serves the journey asked for.                                  *)
listing == IF doc.status = "ACTIVE" THEN "listed" ELSE "empty"

searchTrains(r) ==
  /\ kind = "train" /\ at[r] = "idle" /\ goesOn
  /\ moves(r, "write", listing)
  /\ UNCHANGED cache

(* The document is only asked for a quick 404, which ends the query with   *)
(* no effect; and as an Elasticsearch error counts as a find, the query    *)
(* may go on whatever the document says.                                   *)
findScheduleById == doc.version # 0
precheckSchedule == {"found"} \cup (IF findScheduleById THEN {} ELSE {"notFound"})

getSeatMap(r) ==
  /\ kind = "seatMap" /\ at[r] = "idle" /\ goesOn
  /\ "found" \in precheckSchedule
  /\ moves(r, "callInventory", None)
  /\ UNCHANGED cache

(* The row's status as the gRPC handler reads it.                          *)
seatMapStatus ==
  CASE inventory.version = 0 -> "SCHEDULE_NOT_FOUND"
    [] inventory.version # 0 /\ inventory.status # "ACTIVE" -> "SCHEDULE_INACTIVE"
    [] OTHER -> "OK"

(* Only an OK gets as far as the cache; the other statuses are thrown.     *)
callInventoryGetSeatMap(r) ==
  /\ at[r] = "callInventory"
  /\ IF seatMapStatus = "OK" THEN moves(r, "write", "OK") ELSE moves(r, "idle", None)
  /\ UNCHANGED cache

(* The call fails: the caller gets what mapGrpcClientErrorToApiError makes *)
(* of it (GrpcErrors), and nothing is cached.                              *)
inventoryFails(r) ==
  /\ at[r] = "callInventory"
  /\ moves(r, "idle", None)
  /\ UNCHANGED cache

(* Best effort: the entry is set, or Redis throws and it is not.           *)
tryWriteCache(r) ==
  /\ at[r] = "write"
  /\ cache' \in {answer[r], cache}
  /\ moves(r, "idle", None)

(* Mutant: SET without EX. *)
cacheExpiresNever == FALSE

(* SET ... EX: Redis drops the entry when its time is up.                  *)
cacheExpires == cache # None

CacheEntryEnds ==
  /\ cacheExpires
  /\ cache' = None
  /\ UNCHANGED <<vars, kind, at, answer>>

-----------------------------------------------------------------------------
QueryStep(r) ==
  \/ callInventoryGetSeatMap(r)
  \/ inventoryFails(r)
  \/ tryWriteCache(r)

QueryNext ==
  \/ Next /\ UNCHANGED queryVars
  \/ \E r \in Readers : searchTrains(r) \/ getSeatMap(r) \/ QueryStep(r)
  \/ CacheEntryEnds

QuerySpec == QueryInit /\ [][QueryNext]_allVars

(* The projections' fairness; a query that has begun comes to its end, and *)
(* Redis keeps its clock. Nobody has to ask.                               *)
QueryFairness ==
  /\ Fairness
  /\ \A r \in Readers : WF_allVars(QueryStep(r))
  /\ WF_allVars(CacheEntryEnds)

FairQuerySpec == QuerySpec /\ QueryFairness

-----------------------------------------------------------------------------
(* What passengers are shown follows the schedule: without faults of the   *)
(* consumers, every answer in the train cache ends up as the latest        *)
(* version has it, and a cached seat map goes once the inventory's row is  *)
(* not ACTIVE, although a slow query may cache what it read long ago, and  *)
(* after an answer was cached the schedule may have changed.               *)
ShownCatchesUp ==
  \/ <>(faults > 0)
  \/ <>[](/\ kind = "train" => doc.version = version /\ cache \in {None, listing}
          /\ kind = "seatMap" => cache = None \/ inventory.status = "ACTIVE")
=============================================================================
