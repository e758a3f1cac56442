-------------------------- MODULE ScheduleProjection --------------------------
(***************************************************************************)
(* One train schedule on its way from the admin service, which owns it, to *)
(* the two services that keep a copy: the inventory's schedule_inventory   *)
(* row (apps/inventory-service/src/services/schedule.service.ts) and the   *)
(* search service's Elasticsearch document (apps/search service/src/       *)
(* services/schedule-projection.service.ts).                               *)
(*                                                                         *)
(* ScheduleCreated and ScheduleStatusChanged travel on two topics, and the *)
(* outbox may publish in any order, so a consumer meets the events in any  *)
(* order.                                                                  *)
(***************************************************************************)
EXTENDS Naturals, Sequences

CONSTANTS
  Workers,       \* consumer executions under way at once
  Targets,       \* statuses administrators ask for
  None,          \* nothing
  MaxVersion,    \* bound: versions of the schedule
  MaxFaults      \* bound: crashes, errors and rebalances in a behaviour

ScheduleStatus == {"DRAFT", "ACTIVE", "SCHEDULED", "CANCELLED", "COMPLETED"}

ASSUME TargetsAssumption == Targets \subseteq ScheduleStatus
ASSUME ProjectionNoneAssumption ==
  None \notin ScheduleStatus /\ None \notin [group: {"inventory", "search"}, version: Nat]
ASSUME ProjectionBoundsAssumption == MaxVersion \in Nat \ {0} /\ MaxFaults \in Nat

Groups == {"inventory", "search"}
Versions == 1..MaxVersion
Messages == [group: Groups, version: Versions]

VARIABLES
  status,      \* schedules.status
  log,         \* log[v]: the event of version v, recorded with it
  acked,       \* messages whose offset is committed
  dlq,         \* inventory messages on the dead-letter topic
  inventory,   \* schedule_inventory row of the schedule
  doc,         \* Elasticsearch document of the schedule
  key,         \* Redis idempotency key of each event at the search service
  pc,          \* pc[w]: where execution w stands
  cur,         \* cur[w]: its message
  seen,        \* seen[w]: version of the inventory row as w read it
  faults       \* faults so far

admin == <<status, log>>
topic == <<acked, dlq>>
local == <<pc, cur, seen>>
vars == <<admin, topic, inventory, doc, key, local, faults>>

(* schedules.version, which starts at 1 and is incremented by each change. *)
version == Len(log)

(* The statuses the event contract knows. *)
EventStatus == {"DRAFT", "ACTIVE", "CANCELLED"}
Row(s, v) == [status |-> s, version |-> v]
Absent == Row("NONE", 0)
Rows == [status: EventStatus \cup {"NONE"}, version: 0..MaxVersion]
Steps ==
  {"idle", "invRead", "invCreate", "invUpdate", "deadLetter", "apply", "mark",
   "release", "ack"}

TypeOK ==
  /\ status \in EventStatus \cup {"NONE"}
  /\ log \in Seq(EventStatus) /\ version <= MaxVersion
  /\ acked \subseteq Messages
  /\ dlq \subseteq Versions
  /\ inventory \in Rows
  /\ doc \in Rows
  /\ key \in [Versions -> {"free", "PROCESSING", "PROCESSED"}]
  /\ pc \in [Workers -> Steps]
  /\ cur \in [Workers -> Messages \cup {None}]
  /\ seen \in [Workers -> 0..MaxVersion]
  /\ faults \in 0..MaxFaults

Init ==
  /\ status = "NONE"
  /\ log = <<>>
  /\ acked = {}
  /\ dlq = {}
  /\ inventory = Absent
  /\ doc = Absent
  /\ key = [v \in Versions |-> "free"]
  /\ pc = [w \in Workers |-> "idle"]
  /\ cur = [w \in Workers |-> None]
  /\ seen = [w \in Workers |-> 0]
  /\ faults = 0

Goto(w, step) == pc' = [pc EXCEPT ![w] = step]
Event(w) == log[cur[w].version]
Number(w) == cur[w].version

(* The execution ends; its local variables go with it. *)
Finish(w) ==
  /\ Goto(w, "idle")
  /\ cur' = [cur EXCEPT ![w] = None]
  /\ seen' = [seen EXCEPT ![w] = 0]

-----------------------------------------------------------------------------
(* The admin service.                                                      *)

(* createSchedule: an ACTIVE schedule of version 1 and its event, in one   *)
(* transaction; train and date are unique.                                 *)
createSchedule ==
  /\ version = 0
  /\ status' = "ACTIVE"
  /\ log' = <<"ACTIVE">>
  /\ UNCHANGED <<topic, inventory, doc, key, local, faults>>

(* toStatusChangedEvent parses the event with the contract's schema; for a *)
(* status the schema does not have it throws, and all is rolled back.      *)
isEventStatus(target) == target \in EventStatus

(* The check for a real change does not lock the row: what it read may be  *)
(* the status of an earlier version when two administrators are at work.   *)
isChange(target) == \E v \in 1..version : log[v] # target

(* updateScheduleStatus: the update increments the version of whatever row *)
(* it finds, and the event of the new version is recorded with it.         *)
updateScheduleStatus ==
  /\ version < MaxVersion
  /\ \E target \in Targets :
       /\ isChange(target)
       /\ isEventStatus(target)
       /\ status' = target
       /\ log' = Append(log, target)
  /\ UNCHANGED <<topic, inventory, doc, key, local, faults>>

-----------------------------------------------------------------------------
(* Delivery.  Each group has one consumer for each topic, which handles a  *)
(* message at a time; while a rebalance moves a partition two consumers    *)
(* may have it.                                                            *)
topicOf(v) == IF v = 1 THEN "SCHEDULE_CREATED" ELSE "SCHEDULE_STATUS_CHANGED"

busy(m) ==
  \E w \in Workers :
    cur[w] # None /\ cur[w].group = m.group /\ topicOf(cur[w].version) = topicOf(m.version)

deliver(w, m) ==
  /\ pc[w] = "idle"
  /\ m.version <= version
  /\ m \notin acked
  /\ \/ ~busy(m) /\ UNCHANGED faults
     \/ busy(m) /\ faults < MaxFaults /\ faults' = faults + 1
  /\ cur' = [cur EXCEPT ![w] = m]
  /\ IF m.group = "inventory"
       THEN Goto(w, "invRead") /\ UNCHANGED key
       ELSE (* reserveIfNew *)
            /\ Goto(w, IF key[m.version] = "free" THEN "apply" ELSE "ack")
            /\ key' = IF key[m.version] = "free"
                        THEN [key EXCEPT ![m.version] = "PROCESSING"] ELSE key
  /\ UNCHANGED <<admin, topic, inventory, doc, seen>>

(* The handler has returned and the offset is committed. *)
commitOffset(w) ==
  /\ pc[w] = "ack"
  /\ acked' = acked \cup {cur[w]}
  /\ Finish(w)
  /\ UNCHANGED <<admin, dlq, inventory, doc, key, faults>>

-----------------------------------------------------------------------------
(* The inventory: processCreated and processStatusChanged.                 *)

inventoryStatus(s) == IF s = "CANCELLED" THEN "CANCELLED" ELSE "ACTIVE"

(* findByScheduleId.  A stale creation is skipped; a status change of an   *)
(* unknown schedule goes to the dead-letter topic (isCustomNonRetryable).  *)
findByScheduleId(w) ==
  /\ pc[w] = "invRead"
  /\ seen' = [seen EXCEPT ![w] = inventory.version]
  /\ Goto(w, CASE Number(w) = 1 /\ inventory.version >= Number(w) -> "ack"
               [] Number(w) = 1 /\ inventory.version < Number(w) -> "invCreate"
               [] Number(w) # 1 /\ inventory.version = 0 -> "deadLetter"
               [] OTHER -> "invUpdate")
  /\ UNCHANGED <<admin, topic, inventory, doc, key, cur, faults>>

(* Mutant: the row is replaced without its unique key. *)
rowIsNewUnguarded(w) == TRUE

(* The unique schedule_id: an insert beside another one's row fails. *)
rowIsNew(w) == inventory.version = seen[w]

(* delete, create and the createMany calls of stops and seats, committed   *)
(* together with the event for downstream, or a unique violation.          *)
processCreated(w) ==
  /\ pc[w] = "invCreate"
  /\ IF rowIsNew(w)
       THEN /\ inventory' = Row(inventoryStatus(Event(w)), Number(w))
            /\ Goto(w, "ack")
            /\ UNCHANGED <<cur, seen>>
       ELSE Finish(w) /\ UNCHANGED inventory
  /\ UNCHANGED <<admin, topic, doc, key, faults>>

(* updateMany where version < the event's. *)
versionIsNewer(w) == inventory.version < Number(w)

processStatusChanged(w) ==
  /\ pc[w] = "invUpdate"
  /\ inventory' = IF versionIsNewer(w)
                    THEN Row(inventoryStatus(Event(w)), Number(w)) ELSE inventory
  /\ Goto(w, "ack")
  /\ UNCHANGED <<admin, topic, doc, key, cur, seen, faults>>

(* Mutant: the error is logged only. *)
deadLetteredDropped(w) == {}

(* The message wrapWithDlq sends to the dead-letter topic. *)
deadLettered(w) == {Number(w)}

wrapWithDlq(w) ==
  /\ pc[w] = "deadLetter"
  /\ dlq' = dlq \cup deadLettered(w)
  /\ Goto(w, "ack")
  /\ UNCHANGED <<admin, acked, inventory, doc, key, cur, seen, faults>>

-----------------------------------------------------------------------------
(* The search service: dispatch around applyCreated and applyStatusChange. *)

(* Mutant: the document is indexed whatever is stored. *)
upsertAppliesAlways(v) == TRUE

(* The guard of the upsert script. *)
upsertApplies(v) == doc.version <= v

applyCreated(w) ==
  /\ pc[w] = "apply"
  /\ Number(w) = 1
  /\ doc' = IF upsertApplies(Number(w)) THEN Row(Event(w), Number(w)) ELSE doc
  /\ Goto(w, "mark")
  /\ UNCHANGED <<admin, topic, inventory, key, cur, seen, faults>>

(* NOT_FOUND throws, to be retried once the document exists. *)
onNotFound == "release"

(* The script of updateStatus: a newer version only. *)
applyStatusChange(w) ==
  /\ pc[w] = "apply"
  /\ Number(w) # 1
  /\ doc' = IF doc.version # 0 /\ doc.version < Number(w)
              THEN Row(Event(w), Number(w)) ELSE doc
  /\ Goto(w, IF doc.version = 0 THEN onNotFound ELSE "mark")
  /\ UNCHANGED <<admin, topic, inventory, key, cur, seen, faults>>

markProcessed(w) ==
  /\ pc[w] = "mark"
  /\ key' = [key EXCEPT ![Number(w)] = "PROCESSED"]
  /\ Goto(w, "ack")
  /\ UNCHANGED <<admin, topic, inventory, doc, cur, seen, faults>>

release(w) ==
  /\ pc[w] = "release"
  /\ key' = [key EXCEPT ![Number(w)] = IF @ = "PROCESSING" THEN "free" ELSE @]
  /\ Finish(w)
  /\ UNCHANGED <<admin, topic, inventory, doc, faults>>

leaseExpires(v) ==
  /\ key[v] = "PROCESSING"
  /\ key' = [key EXCEPT ![v] = "free"]
  /\ UNCHANGED <<admin, topic, inventory, doc, local, faults>>

-----------------------------------------------------------------------------
(* Faults.                                                                 *)

(* A statement, a query, a Redis or a Kafka call of the handler throws: a  *)
(* search handler releases its key, an inventory transaction rolls back.   *)
error(w) ==
  /\ pc[w] \in {"invRead", "invCreate", "invUpdate", "deadLetter", "apply", "mark"}
  /\ faults < MaxFaults
  /\ faults' = faults + 1
  /\ IF pc[w] \in {"apply", "mark"}
       THEN Goto(w, "release") /\ UNCHANGED <<cur, seen>>
       ELSE Finish(w)
  /\ UNCHANGED <<admin, topic, inventory, doc, key>>

(* The process dies; a message it has not acknowledged is delivered again. *)
crash(w) ==
  /\ pc[w] # "idle"
  /\ faults < MaxFaults
  /\ faults' = faults + 1
  /\ Finish(w)
  /\ UNCHANGED <<admin, topic, inventory, doc, key>>

-----------------------------------------------------------------------------
Handle(w) ==
  \/ findByScheduleId(w) \/ processCreated(w) \/ processStatusChanged(w)
  \/ wrapWithDlq(w)
  \/ applyCreated(w) \/ applyStatusChange(w) \/ markProcessed(w) \/ release(w)
  \/ commitOffset(w)

Next ==
  \/ createSchedule
  \/ updateScheduleStatus
  \/ \E w \in Workers :
       \/ \E m \in Messages : deliver(w, m)
       \/ Handle(w)
       \/ error(w)
       \/ crash(w)
  \/ \E v \in Versions : leaseExpires(v)

Spec == Init /\ [][Next]_vars

(* A handler that runs goes on, a message is delivered until its offset is *)
(* committed, and Redis drops a lease that ran out.  Neither faults nor   *)
(* administrators are fair.                                                *)
Fairness ==
  /\ \A w \in Workers : WF_vars(Handle(w))
  /\ \A m \in Messages : SF_vars(\E w \in Workers : ~busy(m) /\ deliver(w, m))
  /\ \A v \in Versions : WF_vars(leaseExpires(v))

FairSpec == Spec /\ Fairness

-----------------------------------------------------------------------------
(* Properties.                                                             *)

Verbatim(s) == s

SearchCopy == INSTANCE VersionedCopy
  WITH Values <- EventStatus, View <- Verbatim,
       history <- log, version <- doc.version, value <- doc.status

InventoryCopy == INSTANCE VersionedCopy
  WITH Values <- EventStatus, View <- inventoryStatus,
       history <- log, version <- inventory.version, value <- inventory.status

(* The search document always shows one version of the schedule as the     *)
(* admin service recorded it, and only moves on to later ones: reordered,  *)
(* repeated and concurrent deliveries of upsert and updateStatus cannot    *)
(* bring an older status back.                                             *)
SearchIsACopy == SearchCopy!CopySpec

(* The same for the inventory's row, where processCreated replaces it and  *)
(* processStatusChanged updates it in transactions that read it before.    *)
InventoryIsACopy == InventoryCopy!CopySpec

(* The inventory ends at the latest version, or that version's event is on *)
(* the dead-letter topic, because it overtook the creation: faults and     *)
(* repetitions lose no event.                                              *)
InventoryCatchesUp == <>[](inventory.version = version \/ version \in dlq)

=============================================================================
