---------------------- MODULE ScheduleProjectionProofs ----------------------
(* Proofs about ScheduleProjection, for any number of versions, consumers  *)
(* and faults.                                                             *)
EXTENDS ScheduleProjection, TLAPS

(* An execution works on a message of a recorded event. *)
Working ==
  \A w \in Workers : pc[w] # "idle" => cur[w] \in Messages /\ cur[w].version <= Len(log)

(* What a transaction is about to insert is newer than the row it read. *)
CreatesNewer ==
  \A w \in Workers : pc[w] = "invCreate" => seen[w] < cur[w].version

(* The document is the version it says it is. *)
DocIsVersion ==
  doc.version # 0 => doc.version <= Len(log) /\ doc.status = log[doc.version]

Inv == TypeOK /\ Working /\ CreatesNewer /\ DocIsVersion

USE TargetsAssumption, ProjectionBoundsAssumption

-----------------------------------------------------------------------------
LEMMA InitInv == Init => Inv
<1> SUFFICES ASSUME Init PROVE Inv
  OBVIOUS
<1>1. log \in Seq(EventStatus) /\ Len(log) = 0
  BY DEF Init
<1> QED
  BY <1>1 DEF Init, Inv, TypeOK, Working, CreatesNewer, DocIsVersion, Absent, Row, Rows,
              version, EventStatus, Steps, Versions

(* The facts about the worker whose step it is that every lemma needs. *)
LEMMA AtWork ==
  ASSUME Inv, NEW w \in Workers, pc[w] # "idle"
  PROVE /\ Number(w) \in Versions /\ Number(w) <= Len(log) /\ Len(log) \in Nat
        /\ Event(w) = log[Number(w)] /\ Event(w) \in EventStatus
        /\ cur[w] \in Messages
<1>1. cur[w] \in Messages /\ cur[w].version <= Len(log) /\ log \in Seq(EventStatus)
  BY DEF Inv, TypeOK, Working
<1>2. Number(w) \in 1..Len(log) /\ Number(w) \in Versions /\ Len(log) \in Nat
  BY <1>1 DEF Number, Messages, Versions
<1> QED BY <1>1, <1>2 DEF Number, Event

(* A step that leaves the schedule, the document and its own message alone *)
(* keeps what the invariant says of them.                                  *)
LEMMA LocalStep ==
  ASSUME Inv, TypeOK', NEW w \in Workers, pc[w] # "idle", NEW step \in Steps,
         Goto(w, step), UNCHANGED <<log, doc, cur>>,
         \A v \in Workers \ {w} : seen'[v] = seen[v],
         step = "invCreate" => seen'[w] < cur[w].version
  PROVE Inv'
<1>1. pc' = [pc EXCEPT ![w] = step] /\ pc \in [Workers -> Steps]
  BY DEF Goto, Inv, TypeOK
<1>2. Working'
  BY <1>1 DEF Inv, Working
<1>3. CreatesNewer'
  BY <1>1 DEF Inv, CreatesNewer
<1>4. DocIsVersion'
  BY DEF Inv, DocIsVersion
<1> QED BY <1>2, <1>3, <1>4 DEF Inv

(* The end of an execution. *)
LEMMA FinishStep ==
  ASSUME Inv, NEW w \in Workers, Finish(w), UNCHANGED <<log, doc>>
  PROVE /\ pc' \in [Workers -> Steps] /\ cur' \in [Workers -> Messages \cup {None}]
        /\ seen' \in [Workers -> 0..MaxVersion]
        /\ Working' /\ CreatesNewer' /\ DocIsVersion'
<1>1. /\ pc' = [pc EXCEPT ![w] = "idle"] /\ cur' = [cur EXCEPT ![w] = None]
      /\ seen' = [seen EXCEPT ![w] = 0]
      /\ pc \in [Workers -> Steps] /\ cur \in [Workers -> Messages \cup {None}]
      /\ seen \in [Workers -> 0..MaxVersion]
  BY DEF Finish, Goto, Inv, TypeOK
<1>2. /\ pc' \in [Workers -> Steps] /\ cur' \in [Workers -> Messages \cup {None}]
      /\ seen' \in [Workers -> 0..MaxVersion]
  BY <1>1 DEF Steps
<1>3. Working'
  BY <1>1 DEF Inv, Working
<1>4. CreatesNewer'
  BY <1>1 DEF Inv, CreatesNewer
<1>5. DocIsVersion'
  BY DEF Inv, DocIsVersion
<1> QED BY <1>2, <1>3, <1>4, <1>5

-----------------------------------------------------------------------------
(* The administrator's steps. *)
LEMMA AdminInv ==
  ASSUME Inv, createSchedule \/ updateScheduleStatus
  PROVE /\ Inv'
        /\ \E x \in EventStatus : log' = Append(log, x)
<1>0. log \in Seq(EventStatus) /\ Len(log) \in Nat
  BY DEF Inv, TypeOK
<1>1. PICK x \in EventStatus : /\ log' = Append(log, x) /\ status' = x
                               /\ Len(log) < MaxVersion
  <2>1. CASE createSchedule
    <3>1. log = <<>>
      BY <1>0, <2>1 DEF createSchedule, version
    <3> QED BY <2>1, <3>1 DEF createSchedule, EventStatus, version
  <2>2. CASE updateScheduleStatus
    BY <1>0, <2>2 DEF updateScheduleStatus, isEventStatus, version
  <2> QED BY <2>1, <2>2
<1>2. /\ log' \in Seq(EventStatus) /\ Len(log') = Len(log) + 1
      /\ \A v \in 1..Len(log) : log'[v] = log[v]
  BY <1>0, <1>1
<1>3. UNCHANGED <<acked, dlq, inventory, doc, key, pc, cur, seen, faults>>
  BY DEF createSchedule, updateScheduleStatus, topic, local
<1>4. TypeOK'
  BY <1>0, <1>1, <1>2, <1>3 DEF Inv, TypeOK, version
<1>5. Working'
  BY <1>0, <1>2, <1>3 DEF Inv, TypeOK, Working, Messages, Versions
<1>6. CreatesNewer'
  BY <1>3 DEF Inv, CreatesNewer
<1>7. DocIsVersion'
  BY <1>0, <1>2, <1>3 DEF Inv, TypeOK, DocIsVersion, Rows
<1> QED BY <1>1, <1>4, <1>5, <1>6, <1>7 DEF Inv

LEMMA DeliverInv ==
  ASSUME Inv, NEW w \in Workers, NEW m \in Messages, deliver(w, m)
  PROVE Inv'
<1>1. /\ cur' = [cur EXCEPT ![w] = m] /\ m.version <= Len(log) /\ m.version \in Versions
      /\ pc' \in {[pc EXCEPT ![w] = "invRead"], [pc EXCEPT ![w] = "apply"], [pc EXCEPT ![w] = "ack"]}
      /\ UNCHANGED <<status, log, acked, dlq, inventory, doc, seen>>
  BY DEF deliver, Goto, version, admin, topic, Messages
<1>2. key' \in [Versions -> {"free", "PROCESSING", "PROCESSED"}]
  BY <1>1 DEF deliver, Inv, TypeOK
<1>3. faults' \in 0..MaxFaults
  BY DEF deliver, Inv, TypeOK
<1>4. TypeOK'
  BY <1>1, <1>2, <1>3 DEF Inv, TypeOK, version, Steps
<1>5. Working'
  BY <1>1 DEF Inv, TypeOK, Working
<1>6. CreatesNewer'
  BY <1>1 DEF Inv, TypeOK, CreatesNewer
<1>7. DocIsVersion'
  BY <1>1 DEF Inv, DocIsVersion
<1> QED BY <1>4, <1>5, <1>6, <1>7 DEF Inv

(* The steps of the handlers, but for the two that write the document.     *)
LEMMA HandleInv ==
  ASSUME Inv, NEW w \in Workers,
         \/ findByScheduleId(w) \/ processCreated(w) \/ processStatusChanged(w)
         \/ wrapWithDlq(w) \/ markProcessed(w) \/ release(w) \/ commitOffset(w)
  PROVE Inv'
<1>1. CASE findByScheduleId(w)
  <2>1. pc[w] # "idle"
    BY <1>1 DEF findByScheduleId
  <2>2. PICK step \in {"ack", "invCreate", "deadLetter", "invUpdate"} :
          Goto(w, step) /\ (step = "invCreate" => inventory.version < Number(w))
    BY <1>1, <2>1, AtWork DEF findByScheduleId, Inv, TypeOK, Rows
  <2>3. /\ seen' = [seen EXCEPT ![w] = inventory.version]
        /\ UNCHANGED <<status, log, acked, dlq, inventory, doc, key, cur, faults>>
    BY <1>1 DEF findByScheduleId, admin, topic
  <2>4. inventory.version \in 0..MaxVersion
    BY DEF Inv, TypeOK, Rows
  <2>5. TypeOK'
    BY <2>2, <2>3, <2>4 DEF Inv, TypeOK, version, Goto, Steps
  <2>6. seen'[w] = inventory.version /\ \A v \in Workers \ {w} : seen'[v] = seen[v]
    BY <2>3 DEF Inv, TypeOK
  <2> QED BY <2>1, <2>2, <2>3, <2>5, <2>6, LocalStep DEF Number, Steps
<1>2. CASE processCreated(w)
  <2>1. pc[w] = "invCreate" /\ UNCHANGED <<status, log, acked, dlq, doc, key, faults>>
    BY <1>2 DEF processCreated, admin, topic
  <2>2. CASE rowIsNew(w)
    <3>1. /\ inventory' = Row(inventoryStatus(Event(w)), Number(w))
          /\ Goto(w, "ack") /\ UNCHANGED <<cur, seen>>
      BY <1>2, <2>2 DEF processCreated
    <3>2. inventory' \in Rows
      BY <2>1, <3>1, AtWork DEF Row, Rows, inventoryStatus, EventStatus, Versions
    <3>3. TypeOK'
      BY <2>1, <3>1, <3>2 DEF Inv, TypeOK, version, Goto, Steps
    <3> QED BY <2>1, <3>1, <3>3, LocalStep DEF Steps
  <2>3. CASE ~rowIsNew(w)
    <3>1. Finish(w) /\ UNCHANGED inventory
      BY <1>2, <2>3 DEF processCreated
    <3>2. TypeOK'
      BY <2>1, <3>1, FinishStep DEF Inv, TypeOK, version
    <3> QED BY <2>1, <3>1, <3>2, FinishStep DEF Inv
  <2> QED BY <2>2, <2>3
<1>3. CASE processStatusChanged(w)
  <2>1. /\ pc[w] = "invUpdate" /\ Goto(w, "ack")
        /\ UNCHANGED <<status, log, acked, dlq, doc, key, cur, seen, faults>>
        /\ inventory' \in {inventory, Row(inventoryStatus(Event(w)), Number(w))}
    BY <1>3 DEF processStatusChanged, admin, topic
  <2>2. Row(inventoryStatus(Event(w)), Number(w)) \in Rows
    BY <2>1, AtWork DEF Row, Rows, inventoryStatus, EventStatus, Versions
  <2>3. TypeOK'
    BY <2>1, <2>2 DEF Inv, TypeOK, version, Goto, Steps
  <2> QED BY <2>1, <2>3, LocalStep DEF Steps
<1>4. CASE wrapWithDlq(w)
  <2>1. /\ pc[w] = "deadLetter" /\ Goto(w, "ack") /\ dlq' = dlq \cup {Number(w)}
        /\ UNCHANGED <<status, log, acked, inventory, doc, key, cur, seen, faults>>
    BY <1>4 DEF wrapWithDlq, admin, deadLettered
  <2>2. Number(w) \in Versions
    BY <2>1, AtWork
  <2>3. TypeOK'
    BY <2>1, <2>2 DEF Inv, TypeOK, version, Goto, Steps
  <2> QED BY <2>1, <2>3, LocalStep DEF Steps
<1>5. CASE markProcessed(w)
  <2>1. /\ pc[w] = "mark" /\ Goto(w, "ack") /\ key' = [key EXCEPT ![Number(w)] = "PROCESSED"]
        /\ UNCHANGED <<status, log, acked, dlq, inventory, doc, cur, seen, faults>>
    BY <1>5 DEF markProcessed, admin, topic
  <2>2. TypeOK'
    BY <2>1 DEF Inv, TypeOK, version, Goto, Steps
  <2> QED BY <2>1, <2>2, LocalStep DEF Steps
<1>6. CASE release(w)
  <2>1. /\ Finish(w)
        /\ UNCHANGED <<status, log, acked, dlq, inventory, doc, faults>>
        /\ key' \in {key, [key EXCEPT ![Number(w)] = "free"]}
    BY <1>6 DEF release, admin, topic, Inv, TypeOK
  <2>2. key' \in [Versions -> {"free", "PROCESSING", "PROCESSED"}]
    BY <2>1 DEF Inv, TypeOK
  <2>3. TypeOK'
    BY <2>1, <2>2, FinishStep DEF Inv, TypeOK, version
  <2> QED BY <2>1, <2>3, FinishStep DEF Inv
<1>7. CASE commitOffset(w)
  <2>1. /\ pc[w] = "ack" /\ Finish(w) /\ acked' = acked \cup {cur[w]}
        /\ UNCHANGED <<status, log, dlq, inventory, doc, key, faults>>
    BY <1>7 DEF commitOffset, admin
  <2>2. acked' \subseteq Messages
    BY <2>1, AtWork DEF Inv, TypeOK
  <2>3. TypeOK'
    BY <2>1, <2>2, FinishStep DEF Inv, TypeOK, version
  <2> QED BY <2>1, <2>3, FinishStep DEF Inv
<1> QED BY <1>1, <1>2, <1>3, <1>4, <1>5, <1>6, <1>7

(* The two that write the document leave it alone or take it to the event's *)
(* version.                                                                *)
LEMMA ApplyInv ==
  ASSUME Inv, NEW w \in Workers, applyCreated(w) \/ applyStatusChange(w)
  PROVE /\ Inv'
        /\ \/ doc' = doc
           \/ doc.version < Number(w) /\ doc' = Row(Event(w), Number(w))
<1>1. /\ pc[w] = "apply" /\ UNCHANGED <<status, log, acked, dlq, inventory, key, cur, seen, faults>>
      /\ pc' \in {[pc EXCEPT ![w] = "mark"], [pc EXCEPT ![w] = "release"]}
  BY DEF applyCreated, applyStatusChange, Goto, onNotFound, admin, topic
<1>2. doc \in Rows /\ doc.version \in Nat
  BY DEF Inv, TypeOK, Rows
<1>3. /\ Number(w) \in Versions /\ Number(w) <= Len(log)
      /\ Event(w) = log[Number(w)] /\ Event(w) \in EventStatus
  BY <1>1, AtWork
<1>4. Number(w) \in Nat \ {0}
  BY <1>3 DEF Versions
<1>5. \/ doc' = doc
      \/ doc.version < Number(w) /\ doc' = Row(Event(w), Number(w))
  <2>1. CASE applyCreated(w)
    <3>1. CASE doc.version = Number(w)
      <4>1. doc.status = Event(w)
        BY <1>3, <1>4, <3>1 DEF Inv, DocIsVersion
      <4>2. doc = Row(Event(w), Number(w))
        BY <1>2, <3>1, <4>1 DEF Row, Rows
      <4> QED BY <2>1, <4>2 DEF applyCreated
    <3>2. CASE doc.version # Number(w)
      BY <1>2, <1>4, <2>1, <3>2 DEF applyCreated, upsertApplies
    <3> QED BY <3>1, <3>2
  <2>2. CASE applyStatusChange(w)
    BY <2>2 DEF applyStatusChange
  <2> QED BY <2>1, <2>2
<1>6. doc' \in Rows
  BY <1>2, <1>3, <1>5 DEF Row, Rows, Versions
<1>7. TypeOK'
  BY <1>1, <1>6 DEF Inv, TypeOK, version, Steps
<1>8. Working'
  BY <1>1 DEF Inv, TypeOK, Working
<1>9. CreatesNewer'
  BY <1>1 DEF Inv, TypeOK, CreatesNewer
<1>10. DocIsVersion'
  BY <1>1, <1>3, <1>5 DEF Inv, DocIsVersion, Row
<1> QED BY <1>5, <1>7, <1>8, <1>9, <1>10 DEF Inv

LEMMA OtherInv ==
  ASSUME Inv,
         \/ \E w \in Workers : error(w) \/ crash(w)
         \/ \E v \in Versions : leaseExpires(v)
         \/ UNCHANGED vars
  PROVE Inv'
<1>1. ASSUME NEW w \in Workers, crash(w) \/ (error(w) /\ Finish(w)) PROVE Inv'
  <2>1. /\ Finish(w) /\ faults' \in 0..MaxFaults
        /\ UNCHANGED <<status, log, acked, dlq, inventory, doc, key>>
    BY <1>1 DEF error, crash, admin, topic, Inv, TypeOK
  <2>2. TypeOK'
    BY <2>1, FinishStep DEF Inv, TypeOK, version
  <2> QED BY <2>1, <2>2, FinishStep DEF Inv
<1>2. ASSUME NEW w \in Workers, error(w), ~Finish(w) PROVE Inv'
  <2>1. /\ Goto(w, "release") /\ faults' \in 0..MaxFaults /\ pc[w] # "idle"
        /\ UNCHANGED <<status, log, acked, dlq, inventory, doc, key, cur, seen>>
    BY <1>2 DEF error, admin, topic, Inv, TypeOK
  <2>2. TypeOK'
    BY <2>1 DEF Inv, TypeOK, version, Goto, Steps
  <2> QED BY <2>1, <2>2, LocalStep DEF Steps
<1>3. ASSUME NEW v \in Versions, leaseExpires(v) PROVE Inv'
  <2>1. /\ key' = [key EXCEPT ![v] = "free"]
        /\ UNCHANGED <<status, log, acked, dlq, inventory, doc, pc, cur, seen, faults>>
    BY <1>3 DEF leaseExpires, admin, topic, local
  <2> QED BY <2>1 DEF Inv, TypeOK, Working, CreatesNewer, DocIsVersion, version
<1>4. ASSUME UNCHANGED vars PROVE Inv'
  BY <1>4 DEF vars, admin, topic, local, Inv, TypeOK, Working, CreatesNewer, DocIsVersion, version
<1> QED BY <1>1, <1>2, <1>3, <1>4

LEMMA StepInv == Inv /\ [Next]_vars => Inv'
<1> SUFFICES ASSUME Inv, [Next]_vars PROVE Inv'
  OBVIOUS
<1>1. CASE createSchedule \/ updateScheduleStatus
  BY <1>1, AdminInv
<1>2. ASSUME NEW w \in Workers, NEW m \in Messages, deliver(w, m) PROVE Inv'
  BY <1>2, DeliverInv
<1>3. ASSUME NEW w \in Workers, Handle(w) PROVE Inv'
  BY <1>3, HandleInv, ApplyInv DEF Handle
<1> QED BY <1>1, <1>2, <1>3, OtherInv DEF Next

LEMMA Invariance == Spec => []Inv
  BY InitInv, StepInv, PTL DEF Spec

(* The schedule, its two copies and the consumers keep their types.        *)
THEOREM TypeCorrect == Spec => []TypeOK
  BY Invariance, PTL DEF Inv

-----------------------------------------------------------------------------
(* Every step that does not write the document leaves it alone. *)
LEMMA DocWriters ==
  ASSUME Inv, [Next]_vars
  PROVE \/ UNCHANGED <<log, doc>>
        \/ UNCHANGED doc /\ \E x \in EventStatus : log' = Append(log, x)
        \/ UNCHANGED log /\ \E w \in Workers :
             /\ pc[w] # "idle" /\ doc.version < Number(w)
             /\ doc' = Row(Event(w), Number(w))
<1>1. CASE createSchedule \/ updateScheduleStatus
  BY <1>1, AdminInv DEF createSchedule, updateScheduleStatus
<1>2. ASSUME NEW w \in Workers, applyCreated(w) \/ applyStatusChange(w)
      PROVE \/ UNCHANGED <<log, doc>>
            \/ UNCHANGED log /\ \E v \in Workers :
                 /\ pc[v] # "idle" /\ doc.version < Number(v)
                 /\ doc' = Row(Event(v), Number(v))
  <2>1. UNCHANGED log /\ pc[w] # "idle"
    BY <1>2 DEF applyCreated, applyStatusChange, admin
  <2> QED BY <1>2, <2>1, ApplyInv
<1>3. ASSUME NEW w \in Workers,
             \/ \E m \in Messages : deliver(w, m)
             \/ findByScheduleId(w) \/ processCreated(w) \/ processStatusChanged(w)
             \/ wrapWithDlq(w) \/ markProcessed(w) \/ release(w) \/ commitOffset(w)
             \/ error(w) \/ crash(w)
      PROVE UNCHANGED <<log, doc>>
  BY <1>3 DEF deliver, findByScheduleId, processCreated, processStatusChanged, wrapWithDlq,
              markProcessed, release, commitOffset, error, crash, admin
<1>4. ASSUME (\E v \in Versions : leaseExpires(v)) \/ UNCHANGED vars PROVE UNCHANGED <<log, doc>>
  BY <1>4 DEF leaseExpires, admin, vars
<1> QED BY <1>1, <1>2, <1>3, <1>4 DEF Next, Handle

(* The search document is a versioned copy of the schedule.                *)
THEOREM SearchImplementsCopy == Spec => SearchIsACopy
<1>1. Init => SearchCopy!CopyInit
  BY DEF Init, SearchCopy!CopyInit, Absent, Row
<1>2. ASSUME Inv, [Next]_vars
      PROVE [SearchCopy!CopyNext]_(SearchCopy!copyVars)
  <2>1. CASE UNCHANGED <<log, doc>>
    BY <2>1 DEF SearchCopy!copyVars
  <2>2. CASE UNCHANGED doc /\ \E x \in EventStatus : log' = Append(log, x)
    BY <2>2 DEF SearchCopy!CopyNext, SearchCopy!Publish
  <2>3. ASSUME UNCHANGED log, NEW w \in Workers, pc[w] # "idle", doc.version < Number(w),
               doc' = Row(Event(w), Number(w))
        PROVE SearchCopy!CatchUp
    <3>1. /\ Number(w) \in (doc.version + 1)..Len(log)
          /\ Event(w) = log[Number(w)] /\ doc.version \in Nat
      BY <2>3, <1>2, AtWork DEF Inv, TypeOK, Rows, Versions
    <3>2. doc'.version = Number(w) /\ doc'.status = Verbatim(log[Number(w)])
      BY <2>3, <3>1 DEF Row, Verbatim
    <3> QED BY <2>3, <3>1, <3>2 DEF SearchCopy!CatchUp
  <2> QED BY <1>2, <2>1, <2>2, <2>3, DocWriters DEF SearchCopy!CopyNext
<1> QED BY <1>1, <1>2, Invariance, PTL DEF Spec, SearchIsACopy, SearchCopy!CopySpec

-----------------------------------------------------------------------------
LEMMA InventoryWriters ==
  ASSUME Inv, [Next]_vars
  PROVE \/ UNCHANGED <<log, inventory>>
        \/ UNCHANGED inventory /\ \E x \in EventStatus : log' = Append(log, x)
        \/ UNCHANGED log /\ \E w \in Workers :
             /\ pc[w] # "idle" /\ inventory.version < Number(w)
             /\ inventory' = Row(inventoryStatus(Event(w)), Number(w))
<1>1. CASE createSchedule \/ updateScheduleStatus
  BY <1>1, AdminInv DEF createSchedule, updateScheduleStatus
<1>2. ASSUME NEW w \in Workers, processCreated(w)
      PROVE \/ UNCHANGED <<log, inventory>>
            \/ UNCHANGED log /\ \E v \in Workers :
                 /\ pc[v] # "idle" /\ inventory.version < Number(v)
                 /\ inventory' = Row(inventoryStatus(Event(v)), Number(v))
  <2>1. UNCHANGED log /\ pc[w] = "invCreate" /\ seen[w] < Number(w)
    BY <1>2 DEF processCreated, admin, Inv, CreatesNewer, Number
  <2> QED BY <1>2, <2>1 DEF processCreated, rowIsNew
<1>3. ASSUME NEW w \in Workers, processStatusChanged(w)
      PROVE \/ UNCHANGED <<log, inventory>>
            \/ UNCHANGED log /\ \E v \in Workers :
                 /\ pc[v] # "idle" /\ inventory.version < Number(v)
                 /\ inventory' = Row(inventoryStatus(Event(v)), Number(v))
  BY <1>3 DEF processStatusChanged, versionIsNewer, admin
<1>4. ASSUME NEW w \in Workers,
             \/ \E m \in Messages : deliver(w, m)
             \/ findByScheduleId(w) \/ applyCreated(w) \/ applyStatusChange(w)
             \/ wrapWithDlq(w) \/ markProcessed(w) \/ release(w) \/ commitOffset(w)
             \/ error(w) \/ crash(w)
      PROVE UNCHANGED <<log, inventory>>
  BY <1>4 DEF deliver, findByScheduleId, applyCreated, applyStatusChange, wrapWithDlq,
              markProcessed, release, commitOffset, error, crash, admin
<1>5. ASSUME (\E v \in Versions : leaseExpires(v)) \/ UNCHANGED vars
      PROVE UNCHANGED <<log, inventory>>
  BY <1>5 DEF leaseExpires, admin, vars
<1> QED BY <1>1, <1>2, <1>3, <1>4, <1>5 DEF Next, Handle

(* The inventory's row is a versioned copy of the schedule.                *)
THEOREM InventoryImplementsCopy == Spec => InventoryIsACopy
<1>1. Init => InventoryCopy!CopyInit
  BY DEF Init, InventoryCopy!CopyInit, Absent, Row
<1>2. ASSUME Inv, [Next]_vars
      PROVE [InventoryCopy!CopyNext]_(InventoryCopy!copyVars)
  <2>1. CASE UNCHANGED <<log, inventory>>
    BY <2>1 DEF InventoryCopy!copyVars
  <2>2. CASE UNCHANGED inventory /\ \E x \in EventStatus : log' = Append(log, x)
    BY <2>2 DEF InventoryCopy!CopyNext, InventoryCopy!Publish
  <2>3. ASSUME UNCHANGED log, NEW w \in Workers, pc[w] # "idle", inventory.version < Number(w),
               inventory' = Row(inventoryStatus(Event(w)), Number(w))
        PROVE InventoryCopy!CatchUp
    <3>1. /\ Number(w) \in (inventory.version + 1)..Len(log)
          /\ Event(w) = log[Number(w)] /\ inventory.version \in Nat
      BY <2>3, <1>2, AtWork DEF Inv, TypeOK, Rows, Versions
    <3>2. inventory'.version = Number(w) /\ inventory'.status = inventoryStatus(log[Number(w)])
      BY <2>3, <3>1 DEF Row
    <3> QED BY <2>3, <3>1, <3>2 DEF InventoryCopy!CatchUp
  <2> QED BY <1>2, <2>1, <2>2, <2>3, InventoryWriters DEF InventoryCopy!CopyNext
<1> QED BY <1>1, <1>2, Invariance, PTL DEF Spec, InventoryIsACopy, InventoryCopy!CopySpec
=============================================================================
