------------------------------- MODULE Outbox -------------------------------
(***************************************************************************)
(* The transactional outbox every service shares: PostgresOutboxRepository *)
(* and the OutboxPublisherWorker of each instance (packages/kafka/src/     *)
(* outbox).  Rows are claimed in batches with FOR UPDATE SKIP LOCKED, sent *)
(* one after another, and their outcome is recorded with guarded updates;  *)
(* two sweeps bring failed and abandoned rows back.                        *)
(***************************************************************************)
EXTENDS Naturals, Sequences, FiniteSets

CONSTANTS
  NumEvents,   \* events are 1..NumEvents, in the order of created_at
  Workers,     \* instances that run a publisher
  BatchSize,   \* BATCH_SIZE
  MaxRetry,    \* MAX_RETRY_COUNT
  MaxFaults    \* bound: crashes, database errors and stalls over 5 minutes

ASSUME NumEventsAssumption == NumEvents \in Nat
ASSUME BatchSizeAssumption == BatchSize \in Nat \ {0}
ASSUME MaxRetryAssumption == MaxRetry \in Nat \ {0}
ASSUME OutboxFaultsAssumption == MaxFaults \in Nat

Events == 1..NumEvents

VARIABLES
  status,      \* outbox_events.status, NONE before the insert
  retryCount,  \* outbox_events.retry_count
  sent,        \* copies on the topic: none, one, or more
  batch,       \* batch[w]: rows w claimed and has not dealt with yet
  pc,          \* pc[w]: what w does with the first row of its batch
  faults       \* faults so far

vars == <<status, retryCount, sent, batch, pc, faults>>

Status == {"NONE", "PENDING", "PROCESSING", "PUBLISHED", "FAILED", "DEAD"}
Claims == [event: Events, retryCount: Nat]

TypeOK ==
  /\ status \in [Events -> Status]
  /\ retryCount \in [Events -> 0..MaxRetry]
  /\ sent \in [Events -> 0..2]
  /\ batch \in [Workers -> Seq(Claims)]
  /\ pc \in [Workers -> {"poll", "send", "markPublished", "markFailed"}]
  /\ faults \in 0..MaxFaults

Init ==
  /\ status = [e \in Events |-> "NONE"]
  /\ retryCount = [e \in Events |-> 0]
  /\ sent = [e \in Events |-> 0]
  /\ batch = [w \in Workers |-> <<>>]
  /\ pc = [w \in Workers |-> "poll"]
  /\ faults = 0

Fault == faults < MaxFaults /\ faults' = faults + 1
Goto(w, step) == pc' = [pc EXCEPT ![w] = step]

(* The row w is busy with, and going on to the next one. *)
Row(w) == Head(batch[w])
NextRow(w) ==
  /\ batch' = [batch EXCEPT ![w] = Tail(@)]
  /\ Goto(w, IF Len(batch[w]) = 1 THEN "poll" ELSE "send")

(* Another copy: the properties tell none, one and several apart. *)
AddCopy(e) == sent' = [sent EXCEPT ![e] = IF @ < 2 THEN @ + 1 ELSE @]

-----------------------------------------------------------------------------
(* The business transaction that recorded the event commits. *)
insert(e) ==
  /\ status[e] = "NONE"
  /\ status' = [status EXCEPT ![e] = "PENDING"]
  /\ UNCHANGED <<retryCount, sent, batch, pc, faults>>

(* WHERE status = PENDING. *)
Claimable == {e \in Events : status[e] = "PENDING"}

(* ORDER BY created_at LIMIT BatchSize. *)
FirstRows == {e \in Claimable : Cardinality({d \in Claimable : d < e}) < BatchSize}

(* The batch lists them in that order, with the retry_count that was read. *)
claimPendingEvents(w) ==
  /\ pc[w] = "poll"
  /\ FirstRows # {}
  /\ status' = [e \in Events |-> IF e \in FirstRows THEN "PROCESSING" ELSE status[e]]
  /\ \E rows \in [1..Cardinality(FirstRows) -> FirstRows] :
       /\ \A i, j \in DOMAIN rows : i < j => rows[i] < rows[j]
       /\ batch' = [batch EXCEPT ![w] =
            [i \in DOMAIN rows |-> [event |-> rows[i], retryCount |-> retryCount[rows[i]]]]]
  /\ Goto(w, "send")
  /\ UNCHANGED <<retryCount, sent, faults>>

(* producer.send: acknowledged; failed; or failed although Kafka has it.   *)
publishEvent(w) ==
  /\ pc[w] = "send"
  /\ \/ AddCopy(Row(w).event) /\ Goto(w, "markPublished")
     \/ AddCopy(Row(w).event) /\ Goto(w, "markFailed")
     \/ UNCHANGED sent /\ Goto(w, "markFailed")
  /\ UNCHANGED <<status, retryCount, batch, faults>>

(* Mutant: the outcome is recorded whatever became of the row. *)
inFlightUnchecked(e) == TRUE

(* The guard of both outcome updates: the row is still PROCESSING. *)
inFlight(e) == status[e] = "PROCESSING"

(* A row that was reset or closed meanwhile stays as it is. *)
markPublished(w) ==
  LET e == Row(w).event
  IN /\ pc[w] = "markPublished"
     /\ status' = IF inFlight(e) THEN [status EXCEPT ![e] = "PUBLISHED"] ELSE status
     /\ NextRow(w)
     /\ UNCHANGED <<retryCount, sent, faults>>

(* newRetryCount >= MAX_RETRY_COUNT. *)
exhausted(r) == r + 1 >= MaxRetry

(* What a failed attempt makes of the row. *)
failedStatus(r) == IF exhausted(r) THEN "DEAD" ELSE "FAILED"

(* The failure counts only if no other failure of the row was counted      *)
(* since this worker claimed it.                                           *)
markFailed(w) ==
  LET e == Row(w).event
      r == Row(w).retryCount
      current == inFlight(e) /\ retryCount[e] = r
  IN /\ pc[w] = "markFailed"
     /\ status' = IF current THEN [status EXCEPT ![e] = failedStatus(r)] ELSE status
     /\ retryCount' = IF current THEN [retryCount EXCEPT ![e] = r + 1] ELSE retryCount
     /\ NextRow(w)
     /\ UNCHANGED <<sent, faults>>

(* A database error: markPublished ends in the failure path, although the  *)
(* event went out; that of markFailed is logged.                           *)
databaseError(w) ==
  /\ Fault
  /\ \/ pc[w] = "markPublished" /\ Goto(w, "markFailed") /\ UNCHANGED batch
     \/ pc[w] = "markFailed" /\ NextRow(w)
  /\ UNCHANGED <<status, retryCount, sent>>

crash(w) ==
  /\ pc[w] # "poll"
  /\ Fault
  /\ batch' = [batch EXCEPT ![w] = <<>>]
  /\ Goto(w, "poll")
  /\ UNCHANGED <<status, retryCount, sent>>

(* Mutant: the sweep forgets the rows of a first failure. *)
retryableAgain(e) == status[e] = "FAILED" /\ retryCount[e] \in 2..(MaxRetry - 1)

(* FAILED rows with retry_count below the limit, once next_retry_at passed. *)
retryable(e) == status[e] = "FAILED" /\ retryCount[e] < MaxRetry

requeueFailedEvents(S) ==
  /\ S # {}
  /\ \A e \in S : retryable(e)
  /\ status' = [e \in Events |-> IF e \in S THEN "PENDING" ELSE status[e]]
  /\ UNCHANGED <<retryCount, sent, batch, pc, faults>>

(* Somebody alive has claimed the row. *)
Claimed(e) == \E w \in Workers : \E i \in 1..Len(batch[w]) : batch[w][i].event = e

(* Rows that have been PROCESSING for over 5 minutes: abandoned ones, and  *)
(* those of a worker that stalls.                                          *)
resetStuckProcessingEvents(S) ==
  /\ S # {}
  /\ \A e \in S : status[e] = "PROCESSING"
  /\ IF \E e \in S : Claimed(e) THEN Fault ELSE UNCHANGED faults
  /\ status' = [e \in Events |-> IF e \in S THEN "PENDING" ELSE status[e]]
  /\ UNCHANGED <<retryCount, sent, batch, pc>>

-----------------------------------------------------------------------------
step(w) ==
  claimPendingEvents(w) \/ publishEvent(w) \/ markPublished(w) \/ markFailed(w)

Next ==
  \/ \E e \in Events : insert(e)
  \/ \E w \in Workers : step(w) \/ databaseError(w) \/ crash(w)
  \/ \E S \in SUBSET Events : requeueFailedEvents(S) \/ resetStuckProcessingEvents(S)

Spec == Init /\ [][Next]_vars

(* The poll loop and the interval timers of every instance keep running.   *)
Fairness ==
  /\ \A w \in Workers : WF_vars(step(w))
  /\ \A e \in Events :
       WF_vars(\E S \in SUBSET Events :
                 e \in S /\ (requeueFailedEvents(S) \/ resetStuckProcessingEvents(S)))

FairSpec == Spec /\ Fairness

-----------------------------------------------------------------------------
Recorded == {e \in Events : status[e] # "NONE"}
Sent == {e \in Events : sent[e] > 0}
Published == {e \in Events : status[e] = "PUBLISHED"}
Dead == {e \in Events : status[e] = "DEAD"}

Delivery == INSTANCE EventDelivery
  WITH recorded <- Recorded, delivered <- Sent, closed <- Published, dead <- Dead

(* The outbox delivers at least once: a row becomes PUBLISHED only after   *)
(* Kafka took the event, and PUBLISHED and DEAD rows are never reopened or *)
(* exchanged, whichever stalled, crashed or repeated workers and sweeps    *)
(* touch the row.                                                          *)
AtLeastOnce == Delivery!DeliverySpec

(* A row is given up exactly when MAX_RETRY_COUNT failures were counted.   *)
DeadWhenExhausted == \A e \in Events : status[e] = "DEAD" <=> retryCount[e] = MaxRetry

(* Every recorded event is sent or given up in the end: crashed workers,   *)
(* failed sends and lost outcomes are all recovered by the sweeps.         *)
EventuallyClosed ==
  \A e \in Events : status[e] # "NONE" ~> status[e] \in {"PUBLISHED", "DEAD"}

=============================================================================
