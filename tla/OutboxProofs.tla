---------------------------- MODULE OutboxProofs ----------------------------
(* Proofs about Outbox, for any number of events, workers, retries and     *)
(* faults and any batch size.                                              *)
EXTENDS Outbox, FiniteSetTheorems, TLAPS

(* A worker that is not polling has a row in hand. *)
RowInHand == \A w \in Workers : pc[w] # "poll" => batch[w] # <<>>

(* Claimed rows exist. *)
ClaimsRecorded ==
  \A w \in Workers : \A i \in 1..Len(batch[w]) : status[batch[w][i].event] # "NONE"

(* What is PUBLISHED, or about to be marked so, is on the topic. *)
SentFirst ==
  /\ \A e \in Events : status[e] = "PUBLISHED" => sent[e] > 0
  /\ \A w \in Workers : pc[w] = "markPublished" => sent[Row(w).event] > 0

Inv == TypeOK /\ RowInHand /\ ClaimsRecorded /\ SentFirst /\ DeadWhenExhausted

USE NumEventsAssumption, BatchSizeAssumption, MaxRetryAssumption, OutboxFaultsAssumption

-----------------------------------------------------------------------------
LEMMA InitInv == Init => Inv
<1> SUFFICES ASSUME Init PROVE Inv
  OBVIOUS
<1>1. batch \in [Workers -> Seq(Claims)]
  BY DEF Init
<1> QED
  BY <1>1 DEF Init, Inv, TypeOK, RowInHand, ClaimsRecorded, SentFirst,
              DeadWhenExhausted, Status

(* The first row of a batch that is not empty, and the rest of the batch.  *)
LEMMA RowTyped ==
  ASSUME Inv, NEW w \in Workers, pc[w] # "poll"
  PROVE /\ Row(w) \in Claims /\ Row(w).event \in Events /\ Row(w).retryCount \in Nat
        /\ Row(w) = batch[w][1] /\ Len(batch[w]) \in Nat \ {0}
        /\ status[Row(w).event] # "NONE"
        /\ Tail(batch[w]) \in Seq(Claims) /\ Len(Tail(batch[w])) = Len(batch[w]) - 1
        /\ \A i \in 1..Len(Tail(batch[w])) : Tail(batch[w])[i] = batch[w][i + 1]
<1>1. batch[w] \in Seq(Claims) /\ batch[w] # <<>>
  BY DEF Inv, TypeOK, RowInHand
<1>2. /\ Row(w) = batch[w][1] /\ Row(w) \in Claims /\ Len(batch[w]) \in Nat \ {0}
      /\ Tail(batch[w]) \in Seq(Claims) /\ Len(Tail(batch[w])) = Len(batch[w]) - 1
      /\ \A i \in 1..Len(Tail(batch[w])) : Tail(batch[w])[i] = batch[w][i + 1]
  BY <1>1 DEF Row
<1>3. Row(w).event \in Events /\ Row(w).retryCount \in Nat
  BY <1>2 DEF Claims
<1>4. status[Row(w).event] # "NONE"
  BY <1>2 DEF Inv, ClaimsRecorded
<1> QED BY <1>2, <1>3, <1>4

(* Going on to the next row keeps what concerns the batches, as long as no *)
(* row disappears.                                                         *)
LEMMA NextRowKeeps ==
  ASSUME Inv, NEW w \in Workers, pc[w] # "poll", NextRow(w),
         \A e \in Events : status[e] # "NONE" => status'[e] # "NONE",
         \A e \in Events : sent'[e] = sent[e]
  PROVE /\ batch' \in [Workers -> Seq(Claims)]
        /\ pc' \in [Workers -> {"poll", "send", "markPublished", "markFailed"}]
        /\ RowInHand' /\ ClaimsRecorded'
        /\ \A v \in Workers : pc'[v] = "markPublished" =>
             v # w /\ batch'[v] = batch[v] /\ pc[v] = "markPublished"
<1>1. /\ batch' = [batch EXCEPT ![w] = Tail(batch[w])]
      /\ pc' = [pc EXCEPT ![w] = IF Len(batch[w]) = 1 THEN "poll" ELSE "send"]
  BY DEF NextRow, Goto
<1>2. batch \in [Workers -> Seq(Claims)] /\ pc \in [Workers -> {"poll", "send", "markPublished", "markFailed"}]
  BY DEF Inv, TypeOK
<1>3. batch' \in [Workers -> Seq(Claims)]
  BY <1>1, <1>2, RowTyped
<1>4. pc' \in [Workers -> {"poll", "send", "markPublished", "markFailed"}]
  BY <1>1, <1>2
<1>5. RowInHand'
  <2> SUFFICES ASSUME NEW v \in Workers, pc'[v] # "poll" PROVE batch'[v] # <<>>
    BY DEF RowInHand
  <2>1. CASE v = w
    <3>1. Len(Tail(batch[w])) # 0
      BY <1>1, <1>2, <2>1, RowTyped
    <3>2. batch'[v] = Tail(batch[w])
      BY <1>1, <1>2, <2>1
    <3>3. Len(batch'[v]) # 0
      BY <3>1, <3>2
    <3>4. Len(<<>>) = 0
      OBVIOUS
    <3> QED BY <3>3, <3>4, Zenon
  <2>2. CASE v # w
    BY <1>1, <1>2, <2>2 DEF Inv, RowInHand
  <2> QED BY <2>1, <2>2
<1>6. ClaimsRecorded'
  <2> SUFFICES ASSUME NEW v \in Workers, NEW i \in 1..Len(batch'[v])
               PROVE status'[batch'[v][i].event] # "NONE"
    BY DEF ClaimsRecorded
  <2>1. PICK j \in 1..Len(batch[v]) : batch'[v][i] = batch[v][j]
    <3>1. CASE v = w
      BY <1>1, <1>2, <3>1, RowTyped
    <3>2. CASE v # w
      BY <1>1, <1>2, <3>2
    <3> QED BY <3>1, <3>2
  <2>2. batch[v][j] \in Claims
    BY <1>2
  <2>3. batch[v][j].event \in Events
    BY <2>2 DEF Claims
  <2> QED BY <2>1, <2>3 DEF Inv, ClaimsRecorded
<1>7. \A v \in Workers : pc'[v] = "markPublished" =>
        v # w /\ batch'[v] = batch[v] /\ pc[v] = "markPublished"
  BY <1>1, <1>2
<1> QED BY <1>3, <1>4, <1>5, <1>6, <1>7

-----------------------------------------------------------------------------
(* One lemma per step: the invariant is inductive. *)
LEMMA InsertInv ==
  ASSUME Inv, NEW e \in Events, insert(e)
  PROVE Inv'
<1>1. TypeOK'
  BY DEF Inv, insert, TypeOK, Status
<1>2. RowInHand'
  BY DEF Inv, insert, RowInHand
<1>3. ClaimsRecorded'
  <2> SUFFICES ASSUME NEW v \in Workers, NEW i \in 1..Len(batch[v])
               PROVE status'[batch[v][i].event] # "NONE"
    BY DEF insert, ClaimsRecorded
  <2>1. batch[v][i] \in Claims
    BY DEF Inv, TypeOK
  <2>2. batch[v][i].event \in Events
    BY <2>1 DEF Claims
  <2> QED BY <2>2 DEF Inv, insert, TypeOK, ClaimsRecorded
<1>4. SentFirst'
  BY DEF Inv, insert, SentFirst, Row, TypeOK
<1>5. DeadWhenExhausted'
  BY DEF Inv, insert, DeadWhenExhausted, TypeOK
<1> QED BY <1>1, <1>2, <1>3, <1>4, <1>5 DEF Inv

LEMMA ClaimInv ==
  ASSUME Inv, NEW w \in Workers, claimPendingEvents(w)
  PROVE Inv'
<1> DEFINE n == Cardinality(FirstRows)
<1>0. FirstRows \subseteq Events /\ \A e \in FirstRows : status[e] = "PENDING"
  BY DEF FirstRows, Claimable
<1>1. n \in Nat \ {0}
  <2>1. IsFiniteSet(FirstRows)
    <3>1. IsFiniteSet(1..NumEvents)
      BY FS_Interval
    <3> QED BY <1>0, <3>1, FS_Subset DEF Events
  <2>2. FirstRows # {}
    BY DEF claimPendingEvents
  <2> QED BY <2>1, <2>2, FS_CardinalityType, FS_EmptySet
<1>2. PICK rows \in [1..n -> FirstRows] :
        batch' = [batch EXCEPT ![w] =
          [i \in DOMAIN rows |-> [event |-> rows[i], retryCount |-> retryCount[rows[i]]]]]
  BY DEF claimPendingEvents
<1> DEFINE claims == [i \in 1..n |-> [event |-> rows[i], retryCount |-> retryCount[rows[i]]]]
<1>3. \A i \in 1..n : claims[i] \in Claims /\ claims[i].event \in FirstRows
  <2> SUFFICES ASSUME NEW i \in 1..n
               PROVE claims[i] \in Claims /\ claims[i].event \in FirstRows
    OBVIOUS
  <2>1. rows[i] \in FirstRows /\ rows[i] \in Events
    BY <1>0, <1>2
  <2>2. retryCount[rows[i]] \in Nat
    BY <2>1 DEF Inv, TypeOK
  <2>3. claims[i] = [event |-> rows[i], retryCount |-> retryCount[rows[i]]]
    OBVIOUS
  <2> QED BY <2>1, <2>2, <2>3 DEF Claims
<1>4. claims \in Seq(Claims) /\ Len(claims) = n /\ claims # <<>>
  BY <1>1, <1>3
<1>5. batch' = [batch EXCEPT ![w] = claims]
  BY <1>2
<1>6. /\ batch \in [Workers -> Seq(Claims)] /\ status \in [Events -> Status]
      /\ pc \in [Workers -> {"poll", "send", "markPublished", "markFailed"}]
  BY DEF Inv, TypeOK
<1>7. /\ status' = [e \in Events |-> IF e \in FirstRows THEN "PROCESSING" ELSE status[e]]
      /\ pc' = [pc EXCEPT ![w] = "send"]
      /\ UNCHANGED <<retryCount, sent, faults>>
  BY DEF claimPendingEvents, Goto
<1> HIDE DEF claims, n
<1>8. TypeOK'
  <2>1. batch' \in [Workers -> Seq(Claims)]
    BY <1>4, <1>5, <1>6
  <2>2. status' \in [Events -> Status] /\ pc' \in [Workers -> {"poll", "send", "markPublished", "markFailed"}]
    BY <1>6, <1>7 DEF Status
  <2> QED BY <1>7, <2>1, <2>2 DEF Inv, TypeOK
<1>9. RowInHand'
  BY <1>4, <1>5, <1>6, <1>7 DEF Inv, RowInHand
<1>10. ClaimsRecorded'
  <2> SUFFICES ASSUME NEW v \in Workers, NEW i \in 1..Len(batch'[v])
               PROVE status'[batch'[v][i].event] # "NONE"
    BY DEF ClaimsRecorded
  <2>1. CASE v = w
    <3>1. batch'[v] = claims
      BY <1>5, <1>6, <2>1
    <3>2. claims[i].event \in FirstRows
      BY <1>3, <1>4, <3>1
    <3> QED BY <1>0, <1>7, <3>1, <3>2
  <2>2. CASE v # w
    <3>1. batch'[v] = batch[v] /\ batch[v] \in Seq(Claims)
      BY <1>5, <1>6, <2>2
    <3>2. batch[v][i] \in Claims
      BY <3>1
    <3>3. batch[v][i].event \in Events
      BY <3>2 DEF Claims
    <3> QED BY <1>7, <3>1, <3>3 DEF Inv, ClaimsRecorded
  <2> QED BY <2>1, <2>2
<1>11. SentFirst'
  BY <1>5, <1>6, <1>7 DEF Inv, SentFirst, Row
<1>12. DeadWhenExhausted'
  BY <1>0, <1>7 DEF Inv, DeadWhenExhausted, TypeOK
<1> QED BY <1>8, <1>9, <1>10, <1>11, <1>12 DEF Inv

(* Sending changes the number of copies and the worker's next step only.   *)
LEMMA PublishInv ==
  ASSUME Inv, NEW w \in Workers, publishEvent(w)
  PROVE Inv'
<1>1. Row(w).event \in Events /\ batch[w] # <<>>
  BY RowTyped DEF publishEvent, Inv, RowInHand
<1>2. UNCHANGED <<status, retryCount, batch, faults>>
  BY DEF publishEvent
<1>3. /\ sent \in [Events -> 0..2] /\ batch \in [Workers -> Seq(Claims)]
      /\ pc \in [Workers -> {"poll", "send", "markPublished", "markFailed"}]
  BY DEF Inv, TypeOK
<1>4. /\ sent' \in [Events -> 0..2] /\ \A e \in Events : sent'[e] >= sent[e]
      /\ pc'[w] = "markPublished" => sent'[Row(w).event] > 0
      /\ pc'[w] \in {"markPublished", "markFailed"}
      /\ \A v \in Workers \ {w} : pc'[v] = pc[v]
      /\ pc' \in [Workers -> {"poll", "send", "markPublished", "markFailed"}]
  <2>1. CASE AddCopy(Row(w).event) /\ Goto(w, "markPublished")
    <3>1. sent' = [sent EXCEPT ![Row(w).event] =
                     IF sent[Row(w).event] < 2 THEN sent[Row(w).event] + 1 ELSE sent[Row(w).event]]
      BY <2>1 DEF AddCopy
    <3>2. sent[Row(w).event] \in 0..2
      BY <1>1, <1>3
    <3>3. sent' \in [Events -> 0..2] /\ sent'[Row(w).event] > 0
      BY <1>1, <1>3, <3>1, <3>2
    <3>4. \A e \in Events : sent'[e] >= sent[e]
      BY <1>1, <1>3, <3>1, <3>2
    <3> QED BY <1>3, <2>1, <3>3, <3>4 DEF Goto
  <2>2. CASE AddCopy(Row(w).event) /\ Goto(w, "markFailed")
    BY <1>1, <1>3, <2>2 DEF AddCopy, Goto
  <2>3. CASE UNCHANGED sent /\ Goto(w, "markFailed")
    BY <1>3, <2>3 DEF Goto
  <2> QED BY <2>1, <2>2, <2>3 DEF publishEvent
<1>5. TypeOK'
  BY <1>2, <1>4 DEF Inv, TypeOK
<1>6. RowInHand' /\ ClaimsRecorded' /\ DeadWhenExhausted'
  BY <1>1, <1>2, <1>4 DEF Inv, RowInHand, ClaimsRecorded, DeadWhenExhausted
<1>7. SentFirst'
  <2>1. \A e \in Events : status'[e] = "PUBLISHED" => sent'[e] > 0
    BY <1>2, <1>3, <1>4 DEF Inv, SentFirst
  <2>2. ASSUME NEW v \in Workers, pc'[v] = "markPublished" PROVE sent'[Row(v)'.event] > 0
    <3>1. Row(v)' = Row(v)
      BY <1>2 DEF Row
    <3>2. CASE v = w
      BY <1>4, <2>2, <3>1, <3>2
    <3>3. CASE v # w
      <4>1. pc[v] = "markPublished"
        BY <1>4, <2>2, <3>3
      <4>2. sent[Row(v).event] > 0 /\ Row(v).event \in Events
        BY <4>1, RowTyped DEF Inv, SentFirst
      <4>3. sent[Row(v).event] \in Nat /\ sent'[Row(v).event] \in Nat
        <5>1. \A e \in Events : sent[e] \in 0..2 /\ sent'[e] \in 0..2
          BY <1>3, <1>4
        <5>2. \A e \in Events : sent[e] \in Nat /\ sent'[e] \in Nat
          BY <5>1
        <5> QED BY <4>2, <5>2
      <4>4. sent'[Row(v).event] > 0
        BY <1>4, <4>2, <4>3
      <4> QED BY <3>1, <4>4
    <3> QED BY <3>2, <3>3
  <2> QED BY <2>1, <2>2 DEF SentFirst
<1> QED BY <1>5, <1>6, <1>7 DEF Inv

LEMMA PublishedInv ==
  ASSUME Inv, NEW w \in Workers, markPublished(w)
  PROVE Inv'
<1> DEFINE e == Row(w).event
<1>1. /\ e \in Events /\ status[e] # "NONE" /\ pc[w] = "markPublished" /\ sent[e] > 0
  BY RowTyped DEF markPublished, Inv, SentFirst
<1>2. /\ status' \in [Events -> Status]
      /\ \A d \in Events : status'[d] = status[d] \/ (d = e /\ status[d] = "PROCESSING" /\ status'[d] = "PUBLISHED")
      /\ UNCHANGED <<retryCount, sent, faults>> /\ NextRow(w)
  BY <1>1 DEF markPublished, inFlight, Inv, TypeOK, Status
<1> HIDE DEF e
<1>3. /\ batch' \in [Workers -> Seq(Claims)]
      /\ pc' \in [Workers -> {"poll", "send", "markPublished", "markFailed"}]
      /\ RowInHand' /\ ClaimsRecorded'
      /\ \A v \in Workers : pc'[v] = "markPublished" =>
           v # w /\ batch'[v] = batch[v] /\ pc[v] = "markPublished"
  <2>1. /\ \A d \in Events : status[d] # "NONE" => status'[d] # "NONE"
        /\ \A d \in Events : sent'[d] = sent[d]
    BY <1>2
  <2> QED BY <1>1, <1>2, <2>1, NextRowKeeps
<1>4. TypeOK'
  BY <1>2, <1>3 DEF Inv, TypeOK
<1>5. SentFirst'
  BY <1>1, <1>2, <1>3 DEF Inv, SentFirst, Row
<1>6. DeadWhenExhausted'
  BY <1>2 DEF Inv, DeadWhenExhausted
<1> QED BY <1>3, <1>4, <1>5, <1>6 DEF Inv

(* A failure is counted below the limit: a row in flight is not DEAD. *)
LEMMA FailedInv ==
  ASSUME Inv, NEW w \in Workers, markFailed(w)
  PROVE Inv'
<1> DEFINE e == Row(w).event
           r == Row(w).retryCount
<1>1. /\ e \in Events /\ r \in Nat /\ status[e] # "NONE" /\ pc[w] = "markFailed"
  BY RowTyped DEF markFailed, Inv
<1>2. /\ status \in [Events -> Status] /\ retryCount \in [Events -> 0..MaxRetry]
      /\ \A d \in Events : status[d] = "DEAD" <=> retryCount[d] = MaxRetry
  BY DEF Inv, TypeOK, DeadWhenExhausted
<1>3. UNCHANGED <<sent, faults>> /\ NextRow(w)
  BY DEF markFailed
<1>4. \/ UNCHANGED <<status, retryCount>>
      \/ /\ status[e] = "PROCESSING" /\ retryCount[e] = r
         /\ status' = [status EXCEPT ![e] = IF r + 1 >= MaxRetry THEN "DEAD" ELSE "FAILED"]
         /\ retryCount' = [retryCount EXCEPT ![e] = r + 1]
  BY DEF markFailed, inFlight, failedStatus, exhausted
<1> HIDE DEF e, r
<1>5. /\ status' \in [Events -> Status] /\ retryCount' \in [Events -> 0..MaxRetry]
      /\ \A d \in Events : status'[d] = "DEAD" <=> retryCount'[d] = MaxRetry
      /\ \A d \in Events : status[d] # "NONE" => status'[d] # "NONE"
      /\ \A d \in Events : status'[d] = "PUBLISHED" => status[d] = "PUBLISHED"
  <2>1. CASE UNCHANGED <<status, retryCount>>
    BY <1>2, <2>1
  <2>2. CASE /\ status[e] = "PROCESSING" /\ retryCount[e] = r
             /\ status' = [status EXCEPT ![e] = IF r + 1 >= MaxRetry THEN "DEAD" ELSE "FAILED"]
             /\ retryCount' = [retryCount EXCEPT ![e] = r + 1]
    <3>1. r < MaxRetry
      BY <1>1, <1>2, <2>2
    <3> QED BY <1>1, <1>2, <2>2, <3>1 DEF Status
  <2> QED BY <1>4, <2>1, <2>2
<1>6. /\ batch' \in [Workers -> Seq(Claims)]
      /\ pc' \in [Workers -> {"poll", "send", "markPublished", "markFailed"}]
      /\ RowInHand' /\ ClaimsRecorded'
      /\ \A v \in Workers : pc'[v] = "markPublished" =>
           v # w /\ batch'[v] = batch[v] /\ pc[v] = "markPublished"
  BY <1>1, <1>3, <1>5, NextRowKeeps
<1>7. TypeOK'
  BY <1>3, <1>5, <1>6 DEF Inv, TypeOK
<1>8. SentFirst'
  BY <1>3, <1>5, <1>6 DEF Inv, SentFirst, Row
<1> QED BY <1>5, <1>6, <1>7, <1>8 DEF Inv, DeadWhenExhausted

LEMMA ErrorInv ==
  ASSUME Inv, NEW w \in Workers, databaseError(w)
  PROVE Inv'
<1>1. /\ pc[w] # "poll" /\ UNCHANGED <<status, retryCount, sent>> /\ faults' \in 0..MaxFaults
  BY DEF databaseError, Fault, Inv, TypeOK
<1>2. /\ batch' \in [Workers -> Seq(Claims)]
      /\ pc' \in [Workers -> {"poll", "send", "markPublished", "markFailed"}]
      /\ RowInHand' /\ ClaimsRecorded'
      /\ \A v \in Workers : pc'[v] = "markPublished" =>
           v # w /\ batch'[v] = batch[v] /\ pc[v] = "markPublished"
  <2>1. CASE NextRow(w)
    BY <1>1, <2>1, NextRowKeeps
  <2>2. CASE Goto(w, "markFailed") /\ UNCHANGED batch
    BY <1>1, <2>2 DEF Goto, Inv, TypeOK, RowInHand, ClaimsRecorded
  <2> QED BY <2>1, <2>2 DEF databaseError
<1>3. TypeOK' /\ DeadWhenExhausted'
  BY <1>1, <1>2 DEF Inv, TypeOK, DeadWhenExhausted
<1>4. SentFirst'
  BY <1>1, <1>2 DEF Inv, SentFirst, Row
<1> QED BY <1>2, <1>3, <1>4 DEF Inv

LEMMA CrashInv ==
  ASSUME Inv, NEW w \in Workers, crash(w)
  PROVE Inv'
<1>1. /\ batch \in [Workers -> Seq(Claims)]
      /\ pc \in [Workers -> {"poll", "send", "markPublished", "markFailed"}]
  BY DEF Inv, TypeOK
<1>2. /\ batch' = [batch EXCEPT ![w] = <<>>] /\ pc' = [pc EXCEPT ![w] = "poll"]
      /\ UNCHANGED <<status, retryCount, sent>> /\ faults' \in 0..MaxFaults
  BY DEF crash, Goto, Fault, Inv, TypeOK
<1>3. TypeOK' /\ DeadWhenExhausted'
  <2>1. batch' \in [Workers -> Seq(Claims)]
    BY <1>1, <1>2
  <2> QED BY <1>1, <1>2, <2>1 DEF Inv, TypeOK, DeadWhenExhausted
<1>4. RowInHand' /\ SentFirst'
  BY <1>1, <1>2 DEF Inv, RowInHand, SentFirst, Row
<1>5. ClaimsRecorded'
  <2> SUFFICES ASSUME NEW v \in Workers, NEW i \in 1..Len(batch'[v])
               PROVE status[batch'[v][i].event] # "NONE"
    BY <1>2 DEF ClaimsRecorded
  <2>1. CASE v = w
    BY <1>1, <1>2, <2>1
  <2>2. CASE v # w
    BY <1>1, <1>2, <2>2 DEF Inv, ClaimsRecorded
  <2> QED BY <2>1, <2>2
<1> QED BY <1>3, <1>4, <1>5 DEF Inv

(* Both sweeps make rows PENDING that are neither PUBLISHED nor DEAD. *)
LEMMA SweepInv ==
  ASSUME Inv, NEW S \in SUBSET Events,
         requeueFailedEvents(S) \/ resetStuckProcessingEvents(S)
  PROVE Inv'
<1>1. /\ status' = [e \in Events |-> IF e \in S THEN "PENDING" ELSE status[e]]
      /\ \A e \in S : status[e] \in {"FAILED", "PROCESSING"}
      /\ UNCHANGED <<retryCount, sent, batch, pc>> /\ faults' \in 0..MaxFaults
  BY DEF requeueFailedEvents, retryable, resetStuckProcessingEvents, Fault, Inv, TypeOK
<1>2. TypeOK' /\ DeadWhenExhausted'
  BY <1>1 DEF Inv, TypeOK, DeadWhenExhausted, Status
<1>3. RowInHand' /\ SentFirst'
  BY <1>1 DEF Inv, RowInHand, SentFirst, Row
<1>4. ClaimsRecorded'
  <2> SUFFICES ASSUME NEW v \in Workers, NEW i \in 1..Len(batch[v])
               PROVE status'[batch[v][i].event] # "NONE"
    BY <1>1 DEF ClaimsRecorded
  <2>1. batch[v][i] \in Claims
    BY DEF Inv, TypeOK
  <2>2. batch[v][i].event \in Events
    BY <2>1 DEF Claims
  <2> QED BY <1>1, <2>2 DEF Inv, ClaimsRecorded
<1> QED BY <1>2, <1>3, <1>4 DEF Inv

LEMMA Induction == Inv /\ [Next]_vars => Inv'
<1>1. Inv /\ UNCHANGED vars => Inv'
  BY DEF vars, Inv, TypeOK, RowInHand, ClaimsRecorded, SentFirst, DeadWhenExhausted, Row
<1> QED
  BY <1>1, InsertInv, ClaimInv, PublishInv, PublishedInv, FailedInv, ErrorInv,
     CrashInv, SweepInv
  DEF Next, step

(* Type correctness of the outbox. *)
THEOREM TypeCorrect == Spec => []TypeOK
BY InitInv, Induction, PTL DEF Spec, Inv

(* A row is DEAD exactly when its failures reached the limit: a failure is *)
(* counted once, whichever stale workers report it.                        *)
THEOREM GivenUpAtTheLimit == Spec => []DeadWhenExhausted
BY InitInv, Induction, PTL DEF Spec, Inv

-----------------------------------------------------------------------------
(* Every step of the outbox is a step of EventDelivery, or changes nothing *)
(* it speaks of.                                                           *)
LEMMA StepDelivers ==
  ASSUME Inv, Next
  PROVE Delivery!DeliveryNext \/ UNCHANGED Delivery!deliveryVars
<1> USE DEF Recorded, Sent, Published, Dead, Delivery!deliveryVars
<1>0. /\ status \in [Events -> Status] /\ sent \in [Events -> 0..2]
  BY DEF Inv, TypeOK
<1>1. ASSUME NEW e \in Events, insert(e) PROVE Delivery!Record(e)
  BY <1>0, <1>1 DEF insert, Delivery!Record
<1>2. ASSUME NEW w \in Workers, claimPendingEvents(w) PROVE UNCHANGED Delivery!deliveryVars
  BY <1>0, <1>2 DEF claimPendingEvents, FirstRows, Claimable
<1>3. ASSUME NEW w \in Workers, publishEvent(w)
      PROVE Delivery!Deliver(Row(w).event) \/ UNCHANGED Delivery!deliveryVars
  <2>1. Row(w).event \in Events /\ status[Row(w).event] # "NONE" /\ UNCHANGED status
    BY <1>3, RowTyped DEF publishEvent
  <2>2. CASE AddCopy(Row(w).event)
    <3>1. Sent' = Sent \cup {Row(w).event}
      <4>1. sent[Row(w).event] \in 0..2
        BY <1>0, <2>1
      <4>2. /\ sent'[Row(w).event] > 0
            /\ \A d \in Events : d # Row(w).event => sent'[d] = sent[d]
        BY <1>0, <2>1, <2>2, <4>1 DEF AddCopy
      <4> QED BY <2>1, <4>2
    <3> QED BY <2>1, <3>1 DEF Delivery!Deliver
  <2>3. CASE UNCHANGED sent
    BY <2>1, <2>3
  <2> QED BY <1>3, <2>2, <2>3 DEF publishEvent
<1>4. ASSUME NEW w \in Workers, markPublished(w)
      PROVE Delivery!Close(Row(w).event) \/ UNCHANGED Delivery!deliveryVars
  <2>1. /\ Row(w).event \in Events /\ sent[Row(w).event] > 0 /\ UNCHANGED sent
    BY <1>4, RowTyped DEF markPublished, Inv, SentFirst
  <2>2. CASE status[Row(w).event] = "PROCESSING"
    <3>1. status' = [status EXCEPT ![Row(w).event] = "PUBLISHED"]
      BY <1>4, <2>2 DEF markPublished, inFlight
    <3> QED BY <1>0, <2>1, <2>2, <3>1 DEF Delivery!Close
  <2>3. CASE status[Row(w).event] # "PROCESSING"
    BY <1>4, <2>1, <2>3 DEF markPublished, inFlight
  <2> QED BY <2>2, <2>3
<1>5. ASSUME NEW w \in Workers, markFailed(w)
      PROVE Delivery!GiveUp(Row(w).event) \/ UNCHANGED Delivery!deliveryVars
  <2>1. Row(w).event \in Events /\ UNCHANGED sent
    BY <1>5, RowTyped DEF markFailed
  <2>2. CASE UNCHANGED status
    BY <2>1, <2>2
  <2>3. CASE /\ status[Row(w).event] = "PROCESSING"
             /\ status' = [status EXCEPT ![Row(w).event] = failedStatus(Row(w).retryCount)]
    <3>1. CASE failedStatus(Row(w).retryCount) = "DEAD"
      BY <1>0, <2>1, <2>3, <3>1 DEF Delivery!GiveUp
    <3>2. CASE failedStatus(Row(w).retryCount) = "FAILED"
      BY <1>0, <2>1, <2>3, <3>2
    <3> QED BY <3>1, <3>2 DEF failedStatus
  <2> QED BY <1>5, <2>2, <2>3 DEF markFailed, inFlight
<1>6. ASSUME NEW w \in Workers, databaseError(w) \/ crash(w)
      PROVE UNCHANGED Delivery!deliveryVars
  BY <1>6 DEF databaseError, crash
<1>7. ASSUME NEW S \in SUBSET Events, requeueFailedEvents(S) \/ resetStuckProcessingEvents(S)
      PROVE UNCHANGED Delivery!deliveryVars
  <2>1. /\ status' = [e \in Events |-> IF e \in S THEN "PENDING" ELSE status[e]]
        /\ \A e \in S : status[e] \in {"FAILED", "PROCESSING"} /\ UNCHANGED sent
    BY <1>7 DEF requeueFailedEvents, retryable, resetStuckProcessingEvents
  <2> QED BY <1>0, <2>1, <1>7 DEF requeueFailedEvents, resetStuckProcessingEvents
<1> HIDE DEF Recorded, Sent, Published, Dead, Delivery!deliveryVars
<1>8. ASSUME NEW w \in Workers, step(w)
      PROVE Delivery!DeliveryNext \/ UNCHANGED Delivery!deliveryVars
  <2>1. CASE claimPendingEvents(w)
    BY <1>2, <2>1
  <2>2. CASE publishEvent(w)
    <3>1. Row(w).event \in Events
      BY <2>2, RowTyped DEF publishEvent
    <3> QED BY <1>3, <2>2, <3>1 DEF Delivery!DeliveryNext
  <2>3. CASE markPublished(w)
    <3>1. Row(w).event \in Events
      BY <2>3, RowTyped DEF markPublished
    <3> QED BY <1>4, <2>3, <3>1 DEF Delivery!DeliveryNext
  <2>4. CASE markFailed(w)
    <3>1. Row(w).event \in Events
      BY <2>4, RowTyped DEF markFailed
    <3> QED BY <1>5, <2>4, <3>1 DEF Delivery!DeliveryNext
  <2> QED BY <1>8, <2>1, <2>2, <2>3, <2>4 DEF step
<1>9. ASSUME NEW e \in Events, insert(e) PROVE Delivery!DeliveryNext
  BY <1>1, <1>9 DEF Delivery!DeliveryNext
<1> QED BY <1>6, <1>7, <1>8, <1>9 DEF Next

(* The outbox implements at-least-once delivery. *)
THEOREM DeliversAtLeastOnce == Spec => AtLeastOnce
<1>1. Init => Delivery!DeliveryInit
  BY DEF Init, Delivery!DeliveryInit, Recorded, Sent, Published, Dead
<1>2. Inv /\ [Next]_vars => [Delivery!DeliveryNext]_(Delivery!deliveryVars)
  <2>1. UNCHANGED vars => UNCHANGED Delivery!deliveryVars
    BY DEF vars, Recorded, Sent, Published, Dead, Delivery!deliveryVars
  <2> QED BY <2>1, StepDelivers
<1> QED
  BY <1>1, <1>2, InitInv, Induction, PTL DEF Spec, AtLeastOnce, Delivery!DeliverySpec
=============================================================================
