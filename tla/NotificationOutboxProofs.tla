---------------------- MODULE NotificationOutboxProofs ----------------------
(***************************************************************************)
(* Proofs about NotificationOutbox for every set of deliveries, every      *)
(* finite set of delivery cycles and every limit.                          *)
(*                                                                         *)
(* That the duplicates are explained is a matter of counting.  A delivery  *)
(* may still be accepted once by every cycle that has it in its hands      *)
(* (Active) and once more when a cycle may still claim it (Open).  Only a  *)
(* claim that expires opens a delivery again that a cycle still holds.     *)
(***************************************************************************)
EXTENDS NotificationOutbox, FiniteSetTheorems, TLAPS

(* A cycle that works on a delivery has it off its batch, knows how its send
   ended when it records the outcome, and one that is idle has no batch.     *)
CyclesWellFormed ==
  \A w \in Workers :
    /\ worker[w].pc \in Sending =>
         worker[w].cur \in Deliveries /\ worker[w].cur \notin worker[w].batch
    /\ worker[w].pc \in {"idle", "down"} => worker[w].batch = {}
    /\ worker[w].pc \in {"completing", "unsaved"} => wire[worker[w].cur].accepted > 0
    /\ worker[w].pc = "failing" /\ worker[w].unknown =>
         wire[worker[w].cur].accepted + wire[worker[w].cur].lost > 0

(* The cycles whose next post the webhook may still accept. *)
Active(d) ==
  {w \in Workers : \/ d \in worker[w].batch
                   \/ worker[w].pc \in {"sending", "failing"} /\ worker[w].cur = d}

(* A cycle may claim the delivery, now or when it is queued or due again. *)
Open(d) ==
  IF \/ outbox[d].status \in {"absent", "PENDING", "FAILED"}
     \/ outbox[d].status = "SENDING" /\ outbox[d].claim = "expired"
    THEN 1 ELSE 0

(* What the webhook accepted beyond what the faults of the wire and the
   expired claims account for, and may be asked to accept again.            *)
Level(d) == wire[d].accepted + Open(d) - wire[d].lost - wire[d].lapses

CardsAreAccounted ==
  \A d \in Deliveries : Level(d) + Cardinality(Active(d)) <= 1

Inv ==
  /\ TypeOK
  /\ CyclesWellFormed
  /\ OutcomesAreEarned

RowState ==
  [status : DeliveryStatuses, owner : Workers \cup {Nobody},
   claim : {"none", "live", "expired"}, due : BOOLEAN, attempts : 0 .. AttemptLimit]
CycleState ==
  [pc : {"idle", "batch", "down"} \cup Sending, batch : SUBSET Deliveries,
   cur : Deliveries \cup {Nothing}, tries : 0 .. MaxRetries, unknown : BOOLEAN]
WireState == [posts : Nat, accepted : Nat, lost : Nat, lapses : Nat]

-----------------------------------------------------------------------------
(* What a step does: a cycle, which becomes s, starts the next delivery of its
   batch ...                                                                *)
Starts(w, s) ==
  /\ worker[w].pc = "batch"
  /\ \E d \in worker[w].batch :
       /\ s.pc \in {"sending", "failing"} /\ s.cur = d
       /\ s.batch = worker[w].batch \ {d} /\ ~s.unknown
  /\ UNCHANGED <<outbox, wire>>

(* ... posts it, after which the webhook has seen x of it ... *)
Posts(w, s, x) ==
  LET seen == wire[worker[w].cur] IN
  /\ worker[w].pc = "sending"
  /\ s.cur = worker[w].cur /\ s.batch = worker[w].batch
  /\ x.lapses = seen.lapses
  /\ \/ /\ s.pc = "completing"
        /\ x.accepted = seen.accepted + 1 /\ x.lost = seen.lost
     \/ /\ s.pc \in {"sending", "failing"}
        /\ x.accepted >= seen.accepted /\ x.lost >= seen.lost
        /\ x.accepted - seen.accepted <= x.lost - seen.lost
        /\ s.pc = "failing" /\ s.unknown => x.lost > 0
  /\ wire' = [wire EXCEPT ![worker[w].cur] = x]
  /\ UNCHANGED outbox

(* ... records its outcome in row r ... *)
Records(w, s, r) ==
  /\ worker[w].pc \in {"completing", "unsaved", "failing"}
  /\ Holds(w)
  /\ s.pc = "batch" /\ s.batch = worker[w].batch
  /\ r.status \in {"SENT", "UNKNOWN", "FAILED"}
  /\ r.status = "SENT" => worker[w].pc = "completing"
  /\ r.status = "UNKNOWN" =>
       worker[w].pc = "unsaved" \/ (worker[w].pc = "failing" /\ worker[w].unknown)
  /\ r.status = "FAILED" => worker[w].pc = "failing"
  /\ outbox' = [outbox EXCEPT ![worker[w].cur] = r]
  /\ UNCHANGED wire

(* ... or leaves the rows alone. *)
Leaves(w, s) ==
  /\ \/ s.pc \in {"idle", "down"} /\ s.batch = {}
     \/ s.pc = "batch" /\ s.batch = worker[w].batch
     \/ /\ worker[w].pc = "completing" /\ s.pc = "unsaved"
        /\ s.cur = worker[w].cur /\ s.batch = worker[w].batch
  /\ UNCHANGED <<outbox, wire>>

CycleStep(w, s) ==
  /\ worker' = [worker EXCEPT ![w] = s]
  /\ \/ Starts(w, s)
     \/ worker[w].cur \in Deliveries /\ \E x \in WireState : Posts(w, s, x)
     \/ worker[w].cur \in Deliveries /\ \E r \in RowState : Records(w, s, r)
     \/ Leaves(w, s)

(* The row of a delivery is queued, lapses or becomes due. *)
Background(d, r, x) ==
  /\ \/ outbox[d].status = "absent" /\ r.status = "PENDING" /\ x = wire[d]
     \/ /\ outbox[d].status = "SENDING" /\ outbox[d].claim = "live"
        /\ r.status = "SENDING" /\ r.claim = "expired"
        /\ x.accepted = wire[d].accepted /\ x.lost = wire[d].lost
        /\ x.lapses = wire[d].lapses + 1
     \/ outbox[d].status = "FAILED" /\ r.status = "FAILED" /\ x = wire[d]
  /\ outbox' = [outbox EXCEPT ![d] = r]
  /\ wire' = [wire EXCEPT ![d] = x]
  /\ UNCHANGED worker

(* A cycle claims a batch. *)
Claims(w, s, batch) ==
  /\ worker[w].pc = "idle" /\ s.pc = "batch" /\ s.batch = batch
  /\ \A d \in batch : Claimable(d)
  /\ \A d \in batch : outbox'[d].status = "SENDING" /\ outbox'[d].claim = "live"
  /\ \A d \in Deliveries \ batch : outbox'[d] = outbox[d]
  /\ outbox' \in [Deliveries -> RowState]
  /\ worker' = [worker EXCEPT ![w] = s]
  /\ UNCHANGED wire

Step ==
  \/ UNCHANGED outboxVars
  \/ \E d \in Deliveries, r \in RowState, x \in WireState : Background(d, r, x)
  \/ \E w \in Workers, s \in CycleState, batch \in SUBSET Deliveries : Claims(w, s, batch)
  \/ \E w \in Workers, s \in CycleState : CycleStep(w, s)

LEMMA Typing ==
  ASSUME Inv
  PROVE  /\ outbox \in [Deliveries -> RowState]
         /\ worker \in [Workers -> CycleState]
         /\ wire \in [Deliveries -> WireState]
         /\ \A w \in Workers : worker[w].pc \in Sending => worker[w].cur \in Deliveries
BY DEF Inv, TypeOK, CyclesWellFormed, RowState, CycleState, WireState

LEMMA BackgroundSteps ==
  ASSUME Inv, NEW d \in Deliveries, QueueIntent(d) \/ ClaimExpires(d) \/ RetryDue(d)
  PROVE  Step
<1>1. /\ outbox[d] \in RowState /\ wire[d] \in WireState
      /\ wire = [wire EXCEPT ![d] = wire[d]]
  BY Typing
<1>2. CASE QueueIntent(d)
  <2> DEFINE r == [outbox[d] EXCEPT !.status = "PENDING"]
  <2>1. r \in RowState /\ r.status = "PENDING" /\ outbox' = [outbox EXCEPT ![d] = r]
    BY <1>1, <1>2 DEF QueueIntent, RowState, DeliveryStatuses
  <2> HIDE DEF r
  <2>2. Background(d, r, wire[d])
    BY <1>1, <1>2, <2>1 DEF QueueIntent, Background
  <2>3. QED
    BY <1>1, <2>1, <2>2 DEF Step
<1>3. CASE ClaimExpires(d)
  <2> DEFINE r == [outbox[d] EXCEPT !.claim = "expired"]
             x == [wire[d] EXCEPT !.lapses = @ + 1]
  <2>1. /\ r \in RowState /\ r.status = "SENDING" /\ r.claim = "expired"
        /\ outbox' = [outbox EXCEPT ![d] = r]
    BY <1>1, <1>3 DEF ClaimExpires, RowState
  <2>2. /\ x \in WireState /\ x.lapses = wire[d].lapses + 1
        /\ x.accepted = wire[d].accepted /\ x.lost = wire[d].lost
        /\ wire' = [wire EXCEPT ![d] = x]
    BY <1>1, <1>3 DEF ClaimExpires, WireState
  <2> HIDE DEF r, x
  <2>3. Background(d, r, x)
    BY <1>3, <2>1, <2>2 DEF ClaimExpires, Background
  <2>4. QED
    BY <2>1, <2>2, <2>3 DEF Step
<1>4. CASE RetryDue(d)
  <2> DEFINE r == [outbox[d] EXCEPT !.due = TRUE]
  <2>1. r \in RowState /\ r.status = "FAILED" /\ outbox' = [outbox EXCEPT ![d] = r]
    BY <1>1, <1>4 DEF RetryDue, RowState
  <2> HIDE DEF r
  <2>2. Background(d, r, wire[d])
    BY <1>1, <1>4, <2>1 DEF RetryDue, Background
  <2>3. QED
    BY <1>1, <2>1, <2>2 DEF Step
<1>5. QED
  BY <1>2, <1>3, <1>4

LEMMA ClaimSteps ==
  ASSUME Inv, NEW w \in Workers, ClaimBatch(w)
  PROVE  Step
<1>1. PICK batch \in SUBSET {d \in Deliveries : Claimable(d)} :
        /\ outbox' = [d \in Deliveries |->
                     IF d \in batch
                       THEN [outbox[d] EXCEPT !.status = "SENDING", !.owner = w,
                                           !.claim = "live", !.attempts = @ + 1]
                       ELSE outbox[d]]
        /\ worker' = [worker EXCEPT ![w].pc = "batch", ![w].batch = batch]
  BY DEF ClaimBatch
<1> DEFINE s == [worker[w] EXCEPT !.pc = "batch", !.batch = batch]
<1>2. /\ s \in CycleState /\ s.pc = "batch" /\ s.batch = batch
      /\ worker' = [worker EXCEPT ![w] = s]
  BY <1>1, Typing DEF CycleState
<1> HIDE DEF s
<1>3. ASSUME NEW d \in batch
      PROVE  /\ outbox'[d] \in RowState
             /\ outbox'[d].status = "SENDING" /\ outbox'[d].claim = "live"
  <2>1. outbox[d] \in RowState /\ outbox[d].attempts + 1 \in 0 .. AttemptLimit
    BY <1>3, Typing, OutboxAssumption DEF Claimable, RowState
  <2>2. outbox'[d] = [outbox[d] EXCEPT !.status = "SENDING", !.owner = w,
                                    !.claim = "live", !.attempts = @ + 1]
    BY <1>1, <1>3
  <2>3. QED
    BY <2>1, <2>2 DEF RowState, DeliveryStatuses
<1>4. \A d \in Deliveries \ batch : outbox'[d] = outbox[d]
  BY <1>1
<1>5. outbox' \in [Deliveries -> RowState]
  <2>1. \A d \in Deliveries : outbox'[d] \in RowState
    BY <1>3, <1>4, Typing
  <2>2. QED
    BY <1>1, <2>1
<1>6. Claims(w, s, batch)
  BY <1>1, <1>2, <1>3, <1>4, <1>5 DEF Claims, ClaimBatch
<1>7. QED
  BY <1>1, <1>2, <1>6 DEF Step

LEMMA PostSteps ==
  ASSUME Inv, NEW w \in Workers,
         PostAccepted(w) \/ PostRejected(w) \/ PostUnclear(w) \/ PostUnanswered(w)
  PROVE  Step
<1> DEFINE d == worker[w].cur
<1>1. /\ d \in Deliveries /\ worker[w] \in CycleState /\ wire[d] \in WireState
      /\ worker[w].pc = "sending"
  BY Typing DEF Sending, PostAccepted, PostRejected, PostUnclear, PostUnanswered
<1>2. /\ wire[d].posts \in Nat /\ wire[d].accepted \in Nat
      /\ wire[d].lost \in Nat /\ wire[d].lapses \in Nat
  BY <1>1 DEF WireState
<1>3. \A label \in {"completing", "failing"}, u \in BOOLEAN :
        LET s == [worker[w] EXCEPT !.pc = label, !.unknown = u]
        IN  /\ s \in CycleState /\ s.pc = label /\ s.unknown = u
            /\ s.cur = d /\ s.batch = worker[w].batch
  BY <1>1 DEF CycleState, Sending
<1> HIDE DEF d
<1>4. CASE PostAccepted(w)
  <2> DEFINE x == [wire[d] EXCEPT !.posts = @ + 1, !.accepted = @ + 1]
             s == [worker[w] EXCEPT !.pc = "completing"]
  <2>1. /\ x \in WireState /\ x.lapses = wire[d].lapses
        /\ x.lost = wire[d].lost /\ x.accepted = wire[d].accepted + 1
    <3>1. wire[d].posts + 1 \in Nat /\ wire[d].accepted + 1 \in Nat
      BY <1>2
    <3>2. QED
      BY <1>1, <3>1 DEF WireState
  <2>2. wire' = [wire EXCEPT ![d] = x]
    BY <1>4 DEF PostAccepted, d
  <2>3. /\ s \in CycleState /\ s.pc = "completing" /\ s.cur = d
        /\ s.batch = worker[w].batch /\ worker' = [worker EXCEPT ![w] = s]
    BY <1>1, <1>4 DEF PostAccepted, CycleState, Sending, d
  <2> HIDE DEF x, s
  <2>4. Posts(w, s, x)
    BY <1>4, <2>1, <2>2, <2>3 DEF Posts, PostAccepted, d
  <2>5. QED
    BY <1>1, <2>1, <2>3, <2>4 DEF Step, CycleStep, d
<1>5. CASE PostRejected(w)
  <2> DEFINE x == [wire[d] EXCEPT !.posts = @ + 1]
             s == [worker[w] EXCEPT !.pc = "failing", !.unknown = FALSE]
  <2>1. /\ x \in WireState /\ x.lapses = wire[d].lapses
        /\ x.lost = wire[d].lost /\ x.accepted = wire[d].accepted
    BY <1>1, <1>2 DEF WireState
  <2>2. wire' = [wire EXCEPT ![d] = x]
    BY <1>5 DEF PostRejected, d
  <2>3. /\ s \in CycleState /\ s.pc = "failing" /\ s.unknown = FALSE /\ s.cur = d
        /\ s.batch = worker[w].batch /\ worker' = [worker EXCEPT ![w] = s]
    BY <1>3, <1>5 DEF PostRejected
  <2> HIDE DEF x, s
  <2>4. /\ x.accepted >= wire[d].accepted /\ x.lost >= wire[d].lost
        /\ x.accepted - wire[d].accepted <= x.lost - wire[d].lost
        /\ ~(s.pc = "failing" /\ s.unknown)
    BY <1>2, <2>1, <2>3
  <2>5. Posts(w, s, x)
    BY <1>1, <1>5, <2>1, <2>2, <2>3, <2>4 DEF Posts, PostRejected, d
  <2>6. QED
    BY <1>1, <2>1, <2>3, <2>5 DEF Step, CycleStep, d
<1>6. ASSUME NEW m \in {0, 1}, UNCHANGED outbox,
             wire' = [wire EXCEPT ![d].posts = @ + 1, ![d].lost = @ + 1,
                                  ![d].accepted = @ + m],
             NEW s \in CycleState, worker' = [worker EXCEPT ![w] = s],
             s.pc \in {"sending", "failing"}, s.cur = d, s.batch = worker[w].batch
      PROVE  Step
  <2> DEFINE x == [wire[d] EXCEPT !.posts = @ + 1, !.lost = @ + 1, !.accepted = @ + m]
  <2>1. /\ x \in WireState /\ x.lapses = wire[d].lapses
        /\ x.lost = wire[d].lost + 1 /\ x.accepted = wire[d].accepted + m
    <3>1. /\ wire[d].posts + 1 \in Nat /\ wire[d].lost + 1 \in Nat
          /\ wire[d].accepted + m \in Nat
      BY <1>2
    <3>2. QED
      BY <1>1, <3>1 DEF WireState
  <2>2. wire' = [wire EXCEPT ![d] = x]
    BY <1>6
  <2> HIDE DEF x
  <2>3. /\ x.accepted >= wire[d].accepted /\ x.lost >= wire[d].lost /\ x.lost > 0
        /\ x.accepted - wire[d].accepted <= x.lost - wire[d].lost
    BY <1>2, <2>1
  <2>4. Posts(w, s, x)
    BY <1>1, <1>6, <2>1, <2>2, <2>3 DEF Posts, d
  <2>5. QED
    BY <1>1, <1>6, <2>1, <2>4 DEF Step, CycleStep, d
<1>7. CASE PostUnclear(w)
  <2> DEFINE s == [worker[w] EXCEPT !.pc = "failing", !.unknown = FALSE]
  <2>1. /\ s \in CycleState /\ s.pc = "failing" /\ s.cur = d
        /\ s.batch = worker[w].batch /\ worker' = [worker EXCEPT ![w] = s]
    BY <1>3, <1>7 DEF PostUnclear
  <2> HIDE DEF s
  <2>2. QED
    BY <1>6, <1>7, <2>1 DEF PostUnclear, d
<1>8. CASE PostUnanswered(w)
  <2>1. CASE RetriesLeft(w)
    <3> DEFINE s == [worker[w] EXCEPT !.tries = @ + 1]
    <3>1. worker[w].tries + 1 \in 0 .. MaxRetries
      BY <1>1, <2>1, OutboxAssumption DEF RetriesLeft, CycleState
    <3>2. /\ s \in CycleState /\ s.pc = "sending" /\ s.cur = d
          /\ s.batch = worker[w].batch /\ worker' = [worker EXCEPT ![w] = s]
      BY <1>1, <1>8, <2>1, <3>1 DEF PostUnanswered, CycleState, d
    <3> HIDE DEF s
    <3>3. QED
      BY <1>6, <1>8, <3>2 DEF PostUnanswered, d
  <2>2. CASE ~RetriesLeft(w)
    <3> DEFINE s == [worker[w] EXCEPT !.pc = "failing", !.unknown = TRUE]
    <3>1. /\ s \in CycleState /\ s.pc = "failing" /\ s.cur = d
          /\ s.batch = worker[w].batch /\ worker' = [worker EXCEPT ![w] = s]
      BY <1>3, <1>8, <2>2 DEF PostUnanswered
    <3> HIDE DEF s
    <3>2. QED
      BY <1>6, <1>8, <3>1 DEF PostUnanswered, d
  <2>3. QED
    BY <2>1, <2>2
<1>9. QED
  BY <1>4, <1>5, <1>7, <1>8

LEMMA RecordSteps ==
  ASSUME Inv, NEW w \in Workers,
         Complete(w) \/ RecordUnsaved(w) \/ RecordFailure(w)
  PROVE  Step
<1> DEFINE d == worker[w].cur
           next == [worker[w] EXCEPT !.pc = "batch", !.cur = Nothing]
           r(status) == [outbox[d] EXCEPT !.status = status, !.owner = Nobody,
                                       !.claim = "none", !.due = FALSE]
<1>1. /\ d \in Deliveries /\ worker[w] \in CycleState /\ outbox[d] \in RowState
      /\ outbox \in [Deliveries -> RowState] /\ worker \in [Workers -> CycleState]
  BY Typing DEF Sending, Complete, RecordUnsaved, RecordFailure
<1>2. /\ next \in CycleState /\ next.pc = "batch" /\ next.batch = worker[w].batch
      /\ NextInBatch(w) => worker' = [worker EXCEPT ![w] = next]
  BY <1>1 DEF CycleState, NextInBatch
<1>3. \A status \in {"SENT", "UNKNOWN", "FAILED"} :
        /\ r(status) \in RowState /\ r(status).status = status
        /\ Recorded(w, status) => outbox' = [outbox EXCEPT ![d] = r(status)]
  BY <1>1 DEF RowState, DeliveryStatuses, Recorded
<1> HIDE DEF next, r, d
<1>4. ASSUME NEW status \in {"SENT", "UNKNOWN", "FAILED"}, Holds(w),
             Recorded(w, status), NextInBatch(w), UNCHANGED wire,
             worker[w].pc \in {"completing", "unsaved", "failing"},
             status = "SENT" => worker[w].pc = "completing",
             status = "UNKNOWN" =>
               worker[w].pc = "unsaved" \/ (worker[w].pc = "failing" /\ worker[w].unknown),
             status = "FAILED" => worker[w].pc = "failing"
      PROVE  Step
  <2>1. Records(w, next, r(status))
    BY <1>2, <1>3, <1>4 DEF Records, d
  <2>2. QED
    BY <1>1, <1>2, <1>3, <1>4, <2>1 DEF Step, CycleStep, d
<1>5. ASSUME NEW s \in CycleState, worker' = [worker EXCEPT ![w] = s], Leaves(w, s)
      PROVE  Step
  BY <1>5 DEF Step, CycleStep
<1>6. CASE Complete(w)
  <2>1. CASE Holds(w) /\ Recorded(w, "SENT") /\ NextInBatch(w)
    BY <1>4, <1>6, <2>1 DEF Complete
  <2>2. CASE worker' = [worker EXCEPT ![w].pc = "unsaved"] /\ UNCHANGED outbox
    <3> DEFINE s == [worker[w] EXCEPT !.pc = "unsaved"]
    <3>1. /\ s \in CycleState /\ s.pc = "unsaved" /\ s.cur = worker[w].cur
          /\ s.batch = worker[w].batch /\ worker' = [worker EXCEPT ![w] = s]
      BY <1>1, <2>2 DEF CycleState, Sending
    <3> HIDE DEF s
    <3>2. Leaves(w, s)
      BY <1>6, <2>2, <3>1 DEF Leaves, Complete
    <3>3. QED
      BY <1>5, <3>1, <3>2
  <2>3. QED
    BY <1>6, <2>1, <2>2 DEF Complete
<1>7. CASE RecordUnsaved(w)
  <2>1. CASE Holds(w) /\ Recorded(w, "UNKNOWN")
    BY <1>4, <1>7, <2>1 DEF RecordUnsaved
  <2>2. CASE UNCHANGED outbox
    <3>1. Leaves(w, next)
      BY <1>2, <1>7, <2>2 DEF Leaves, RecordUnsaved
    <3>2. QED
      BY <1>2, <1>5, <1>7, <3>1 DEF RecordUnsaved
  <2>3. QED
    BY <1>7, <2>1, <2>2 DEF RecordUnsaved
<1>8. CASE RecordFailure(w)
  <2>1. CASE Holds(w) /\ NextInBatch(w)
             /\ Recorded(w, IF worker[w].unknown THEN "UNKNOWN" ELSE "FAILED")
    <3>1. CASE worker[w].unknown
      BY <1>4, <1>8, <2>1, <3>1 DEF RecordFailure
    <3>2. CASE ~worker[w].unknown
      BY <1>4, <1>8, <2>1, <3>2 DEF RecordFailure
    <3>3. QED
      BY <3>1, <3>2
  <2>2. CASE worker' = [worker EXCEPT ![w] = IdleWorker] /\ UNCHANGED outbox
    <3>1. IdleWorker \in CycleState /\ IdleWorker.pc = "idle" /\ IdleWorker.batch = {}
      BY OutboxAssumption DEF IdleWorker, CycleState
    <3>2. Leaves(w, IdleWorker)
      BY <1>8, <2>2, <3>1 DEF Leaves, RecordFailure
    <3>3. QED
      BY <1>5, <2>2, <3>1, <3>2
  <2>3. QED
    BY <1>8, <2>1, <2>2 DEF RecordFailure
<1>9. QED
  BY <1>6, <1>7, <1>8

LEMMA Steps ==
  ASSUME Inv, [OutboxNext]_outboxVars
  PROVE  Step
<1>1. IdleWorker \in CycleState /\ IdleWorker.pc = "idle" /\ IdleWorker.batch = {}
  BY OutboxAssumption DEF IdleWorker, CycleState
<1>2. ASSUME NEW w \in Workers, EndCycle(w) \/ CycleRestart(w)
      PROVE  Step
  <2>1. Leaves(w, IdleWorker) /\ worker' = [worker EXCEPT ![w] = IdleWorker]
    BY <1>1, <1>2 DEF EndCycle, CycleRestart, Leaves
  <2>2. QED
    BY <1>1, <2>1 DEF Step, CycleStep
<1>3. ASSUME NEW w \in Workers, CycleCrash(w)
      PROVE  Step
  <2> DEFINE s == [IdleWorker EXCEPT !.pc = "down"]
  <2>1. s \in CycleState /\ s.pc = "down" /\ s.batch = {}
    BY <1>1 DEF CycleState
  <2>2. worker' = [worker EXCEPT ![w] = s] /\ UNCHANGED <<outbox, wire>>
    BY <1>3 DEF CycleCrash
  <2> HIDE DEF s
  <2>3. QED
    BY <2>1, <2>2 DEF Leaves, Step, CycleStep
<1>4. ASSUME NEW w \in Workers, NextDelivery(w)
      PROVE  Step
  <2>1. PICK d \in worker[w].batch :
          worker' = [worker EXCEPT ![w].pc = IF d \in Invalid THEN "failing" ELSE "sending",
                                   ![w].batch = @ \ {d}, ![w].cur = d,
                                   ![w].tries = 0, ![w].unknown = FALSE]
    BY <1>4 DEF NextDelivery
  <2> DEFINE label == IF d \in Invalid THEN "failing" ELSE "sending"
  <2>2. label \in {"failing", "sending"}
    OBVIOUS
  <2> HIDE DEF label
  <2> DEFINE s == [worker[w] EXCEPT !.pc = label, !.batch = @ \ {d}, !.cur = d,
                                    !.tries = 0, !.unknown = FALSE]
  <2>3. worker[w] \in CycleState /\ worker \in [Workers -> CycleState]
    BY Typing
  <2>4. d \in Deliveries /\ worker[w].batch \ {d} \in SUBSET Deliveries
    BY <2>3 DEF CycleState
  <2>5. /\ s \in CycleState /\ s.pc = label /\ s.batch = worker[w].batch \ {d}
        /\ s.cur = d /\ s.unknown = FALSE
    <3>1. label \in {"idle", "batch", "down"} \cup Sending /\ 0 \in 0 .. MaxRetries
      BY <2>2, OutboxAssumption DEF Sending
    <3>2. QED
      BY <2>3, <2>4, <3>1 DEF CycleState
  <2>6. worker' = [worker EXCEPT ![w] = s]
    BY <2>1 DEF label
  <2> HIDE DEF s
  <2>7. Starts(w, s)
    BY <1>4, <2>2, <2>5 DEF Starts, NextDelivery
  <2>8. QED
    BY <2>5, <2>6, <2>7 DEF Step, CycleStep
<1>5. CASE UNCHANGED outboxVars
  BY <1>5 DEF Step
<1>6. QED
  BY <1>2, <1>3, <1>4, <1>5, BackgroundSteps, ClaimSteps, PostSteps, RecordSteps
     DEF OutboxNext, Deliver

-----------------------------------------------------------------------------
LEMMA InitInv == OutboxInit => Inv
<1> SUFFICES ASSUME OutboxInit
             PROVE  Inv
  OBVIOUS
<1>1. TypeOK
  BY OutboxAssumption DEF OutboxInit, TypeOK, IdleWorker, DeliveryStatuses
<1>2. CyclesWellFormed /\ OutcomesAreEarned
  BY DEF OutboxInit, CyclesWellFormed, OutcomesAreEarned, IdleWorker, Sending
<1>3. QED
  BY <1>1, <1>2 DEF Inv


-----------------------------------------------------------------------------
(* A step keeps the types, and the webhook only adds to what it has seen. *)
LEMMA StepTyped ==
  ASSUME Inv, Step
  PROVE  /\ TypeOK'
         /\ \A d \in Deliveries : /\ wire'[d].accepted >= wire[d].accepted
                                  /\ wire'[d].lost >= wire[d].lost
<1>1. /\ outbox \in [Deliveries -> RowState] /\ worker \in [Workers -> CycleState]
      /\ wire \in [Deliveries -> WireState]
  BY Typing
<1>2. \A d \in Deliveries : wire[d].accepted \in Nat /\ wire[d].lost \in Nat
  BY <1>1 DEF WireState
<1>3. TypeOK' <=> /\ outbox' \in [Deliveries -> RowState]
                  /\ worker' \in [Workers -> CycleState]
                  /\ wire' \in [Deliveries -> WireState]
  BY DEF TypeOK, RowState, CycleState, WireState
<1>4. CASE UNCHANGED outboxVars
  BY <1>1, <1>2, <1>3, <1>4 DEF outboxVars
<1>5. ASSUME NEW d \in Deliveries, NEW r \in RowState, NEW x \in WireState,
             Background(d, r, x)
      PROVE  /\ TypeOK'
             /\ \A e \in Deliveries : /\ wire'[e].accepted >= wire[e].accepted
                                      /\ wire'[e].lost >= wire[e].lost
  BY <1>1, <1>2, <1>3, <1>5 DEF Background
<1>6. ASSUME NEW w \in Workers, NEW s \in CycleState, NEW batch \in SUBSET Deliveries,
             Claims(w, s, batch)
      PROVE  /\ TypeOK'
             /\ \A d \in Deliveries : /\ wire'[d].accepted >= wire[d].accepted
                                      /\ wire'[d].lost >= wire[d].lost
  BY <1>1, <1>2, <1>3, <1>6 DEF Claims
<1>7. ASSUME NEW w \in Workers, NEW s \in CycleState, CycleStep(w, s)
      PROVE  /\ TypeOK'
             /\ \A d \in Deliveries : /\ wire'[d].accepted >= wire[d].accepted
                                      /\ wire'[d].lost >= wire[d].lost
  <2>1. worker' \in [Workers -> CycleState]
    BY <1>1, <1>7 DEF CycleStep
  <2>2. CASE Starts(w, s) \/ Leaves(w, s)
    BY <1>1, <1>2, <1>3, <2>1, <2>2 DEF Starts, Leaves
  <2>3. CASE worker[w].cur \in Deliveries /\ \E x \in WireState : Posts(w, s, x)
    BY <1>1, <1>2, <1>3, <2>1, <2>3 DEF Posts
  <2>4. CASE worker[w].cur \in Deliveries /\ \E r \in RowState : Records(w, s, r)
    BY <1>1, <1>2, <1>3, <2>1, <2>4 DEF Records
  <2>5. QED
    BY <1>7, <2>2, <2>3, <2>4 DEF CycleStep
<1>8. QED
  BY <1>4, <1>5, <1>6, <1>7 DEF Step

LEMMA CyclesPreserved ==
  ASSUME Inv, Step
  PROVE  CyclesWellFormed'
<1>1. /\ worker \in [Workers -> CycleState] /\ wire \in [Deliveries -> WireState]
      /\ \A d \in Deliveries : /\ wire'[d].accepted >= wire[d].accepted
                               /\ wire'[d].lost >= wire[d].lost
      /\ \A d \in Deliveries : /\ wire[d].accepted \in Nat /\ wire[d].lost \in Nat
                               /\ wire'[d].accepted \in Nat /\ wire'[d].lost \in Nat
  BY Typing, StepTyped DEF TypeOK, WireState
<1> DEFINE Fine(s) ==
             /\ s.pc \in Sending => s.cur \in Deliveries /\ s.cur \notin s.batch
             /\ s.pc \in {"idle", "down"} => s.batch = {}
             /\ s.pc \in {"completing", "unsaved"} => wire'[s.cur].accepted > 0
             /\ s.pc = "failing" /\ s.unknown =>
                  wire'[s.cur].accepted + wire'[s.cur].lost > 0
<1>2. ASSUME NEW w \in Workers
      PROVE  Fine(worker[w])
  BY <1>1 DEF Inv, CyclesWellFormed, Sending
<1>3. CASE UNCHANGED worker
  BY <1>2, <1>3 DEF CyclesWellFormed
<1>4. ASSUME NEW w \in Workers, NEW s \in CycleState,
             worker' = [worker EXCEPT ![w] = s], Fine(s)
      PROVE  CyclesWellFormed'
  <2>1. \A v \in Workers : worker'[v] = IF v = w THEN s ELSE worker[v]
    BY <1>1, <1>4
  <2> HIDE DEF Fine
  <2>2. \A v \in Workers : Fine(worker'[v])
    BY <1>2, <1>4, <2>1
  <2>3. QED
    BY <2>2 DEF CyclesWellFormed, Fine
<1>5. ASSUME NEW w \in Workers, NEW s \in CycleState, NEW batch \in SUBSET Deliveries,
             Claims(w, s, batch)
      PROVE  CyclesWellFormed'
  <2>1. Fine(s)
    BY <1>5 DEF Claims, Sending
  <2>2. QED
    BY <1>4, <1>5, <2>1 DEF Claims
<1>6. ASSUME NEW w \in Workers, NEW s \in CycleState, CycleStep(w, s)
      PROVE  CyclesWellFormed'
  <2>1. CASE Starts(w, s)
    <3>1. worker[w].batch \subseteq Deliveries
      BY <1>1 DEF CycleState
    <3>2. Fine(s)
      BY <2>1, <3>1 DEF Starts, Sending
    <3>3. QED
      BY <1>4, <1>6, <3>2 DEF CycleStep
  <2>2. ASSUME worker[w].cur \in Deliveries, NEW x \in WireState, Posts(w, s, x)
        PROVE  CyclesWellFormed'
    <3> DEFINE d == worker[w].cur
    <3>1. d \notin worker[w].batch
      BY <1>2, <2>2 DEF Posts, Sending
    <3>2. wire'[d] = x /\ x.accepted \in Nat /\ x.lost \in Nat
      BY <1>1, <2>2 DEF Posts, WireState
    <3>3. /\ s.pc = "completing" => x.accepted > 0
          /\ s.pc = "failing" /\ s.unknown => x.lost > 0
          /\ s.pc \in {"completing", "sending", "failing"}
          /\ s.cur = d /\ s.batch = worker[w].batch
      BY <1>1, <2>2 DEF Posts
    <3>4. x.lost > 0 => x.accepted + x.lost > 0
      BY <3>2
    <3>5. Fine(s)
      BY <2>2, <3>1, <3>2, <3>3, <3>4 DEF Sending
    <3>6. QED
      BY <1>4, <1>6, <3>5 DEF CycleStep
  <2>3. CASE \E r \in RowState : Records(w, s, r)
    <3>1. Fine(s)
      BY <2>3 DEF Records, Sending
    <3>2. QED
      BY <1>4, <1>6, <3>1 DEF CycleStep
  <2>4. CASE Leaves(w, s)
    <3>1. ASSUME worker[w].pc = "completing", s.pc = "unsaved",
                 s.cur = worker[w].cur, s.batch = worker[w].batch
          PROVE  Fine(s)
      BY <1>2, <3>1 DEF Sending
    <3>2. ASSUME (s.pc \in {"idle", "down"} /\ s.batch = {}) \/ s.pc = "batch"
          PROVE  Fine(s)
      BY <3>2 DEF Sending
    <3>3. Fine(s)
      BY <2>4, <3>1, <3>2 DEF Leaves
    <3>4. QED
      BY <1>4, <1>6, <3>3 DEF CycleStep
  <2>5. QED
    BY <1>6, <2>1, <2>2, <2>3, <2>4 DEF CycleStep
<1>7. QED
  BY <1>3, <1>5, <1>6 DEF Step, Background, outboxVars

LEMMA OutcomesPreserved ==
  ASSUME Inv, Step
  PROVE  OutcomesAreEarned'
<1>1. /\ outbox \in [Deliveries -> RowState]
      /\ \A d \in Deliveries : /\ wire'[d].accepted >= wire[d].accepted
                               /\ wire'[d].lost >= wire[d].lost
      /\ \A d \in Deliveries : /\ wire[d].accepted \in Nat /\ wire[d].lost \in Nat
                               /\ wire'[d].accepted \in Nat /\ wire'[d].lost \in Nat
  BY Typing, StepTyped DEF TypeOK, WireState
<1>2. \A d \in Deliveries :
        /\ outbox[d].status = "SENT" => wire'[d].accepted > 0
        /\ outbox[d].status = "UNKNOWN" => wire'[d].accepted + wire'[d].lost > 0
  BY <1>1 DEF Inv, OutcomesAreEarned
<1>3. CASE UNCHANGED outbox
  BY <1>2, <1>3 DEF OutcomesAreEarned
<1>4. ASSUME NEW d \in Deliveries, NEW r \in RowState, NEW x \in WireState,
             Background(d, r, x)
      PROVE  OutcomesAreEarned'
  BY <1>1, <1>2, <1>4 DEF Background, OutcomesAreEarned
<1>5. ASSUME NEW w \in Workers, NEW s \in CycleState, NEW batch \in SUBSET Deliveries,
             Claims(w, s, batch)
      PROVE  OutcomesAreEarned'
  BY <1>1, <1>2, <1>5 DEF Claims, OutcomesAreEarned
<1>6. ASSUME NEW w \in Workers, NEW s, worker[w].cur \in Deliveries,
             NEW r \in RowState, Records(w, s, r)
      PROVE  OutcomesAreEarned'
  <2> DEFINE d == worker[w].cur
  <2>1. wire' = wire /\ \A e \in Deliveries : outbox'[e] = IF e = d THEN r ELSE outbox[e]
    BY <1>1, <1>6 DEF Records
  <2>2. /\ r.status = "SENT" => wire[d].accepted > 0
        /\ r.status = "UNKNOWN" => wire[d].accepted + wire[d].lost > 0
    BY <1>1, <1>6 DEF Records, Inv, CyclesWellFormed
  <2>3. QED
    BY <1>2, <2>1, <2>2 DEF OutcomesAreEarned
<1>7. QED
  BY <1>3, <1>4, <1>5, <1>6 DEF Step, CycleStep, Starts, Posts, Leaves, outboxVars

LEMMA NextInv == Inv /\ [OutboxNext]_outboxVars => Inv'
BY Steps, StepTyped, CyclesPreserved, OutcomesPreserved DEF Inv

THEOREM SpecInv == OutboxSpec => []Inv
BY InitInv, NextInv, PTL DEF OutboxSpec

(* A delivery is only ever recorded as SENT when the webhook accepted it, and
   as UNKNOWN when a post of it may have been accepted, whichever cycle wrote
   the record and however many had claimed the delivery before.             *)
THEOREM SpecOutcomesAreEarned == OutboxSpec => []OutcomesAreEarned
<1>1. Inv => OutcomesAreEarned
  BY DEF Inv
<1>2. QED
  BY <1>1, SpecInv, PTL

-----------------------------------------------------------------------------
(* SENT and UNKNOWN are final: a stale cycle, a lapsed claim or a second
   worker never reopens them.                                               *)
THEOREM SpecOutcomesAreFinal == OutboxSpec => OutcomesAreFinal
<1>1. ASSUME Inv, Step, NEW d \in Deliveries, outbox[d].status \in {"SENT", "UNKNOWN"}
      PROVE  outbox'[d] = outbox[d]
  <2>1. outbox \in [Deliveries -> RowState]
    BY <1>1, Typing
  <2>2. CASE UNCHANGED outbox
    BY <2>2
  <2>3. CASE \E e \in Deliveries, r \in RowState, x \in WireState : Background(e, r, x)
    BY <1>1, <2>1, <2>3 DEF Background
  <2>4. CASE \E w \in Workers, s \in CycleState, batch \in SUBSET Deliveries :
               Claims(w, s, batch)
    BY <1>1, <2>4 DEF Claims, Claimable
  <2>5. CASE \E w \in Workers, s \in CycleState, r \in RowState : Records(w, s, r)
    BY <1>1, <2>1, <2>5 DEF Records, Holds
  <2>6. QED
    BY <1>1, <2>2, <2>3, <2>4, <2>5 DEF Step, CycleStep, Starts, Posts, Leaves, outboxVars
<1>2. Inv /\ [OutboxNext]_outboxVars
        => [\A d \in Deliveries :
              outbox[d].status \in {"SENT", "UNKNOWN"} => outbox'[d] = outbox[d]]_outboxVars
  BY <1>1, Steps
<1>3. QED
  BY <1>2, SpecInv, PTL DEF OutboxSpec, OutcomesAreFinal

(* Only the cycle whose claim is on the row ends the sending of a delivery. *)
THEOREM SpecOnlyHolderRecords == OutboxSpec => OnlyHolderRecords
<1>1. ASSUME Inv, Step, NEW d \in Deliveries,
             outbox[d].status = "SENDING", outbox'[d].status # "SENDING"
      PROVE  \E w \in Workers : /\ worker[w].cur = d /\ outbox[d].owner = w
                                /\ worker'[w] # worker[w]
  <2>1. outbox \in [Deliveries -> RowState] /\ worker \in [Workers -> CycleState]
    BY <1>1, Typing
  <2>2. CASE \E e \in Deliveries, r \in RowState, x \in WireState : Background(e, r, x)
    BY <1>1, <2>1, <2>2 DEF Background
  <2>3. CASE \E w \in Workers, s \in CycleState, batch \in SUBSET Deliveries :
               Claims(w, s, batch)
    BY <1>1, <2>3 DEF Claims
  <2>4. ASSUME NEW w \in Workers, NEW s \in CycleState, NEW r \in RowState,
               worker' = [worker EXCEPT ![w] = s], Records(w, s, r)
        PROVE  worker[w].cur = d /\ outbox[d].owner = w /\ worker'[w] # worker[w]
    <3>1. worker[w].cur = d
      BY <1>1, <2>1, <2>4 DEF Records
    <3>2. worker'[w] = s /\ s.pc # worker[w].pc
      BY <2>1, <2>4 DEF Records
    <3>3. QED
      BY <2>4, <3>1, <3>2 DEF Records, Holds
  <2>5. QED
    BY <1>1, <2>2, <2>3, <2>4 DEF Step, CycleStep, Starts, Posts, Leaves, outboxVars
<1>2. Inv /\ [OutboxNext]_outboxVars
        => [\A d \in Deliveries :
              outbox[d].status = "SENDING" /\ outbox'[d].status # "SENDING" =>
                \E w \in Workers : /\ worker[w].cur = d /\ outbox[d].owner = w
                                   /\ worker'[w] # worker[w]]_outboxVars
  BY <1>1, Steps
<1>3. QED
  BY <1>2, SpecInv, PTL DEF OutboxSpec, OnlyHolderRecords

-----------------------------------------------------------------------------
(* The cards.  A step moves one cycle into or out of the active ones of a
   delivery and the level by as much the other way.                         *)
Balanced(d) ==
  \/ Active(d)' \subseteq Active(d) /\ Level(d)' <= Level(d)
  \/ \E w \in Active(d) : Active(d)' = Active(d) \ {w} /\ Level(d)' <= Level(d) + 1
  \/ \E w \in Workers \ Active(d) :
       Active(d)' = Active(d) \cup {w} /\ Level(d)' <= Level(d) - 1

LEMMA LevelType ==
  ASSUME Inv
  PROVE  \A d \in Deliveries : Level(d) \in Int
<1>1. \A d \in Deliveries : /\ wire[d].accepted \in Nat /\ wire[d].lost \in Nat
                           /\ wire[d].lapses \in Nat
  BY Typing DEF WireState
<1>2. QED
  BY <1>1 DEF Level, Open

LEMMA BalanceKept ==
  ASSUME IsFiniteSet(Workers), Inv, Inv', CardsAreAccounted,
         \A d \in Deliveries : Balanced(d)
  PROVE  CardsAreAccounted'
<1> SUFFICES ASSUME NEW d \in Deliveries
             PROVE  Level(d)' + Cardinality(Active(d)') <= 1
  BY DEF CardsAreAccounted
<1>1. /\ IsFiniteSet(Active(d)) /\ IsFiniteSet(Active(d)')
      /\ Cardinality(Active(d)) \in Nat /\ Cardinality(Active(d)') \in Nat
  BY FS_Subset, FS_CardinalityType DEF Active
<1>2. Level(d) \in Int /\ Level(d)' \in Int
  <2>1. \A e \in Deliveries : /\ wire'[e].accepted \in Nat /\ wire'[e].lost \in Nat
                             /\ wire'[e].lapses \in Nat
    BY DEF Inv, TypeOK
  <2>2. QED
    BY <2>1, LevelType DEF Level, Open
<1>3. Level(d) + Cardinality(Active(d)) <= 1
  BY DEF CardsAreAccounted
<1> DEFINE before == Active(d)
           after == Active(d)'
<1>4. CASE after \subseteq before /\ Level(d)' <= Level(d)
  <2>1. Cardinality(after) <= Cardinality(before)
    BY <1>1, <1>4, FS_Subset
  <2>2. QED
    BY <1>1, <1>2, <1>3, <1>4, <2>1
<1>5. ASSUME NEW w \in before, after = before \ {w}, Level(d)' <= Level(d) + 1
      PROVE  Level(d)' + Cardinality(after) <= 1
  <2>1. Cardinality(after) = Cardinality(before) - 1
    BY <1>1, <1>5, FS_RemoveElement
  <2>2. QED
    BY <1>1, <1>2, <1>3, <1>5, <2>1
<1>6. ASSUME NEW w \in Workers \ before, after = before \cup {w},
             Level(d)' <= Level(d) - 1
      PROVE  Level(d)' + Cardinality(after) <= 1
  <2>1. Cardinality(after) = Cardinality(before) + 1
    BY <1>1, <1>6, FS_AddElement
  <2>2. QED
    BY <1>1, <1>2, <1>3, <1>6, <2>1
<1>7. QED
  BY <1>4, <1>5, <1>6 DEF Balanced

LEMMA StepIsBalanced ==
  ASSUME Inv, Step, NEW d \in Deliveries
  PROVE  Balanced(d)
<1>1. /\ outbox \in [Deliveries -> RowState] /\ worker \in [Workers -> CycleState]
      /\ wire \in [Deliveries -> WireState]
      /\ wire[d].accepted \in Nat /\ wire[d].lost \in Nat /\ wire[d].lapses \in Nat
  BY Typing DEF WireState
<1>2. Level(d) \in Int /\ Open(d) \in {0, 1}
  BY LevelType DEF Open
<1>3. CASE UNCHANGED outboxVars
  BY <1>2, <1>3 DEF outboxVars, Balanced, Active, Level, Open
<1>4. ASSUME NEW e \in Deliveries, NEW r \in RowState, NEW x \in WireState,
             Background(e, r, x)
      PROVE  Balanced(d)
  <2>1. Active(d)' = Active(d)
    BY <1>4 DEF Background, Active
  <2>2. CASE e # d
    <3>1. outbox'[d] = outbox[d] /\ wire'[d] = wire[d]
      BY <1>1, <1>4, <2>2 DEF Background
    <3>2. QED
      BY <1>2, <2>1, <3>1 DEF Balanced, Level, Open
  <2>3. CASE e = d
    <3>1. outbox'[d] = r /\ wire'[d] = x
      BY <1>1, <1>4, <2>3 DEF Background
    <3>2. CASE outbox[d].status = "SENDING"
      <4>1. /\ outbox[d].claim = "live" /\ x.accepted = wire[d].accepted
            /\ x.lost = wire[d].lost /\ x.lapses = wire[d].lapses + 1
        BY <1>4, <2>3, <3>2 DEF Background
      <4>2. Open(d) = 0 /\ Open(d)' \in {0, 1}
        BY <3>2, <4>1 DEF Open
      <4>3. Level(d)' <= Level(d)
        BY <1>1, <3>1, <4>1, <4>2 DEF Level
      <4>4. QED
        BY <2>1, <4>3 DEF Balanced
    <3>3. CASE outbox[d].status # "SENDING"
      <4>1. Open(d) = 1 /\ Open(d)' = 1 /\ x = wire[d]
        BY <1>4, <2>3, <3>1, <3>3 DEF Background, Open
      <4>2. Level(d)' = Level(d)
        BY <3>1, <4>1 DEF Level
      <4>3. QED
        BY <1>2, <2>1, <4>2 DEF Balanced
    <3>4. QED
      BY <3>2, <3>3
  <2>4. QED
    BY <2>2, <2>3
<1>5. ASSUME NEW w \in Workers, NEW s \in CycleState, NEW batch \in SUBSET Deliveries,
             Claims(w, s, batch)
      PROVE  Balanced(d)
  <2>1. /\ worker[w].pc = "idle" /\ worker[w].batch = {}
        /\ worker' = [worker EXCEPT ![w] = s] /\ s.pc = "batch" /\ s.batch = batch
        /\ wire' = wire
    BY <1>5 DEF Claims, Inv, CyclesWellFormed
  <2>2. /\ worker'[w] = s /\ \A v \in Workers : v # w => worker'[v] = worker[v]
    BY <1>1, <2>1
  <2>3. w \notin Active(d)
    BY <2>1 DEF Active
  <2>4. CASE d \in batch
    <3>1. Active(d)' = Active(d) \cup {w}
      BY <2>1, <2>2, <2>4 DEF Active
    <3>2. Open(d) = 1 /\ Open(d)' = 0
      BY <1>5, <2>4 DEF Claims, Claimable, Open
    <3>3. Level(d)' = Level(d) - 1
      BY <1>1, <2>1, <3>2 DEF Level
    <3>4. QED
      BY <1>2, <2>3, <3>1, <3>3 DEF Balanced
  <2>5. CASE d \notin batch
    <3>1. Active(d)' = Active(d)
      BY <2>1, <2>2, <2>5 DEF Active
    <3>2. outbox'[d] = outbox[d]
      BY <1>5, <2>5 DEF Claims
    <3>3. Level(d)' = Level(d)
      BY <2>1, <3>2 DEF Level, Open
    <3>4. QED
      BY <1>2, <3>1, <3>3 DEF Balanced
  <2>6. QED
    BY <2>4, <2>5
<1>6. ASSUME NEW w \in Workers, NEW s \in CycleState, CycleStep(w, s)
      PROVE  Balanced(d)
  <2>1. /\ worker'[w] = s /\ \A v \in Workers : v # w => worker'[v] = worker[v]
    BY <1>1, <1>6 DEF CycleStep
  <2>2. CASE Starts(w, s)
    <3>1. Active(d)' = Active(d)
      BY <2>1, <2>2 DEF Starts, Active
    <3>2. QED
      BY <1>2, <2>2, <3>1 DEF Starts, Balanced, Level, Open
  <2>3. CASE Leaves(w, s)
    <3>1. Active(d)' \subseteq Active(d)
      BY <2>1, <2>3 DEF Leaves, Active
    <3>2. QED
      BY <1>2, <2>3, <3>1 DEF Leaves, Balanced, Level, Open
  <2>4. ASSUME worker[w].cur \in Deliveries, NEW x \in WireState, Posts(w, s, x)
        PROVE  Balanced(d)
    <3>1. /\ outbox' = outbox /\ worker[w].pc = "sending"
          /\ s.cur = worker[w].cur /\ s.batch = worker[w].batch
          /\ s.pc \in {"completing", "sending", "failing"}
          /\ \A e \in Deliveries : wire'[e] = IF e = worker[w].cur THEN x ELSE wire[e]
      BY <1>1, <2>4 DEF Posts
    <3>2. Open(d)' = Open(d)
      BY <3>1 DEF Open
    <3>3. CASE worker[w].cur # d
      <4>1. Active(d)' = Active(d)
        BY <2>1, <3>1, <3>3 DEF Active
      <4>2. Level(d)' = Level(d)
        BY <3>1, <3>2, <3>3 DEF Level
      <4>3. QED
        BY <1>2, <4>1, <4>2 DEF Balanced
    <3>4. CASE worker[w].cur = d /\ s.pc = "completing"
      <4>1. w \in Active(d) /\ d \notin worker[w].batch
        BY <3>1, <3>4 DEF Active, Inv, CyclesWellFormed, Sending
      <4>2. Active(d)' = Active(d) \ {w}
        BY <2>1, <3>1, <3>4, <4>1 DEF Active
      <4>3. /\ wire'[d].accepted = wire[d].accepted + 1
            /\ wire'[d].lost = wire[d].lost /\ wire'[d].lapses = wire[d].lapses
        BY <2>4, <3>1, <3>4 DEF Posts
      <4>4. Level(d)' = Level(d) + 1
        BY <1>1, <1>2, <3>2, <4>3 DEF Level
      <4>5. QED
        BY <1>2, <4>1, <4>2, <4>4 DEF Balanced
    <3>5. CASE worker[w].cur = d /\ s.pc # "completing"
      <4>1. Active(d)' = Active(d)
        BY <2>1, <3>1, <3>5 DEF Active
      <4>2. /\ wire'[d] = x /\ x.lapses = wire[d].lapses
            /\ x.accepted - wire[d].accepted <= x.lost - wire[d].lost
            /\ x.accepted \in Nat /\ x.lost \in Nat
        BY <2>4, <3>1, <3>5 DEF Posts, WireState
      <4>3. Level(d)' <= Level(d)
        BY <1>1, <1>2, <3>2, <4>2 DEF Level
      <4>4. QED
        BY <4>1, <4>3 DEF Balanced
    <3>6. QED
      BY <3>3, <3>4, <3>5
  <2>5. ASSUME worker[w].cur \in Deliveries, NEW r \in RowState, Records(w, s, r)
        PROVE  Balanced(d)
    <3>1. /\ wire' = wire /\ worker[w].pc \in {"completing", "unsaved", "failing"}
          /\ s.pc = "batch" /\ s.batch = worker[w].batch
          /\ \A e \in Deliveries : outbox'[e] = IF e = worker[w].cur THEN r ELSE outbox[e]
      BY <1>1, <2>5 DEF Records
    <3>2. CASE worker[w].cur = d /\ worker[w].pc = "failing"
      <4>1. w \in Active(d) /\ d \notin worker[w].batch
        BY <3>2 DEF Active, Inv, CyclesWellFormed, Sending
      <4>2. Active(d)' = Active(d) \ {w}
        BY <2>1, <3>1, <3>2, <4>1 DEF Active
      <4>3. Open(d)' \in {0, 1}
        BY DEF Open
      <4>4. Level(d)' <= Level(d) + 1
        BY <1>1, <1>2, <3>1, <4>3 DEF Level
      <4>5. QED
        BY <4>1, <4>2, <4>4 DEF Balanced
    <3>3. CASE worker[w].cur = d /\ worker[w].pc # "failing"
      <4>1. Active(d)' = Active(d)
        BY <2>1, <3>1, <3>3 DEF Active
      <4>2. outbox'[d] = r /\ r.status \in {"SENT", "UNKNOWN"}
        BY <2>5, <3>1, <3>3 DEF Records
      <4>3. Open(d)' = 0
        BY <4>2 DEF Open
      <4>4. Level(d)' <= Level(d)
        BY <1>1, <1>2, <3>1, <4>3 DEF Level
      <4>5. QED
        BY <4>1, <4>4 DEF Balanced
    <3>4. CASE worker[w].cur # d
      <4>1. Active(d)' \subseteq Active(d)
        BY <2>1, <3>1, <3>4 DEF Active
      <4>2. Level(d)' = Level(d)
        BY <3>1, <3>4 DEF Level, Open
      <4>3. QED
        BY <1>2, <4>1, <4>2 DEF Balanced
    <3>5. QED
      BY <3>2, <3>3, <3>4
  <2>6. QED
    BY <1>6, <2>2, <2>3, <2>4, <2>5 DEF CycleStep
<1>7. QED
  BY <1>3, <1>4, <1>5, <1>6 DEF Step

LEMMA InitCards == OutboxInit => CardsAreAccounted
<1> SUFFICES ASSUME OutboxInit, NEW d \in Deliveries
             PROVE  Level(d) + Cardinality(Active(d)) <= 1
  BY DEF CardsAreAccounted
<1>1. Active(d) = {}
  BY DEF OutboxInit, IdleWorker, Active
<1>2. Cardinality(Active(d)) = 0
  BY <1>1, FS_EmptySet
<1>3. Level(d) = 1
  BY DEF OutboxInit, Level, Open
<1>4. QED
  BY <1>2, <1>3

(* For any number of overlapping cycles: the webhook accepts a delivery at
   most once, plus once for every answer that was lost or unreadable and every
   claim that expired under a cycle that was still at work.                  *)
THEOREM SpecDuplicatesAreExplained ==
  ASSUME IsFiniteSet(Workers)
  PROVE  OutboxSpec => []DuplicatesAreExplained
<1>1. OutboxInit => CardsAreAccounted
  BY InitCards
<1>2. Inv /\ Inv' /\ CardsAreAccounted /\ [OutboxNext]_outboxVars => CardsAreAccounted'
  BY Steps, StepIsBalanced, BalanceKept
<1>3. Inv /\ CardsAreAccounted => DuplicatesAreExplained
  <2> SUFFICES ASSUME Inv, CardsAreAccounted, NEW d \in Deliveries
               PROVE  wire[d].accepted <= 1 + wire[d].lost + wire[d].lapses
    BY DEF DuplicatesAreExplained
  <2>1. Cardinality(Active(d)) \in Nat
    BY FS_Subset, FS_CardinalityType DEF Active
  <2>2. /\ wire[d].accepted \in Nat /\ wire[d].lost \in Nat /\ wire[d].lapses \in Nat
        /\ Open(d) \in {0, 1}
    BY Typing DEF WireState, Open
  <2>3. Level(d) + Cardinality(Active(d)) <= 1
    BY DEF CardsAreAccounted
  <2>4. QED
    BY <2>1, <2>2, <2>3 DEF Level
<1>4. QED
  BY <1>1, <1>2, <1>3, SpecInv, PTL DEF OutboxSpec
=============================================================================
