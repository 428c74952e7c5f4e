------------------------- MODULE NotificationOutbox -------------------------
(***************************************************************************)
(* The notification outbox: intents queued by the transactions that end a  *)
(* run (RunLifecycle), claimed in batches by the delivery cycles           *)
(* (deliver_pending_notifications, called by the periodic worker and at    *)
(* the end of every analysis) and posted to the WeCom webhook.             *)
(*                                                                         *)
(* A claim lasts 60 seconds and is never renewed: ClaimExpires may happen  *)
(* at any time while a batch is still being worked off.                    *)
(***************************************************************************)
EXTENDS Naturals, FiniteSets

CONSTANTS
  Deliveries,      \* the intents
  Invalid,         \* those whose persisted event cannot be read back
  Workers,         \* delivery cycles that may run at the same time
  BatchLimit,      \* rows one claim may take
  AttemptLimit,    \* claims of one delivery (3 in the code)
  MaxRetries       \* WeComManagementNotifier: posts repeated inside one send

ASSUME OutboxAssumption ==
  /\ Invalid \subseteq Deliveries /\ BatchLimit \in Nat \ {0}
  /\ AttemptLimit \in Nat /\ MaxRetries \in Nat

VARIABLES
  outbox,          \* [Deliveries -> NotificationDeliveryRow]
  worker,          \* [Workers -> local state of a delivery cycle]
  wire             \* [Deliveries -> what happened at the webhook] (history)

outboxVars == <<outbox, worker, wire>>

Nobody == "nobody"
Nothing == "nothing"
ASSUME NobodyAssumption == Nobody \notin Workers /\ Nothing \notin Deliveries

IdleWorker == [pc |-> "idle", batch |-> {}, cur |-> Nothing, tries |-> 0,
               unknown |-> FALSE]

OutboxInit ==
  /\ outbox = [d \in Deliveries |->
                [status |-> "absent", owner |-> Nobody, claim |-> "none",
                 due |-> FALSE, attempts |-> 0]]
  /\ worker = [w \in Workers |-> IdleWorker]
  /\ wire = [d \in Deliveries |->
               [posts |-> 0, accepted |-> 0, lost |-> 0, lapses |-> 0]]

-----------------------------------------------------------------------------
(* finalize_run and _queue_internal_failure_notification. *)
QueueIntent(d) ==
  /\ outbox[d].status = "absent"
  /\ outbox' = [outbox EXCEPT ![d].status = "PENDING"]
  /\ UNCHANGED <<worker, wire>>

(* Mutants: a row that another cycle is still sending, or whose outcome is
   unknown, is taken; the attempts are not limited; a failed or abandoned row
   is never taken again.                                                   *)
ClaimableWhileHeld(d) ==
  /\ outbox[d].attempts < AttemptLimit
  /\ \/ outbox[d].status \in {"PENDING", "SENDING"}
     \/ outbox[d].status = "FAILED" /\ outbox[d].due
ClaimableOnce(d) ==
  outbox[d].attempts < AttemptLimit /\ outbox[d].status = "PENDING"

(* The WHERE clause of claim_notification_deliveries. *)
Claimable(d) ==
  /\ outbox[d].attempts < AttemptLimit
  /\ \/ outbox[d].status = "PENDING"
     \/ outbox[d].status = "FAILED" /\ outbox[d].due
     \/ outbox[d].status = "SENDING" /\ outbox[d].claim = "expired"

(* One cycle takes as many rows as its limit allows, in one transaction. *)
ClaimBatch(w) ==
  /\ worker[w].pc = "idle"
  /\ \E batch \in SUBSET {d \in Deliveries : Claimable(d)} :
       /\ batch # {}
       /\ \/ Cardinality(batch) = BatchLimit
          \/ /\ Cardinality(batch) < BatchLimit
             /\ \A d \in Deliveries : Claimable(d) => d \in batch
       /\ outbox' = [d \in Deliveries |->
                    IF d \in batch
                      THEN [outbox[d] EXCEPT !.status = "SENDING", !.owner = w,
                                             !.claim = "live", !.attempts = @ + 1]
                      ELSE outbox[d]]
       /\ worker' = [worker EXCEPT ![w].pc = "batch", ![w].batch = batch]
  /\ UNCHANGED wire

(* Mutant: the outcome of the previous delivery is carried over. *)
NextDeliveryKeepsOutcome(w) ==
  /\ worker[w].pc = "batch"
  /\ \E d \in worker[w].batch :
       worker' = [worker EXCEPT ![w].pc = IF d \in Invalid THEN "failing" ELSE "sending",
                                ![w].batch = @ \ {d}, ![w].cur = d, ![w].tries = 0]
  /\ UNCHANGED <<outbox, wire>>

(* The next delivery of the batch; an event that does not validate is failed
   without a post.                                                         *)
NextDelivery(w) ==
  /\ worker[w].pc = "batch"
  /\ \E d \in worker[w].batch :
       worker' = [worker EXCEPT ![w].pc = IF d \in Invalid THEN "failing" ELSE "sending",
                                ![w].batch = @ \ {d}, ![w].cur = d,
                                ![w].tries = 0, ![w].unknown = FALSE]
  /\ UNCHANGED <<outbox, wire>>

EndCycle(w) ==
  /\ worker[w].pc = "batch" /\ worker[w].batch = {}
  /\ worker' = [worker EXCEPT ![w] = IdleWorker]
  /\ UNCHANGED <<outbox, wire>>

-----------------------------------------------------------------------------
(* One post of _deliver: WeCom accepts it and says so ... *)
PostAccepted(w) ==
  LET d == worker[w].cur IN
  /\ worker[w].pc = "sending"
  /\ wire' = [wire EXCEPT ![d].posts = @ + 1, ![d].accepted = @ + 1]
  /\ worker' = [worker EXCEPT ![w].pc = "completing"]
  /\ UNCHANGED outbox

(* ... or refuses it with an errcode ... *)
PostRejected(w) ==
  LET d == worker[w].cur IN
  /\ worker[w].pc = "sending"
  /\ wire' = [wire EXCEPT ![d].posts = @ + 1]
  /\ worker' = [worker EXCEPT ![w].pc = "failing", ![w].unknown = FALSE]
  /\ UNCHANGED outbox

(* ... or an HTTP error or an unreadable body comes back, whether it accepted
   or not: _deliver takes it for a refusal ...                              *)
PostUnclear(w) ==
  LET d == worker[w].cur IN
  /\ worker[w].pc = "sending"
  /\ \E accepted \in {0, 1} :
       wire' = [wire EXCEPT ![d].posts = @ + 1, ![d].lost = @ + 1,
                            ![d].accepted = @ + accepted]
  /\ worker' = [worker EXCEPT ![w].pc = "failing", ![w].unknown = FALSE]
  /\ UNCHANGED outbox

RetriesLeft(w) == worker[w].tries < MaxRetries

(* ... or no answer arrives, whether it accepted or not: the post is repeated
   while retries are left, then its outcome is unknown.                     *)
PostUnanswered(w) ==
  LET d == worker[w].cur IN
  /\ worker[w].pc = "sending"
  /\ \E accepted \in {0, 1} :
       wire' = [wire EXCEPT ![d].posts = @ + 1, ![d].lost = @ + 1,
                            ![d].accepted = @ + accepted]
  /\ IF RetriesLeft(w)
       THEN worker' = [worker EXCEPT ![w].tries = @ + 1]
       ELSE worker' = [worker EXCEPT ![w].pc = "failing", ![w].unknown = TRUE]
  /\ UNCHANGED outbox

-----------------------------------------------------------------------------
(* The row is matched by id, status SENDING and claim owner. *)
Holds(w) ==
  /\ outbox[worker[w].cur].status = "SENDING"
  /\ outbox[worker[w].cur].owner = w

(* The row after its outcome was recorded; a failed one becomes due later. *)
Recorded(w, status) ==
  outbox' = [outbox EXCEPT ![worker[w].cur].status = status,
                           ![worker[w].cur].owner = Nobody,
                           ![worker[w].cur].claim = "none",
                           ![worker[w].cur].due = FALSE]

NextInBatch(w) ==
  worker' = [worker EXCEPT ![w].pc = "batch", ![w].cur = Nothing]

(* complete_notification_delivery; a lost claim or a database error is caught
   and the outcome is recorded as unknown instead.                          *)
Complete(w) ==
  /\ worker[w].pc = "completing"
  /\ \/ Holds(w) /\ Recorded(w, "SENT") /\ NextInBatch(w)
     \/ /\ worker' = [worker EXCEPT ![w].pc = "unsaved"]
        /\ UNCHANGED outbox
  /\ UNCHANGED wire

(* A second error is only logged. *)
RecordUnsaved(w) ==
  /\ worker[w].pc = "unsaved"
  /\ \/ Holds(w) /\ Recorded(w, "UNKNOWN")
     \/ UNCHANGED outbox
  /\ NextInBatch(w)
  /\ UNCHANGED wire

(* fail_notification_delivery; here an error escapes and ends the cycle, and
   the rest of the batch stays SENDING until its claim expires.             *)
RecordFailure(w) ==
  /\ worker[w].pc = "failing"
  /\ \/ /\ Holds(w)
        /\ Recorded(w, IF worker[w].unknown THEN "UNKNOWN" ELSE "FAILED")
        /\ NextInBatch(w)
     \/ worker' = [worker EXCEPT ![w] = IdleWorker] /\ UNCHANGED outbox
  /\ UNCHANGED wire

-----------------------------------------------------------------------------
CycleCrash(w) ==
  /\ worker[w].pc # "down"
  /\ worker' = [worker EXCEPT ![w] = [IdleWorker EXCEPT !.pc = "down"]]
  /\ UNCHANGED <<outbox, wire>>

CycleRestart(w) ==
  /\ worker[w].pc = "down"
  /\ worker' = [worker EXCEPT ![w] = IdleWorker]
  /\ UNCHANGED <<outbox, wire>>

(* claim_expires_at and next_attempt_at pass. *)
ClaimExpires(d) ==
  /\ outbox[d].status = "SENDING" /\ outbox[d].claim = "live"
  /\ outbox' = [outbox EXCEPT ![d].claim = "expired"]
  /\ wire' = [wire EXCEPT ![d].lapses = @ + 1]
  /\ UNCHANGED worker

RetryDue(d) ==
  /\ outbox[d].status = "FAILED" /\ ~outbox[d].due
  /\ outbox' = [outbox EXCEPT ![d].due = TRUE]
  /\ UNCHANGED <<worker, wire>>

-----------------------------------------------------------------------------
(* A cycle that has claimed its batch works it off. *)
Deliver(w) ==
  \/ NextDelivery(w) \/ EndCycle(w)
  \/ PostAccepted(w) \/ PostRejected(w) \/ PostUnclear(w) \/ PostUnanswered(w)
  \/ Complete(w) \/ RecordUnsaved(w) \/ RecordFailure(w)

OutboxNext ==
  \/ \E d \in Deliveries : QueueIntent(d) \/ ClaimExpires(d) \/ RetryDue(d)
  \/ \E w \in Workers : ClaimBatch(w) \/ Deliver(w) \/ CycleCrash(w) \/ CycleRestart(w)

OutboxSpec == OutboxInit /\ [][OutboxNext]_outboxVars

(* Sends have timeouts, the clock advances, a crashed process is restarted,
   and the periodic worker keeps starting cycles.                          *)
OutboxFairness ==
  /\ \A w \in Workers : WF_outboxVars(Deliver(w)) /\ WF_outboxVars(CycleRestart(w))
  /\ SF_outboxVars(\E w \in Workers : ClaimBatch(w))
  /\ \A d \in Deliveries : WF_outboxVars(ClaimExpires(d)) /\ WF_outboxVars(RetryDue(d))

FairOutboxSpec == OutboxSpec /\ OutboxFairness

-----------------------------------------------------------------------------
DeliveryStatuses == {"absent", "PENDING", "SENDING", "SENT", "FAILED", "UNKNOWN"}
Sending == {"sending", "completing", "unsaved", "failing"}

TypeOK ==
  /\ outbox \in [Deliveries ->
       [status : DeliveryStatuses, owner : Workers \cup {Nobody},
        claim : {"none", "live", "expired"}, due : BOOLEAN,
        attempts : 0 .. AttemptLimit]]
  /\ worker \in [Workers ->
       [pc : {"idle", "batch", "down"} \cup Sending, batch : SUBSET Deliveries,
        cur : Deliveries \cup {Nothing}, tries : 0 .. MaxRetries,
        unknown : BOOLEAN]]
  /\ wire \in [Deliveries ->
       [posts : Nat, accepted : Nat, lost : Nat, lapses : Nat]]

(* Every card beyond the first is accounted for by an answer that was lost or
   unreadable or a claim that expired: two live cycles never send the same delivery, and a
   delivery is not sent again after an answered post.                       *)
DuplicatesAreExplained ==
  \A d \in Deliveries :
    wire[d].accepted <= 1 + wire[d].lost + wire[d].lapses

(* A delivery recorded as SENT was accepted, and one recorded as UNKNOWN has
   an accepted or an unanswered post behind it, whichever cycle recorded it. *)
OutcomesAreEarned ==
  \A d \in Deliveries :
    /\ outbox[d].status = "SENT" => wire[d].accepted > 0
    /\ outbox[d].status = "UNKNOWN" => wire[d].accepted + wire[d].lost > 0

(* SENT and UNKNOWN are final: no cycle, stale or new, reopens them. *)
OutcomesAreFinal ==
  [][\A d \in Deliveries :
       outbox[d].status \in {"SENT", "UNKNOWN"} => outbox'[d] = outbox[d]]_outboxVars

(* Only the cycle that holds the claim records an outcome: a stale one cannot
   end the claim of its successor.                                          *)
OnlyHolderRecords ==
  [][\A d \in Deliveries :
       outbox[d].status = "SENDING" /\ outbox'[d].status # "SENDING" =>
         \E w \in Workers : /\ worker[w].cur = d /\ outbox[d].owner = w
                            /\ worker'[w] # worker[w]]_outboxVars

(* Every intent is sent, given up as unknown, or has used its attempts. *)
Settled(d) ==
  \/ outbox[d].status \in {"SENT", "UNKNOWN"}
  \/ outbox[d].attempts = AttemptLimit
EveryIntentSettles ==
  \A d \in Deliveries : outbox[d].status = "PENDING" ~> Settled(d)

(* README.md:67-68: a send with an uncertain outcome is marked UNKNOWN and not
   blindly repeated.  Uncertain is everything but a definite refusal.  It is
   repeated: README of the models, section 4.                                *)
Uncertain(d) == wire[d].accepted + wire[d].lost > 0

NotBlindlyResent ==
  [][\A d \in Deliveries : Uncertain(d) => wire'[d].posts = wire[d].posts]_outboxVars
=============================================================================
