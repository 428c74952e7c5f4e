---------------------------- MODULE MemoryScheduler ----------------------------
(***************************************************************************)
(* InMemoryAnalysisScheduler, the scheduler of a deployment without Redis: *)
(* a queue of alert ids, the set _queued that keeps an id from being in it *)
(* twice, worker tasks admitted by a resizable limiter, and the retries of *)
(* alerts whose run another task leases.  An analysis is abstracted to its *)
(* claim and its end, or to the error it raises.                           *)
(***************************************************************************)
EXTENDS Naturals, FiniteSets, Sequences

CONSTANTS
  Alerts,
  Workers,       \* the worker tasks
  MaxWorkers,         \* the highest scheduler_workers setting
  MaxRequests,   \* bound on the calls of enqueue from outside
  MaxChanges     \* bound on pauses, resizings, foreign leases and errors

VARIABLES
  alert,      \* "QUEUED", "ANALYZING" (claimed) or "SETTLED"
  holder,     \* per alert, who leases its run: a worker, "other" or "none"
  gate,       \* of the analysis dispatch: "ENABLED" or "PAUSED"
  queue, queued,
  limiter,    \* [limit, active]
  worker,     \* per worker, where it is and its alert
  retry,      \* alerts with a retry_later task
  calls,      \* enqueue calls that found the dispatch enabled
  dropped,    \* alerts given up since they were last enqueued, for an error
              \* that is only logged
  requests, changes

schedulerVars ==
  <<alert, holder, gate, queue, queued, limiter, worker, retry, calls, dropped, requests, changes>>

Waiting == [pc |-> "get", alert |-> "none"]

MemoryInit ==
  /\ alert = [a \in Alerts |-> "QUEUED"] /\ holder = [a \in Alerts |-> "none"]
  /\ gate = "ENABLED" /\ dropped = {}
  /\ queue = <<>> /\ queued = {} /\ limiter = [limit |-> MaxWorkers, active |-> 0]
  /\ worker = [w \in Workers |-> Waiting]
  /\ retry = {} /\ calls = {} /\ requests = 0 /\ changes = 0

-----------------------------------------------------------------------------
Change == changes < MaxChanges /\ changes' = changes + 1

(* enqueue, called by a poll, a post or the resume endpoint: it looks at the
   dispatch first,                                                         *)
Enqueue(a) ==
  /\ requests < MaxRequests /\ alert[a] = "QUEUED" /\ a \notin calls
  /\ requests' = requests + 1
  /\ calls' = IF gate = "ENABLED" THEN calls \cup {a} ELSE calls
  /\ UNCHANGED <<alert, holder, gate, queue, queued, limiter, worker, retry, dropped, changes>>

RetryLater(a) ==
  /\ a \in retry /\ a \notin calls
  /\ retry' = retry \ {a}
  /\ calls' = IF gate = "ENABLED" THEN calls \cup {a} ELSE calls
  /\ UNCHANGED <<alert, holder, gate, queue, queued, limiter, worker, dropped, requests, changes>>

(* The database does not answer the task that retries, which ends with that. *)
RetryFails(a) ==
  /\ Change /\ a \in retry
  /\ retry' = retry \ {a}
  /\ dropped' = IF a \in queued \cup calls THEN dropped ELSE dropped \cup {a}
  /\ UNCHANGED <<alert, holder, gate, queue, queued, limiter, worker, calls, requests>>

(* and puts the id in the queue unless it is in or out already. *)
Put(a) ==
  /\ a \in calls
  /\ calls' = calls \ {a} /\ dropped' = dropped \ {a}
  /\ IF a \in queued THEN UNCHANGED <<queue, queued>>
     ELSE queue' = Append(queue, a) /\ queued' = queued \cup {a}
  /\ UNCHANGED <<alert, holder, gate, limiter, worker, retry, requests, changes>>

-----------------------------------------------------------------------------
WorkerAt(w, pc) == worker[w].pc = pc

(* Mutant: the id is forgotten as soon as a worker has it. *)
GetForgetting(w) ==
  /\ WorkerAt(w, "get") /\ queue # <<>>
  /\ queue' = Tail(queue) /\ queued' = queued \ {Head(queue)}
  /\ worker' = [worker EXCEPT ![w] = [pc |-> "admit", alert |-> Head(queue)]]
  /\ UNCHANGED <<alert, holder, gate, limiter, retry, calls, dropped, requests, changes>>

Get(w) ==
  /\ WorkerAt(w, "get") /\ queue # <<>>
  /\ queue' = Tail(queue)
  /\ worker' = [worker EXCEPT ![w] = [pc |-> "admit", alert |-> Head(queue)]]
  /\ UNCHANGED <<alert, holder, gate, queued, limiter, retry, calls, dropped, requests, changes>>

Admit(w) ==
  /\ WorkerAt(w, "admit") /\ limiter.active < limiter.limit
  /\ limiter' = [limiter EXCEPT !.active = @ + 1]
  /\ worker' = [worker EXCEPT ![w].pc = "analyze"]
  /\ UNCHANGED <<alert, holder, gate, queue, queued, retry, calls, dropped, requests, changes>>

Goes(w, pc) == worker' = [worker EXCEPT ![w].pc = pc]

(* analyze_by_id reads the alert and the dispatch, *)
Read(w) ==
  /\ WorkerAt(w, "analyze")
  /\ IF alert[worker[w].alert] = "SETTLED" THEN Goes(w, "settled")
     ELSE IF gate = "PAUSED" THEN Goes(w, "paused") ELSE Goes(w, "claim")
  /\ UNCHANGED <<alert, holder, gate, queue, queued, limiter, retry, calls, dropped, requests, changes>>

(* and claims a run, unless the dispatch was paused since or another task
   has a live lease.                                                       *)
Claim(w) ==
  /\ WorkerAt(w, "claim")
  /\ LET a == worker[w].alert
         free == holder[a] = "none" /\ gate = "ENABLED" /\ alert[a] # "SETTLED"
     IN IF free
          THEN /\ alert' = [alert EXCEPT ![a] = "ANALYZING"]
               /\ holder' = [holder EXCEPT ![a] = w]
               /\ Goes(w, "run")
          ELSE /\ UNCHANGED <<alert, holder>>
               /\ Goes(w, IF alert[a] = "SETTLED" THEN "settled" ELSE "leased")
  /\ UNCHANGED <<gate, queue, queued, limiter, retry, calls, dropped, requests, changes>>

Settle(w) ==
  LET a == worker[w].alert IN
  /\ WorkerAt(w, "run") /\ holder[a] = w
  /\ alert' = [alert EXCEPT ![a] = "SETTLED"] /\ holder' = [holder EXCEPT ![a] = "none"]
  /\ Goes(w, "settled")
  /\ UNCHANGED <<gate, queue, queued, limiter, retry, calls, dropped, requests, changes>>

(* LeaseLostError *)
LoseLease(w) ==
  /\ WorkerAt(w, "run") /\ holder[worker[w].alert] # w
  /\ Goes(w, "leased")
  /\ UNCHANGED <<alert, holder, gate, queue, queued, limiter, retry, calls, dropped, requests, changes>>

(* analyze_by_id raises an error and leaves the alert as it is, a claimed run
   with a lease that nobody renews.                                         *)
Fail(w) ==
  LET a == worker[w].alert IN
  /\ Change /\ worker[w].pc \in {"analyze", "claim", "run"}
  /\ holder' = [holder EXCEPT ![a] = IF @ = w THEN "other" ELSE @]
  /\ Goes(w, "failed")
  /\ UNCHANGED <<alert, gate, queue, queued, limiter, retry, calls, dropped, requests>>

(* Mutant: an alert that is leased elsewhere is not tried again. *)
DoneOnly(w) ==
  /\ worker[w].pc \in {"settled", "paused", "leased", "failed"}
  /\ limiter' = [limiter EXCEPT !.active = @ - 1]
  /\ queued' = queued \ {worker[w].alert}
  /\ dropped' = IF WorkerAt(w, "failed") THEN dropped \cup {worker[w].alert} ELSE dropped
  /\ retry' = retry
  /\ worker' = [worker EXCEPT ![w] = Waiting]
  /\ UNCHANGED <<alert, holder, gate, queue, calls, requests, changes>>

(* The end of the worker's turn: a lease that is held elsewhere or was lost is
   retried; an error is logged, and nothing else is done about it.         *)
Done(w) ==
  /\ worker[w].pc \in {"settled", "paused", "leased", "failed"}
  /\ limiter' = [limiter EXCEPT !.active = @ - 1]
  /\ queued' = queued \ {worker[w].alert}
  /\ dropped' = IF WorkerAt(w, "failed") THEN dropped \cup {worker[w].alert} ELSE dropped
  /\ retry' = IF WorkerAt(w, "leased") THEN retry \cup {worker[w].alert} ELSE retry
  /\ worker' = [worker EXCEPT ![w] = Waiting]
  /\ UNCHANGED <<alert, holder, gate, queue, calls, requests, changes>>

-----------------------------------------------------------------------------
(* sync_workers *)
Resize(n) ==
  /\ Change /\ n # limiter.limit
  /\ limiter' = [limiter EXCEPT !.limit = n]
  /\ UNCHANGED <<alert, holder, gate, queue, queued, worker, retry, calls, dropped, requests>>

Pause ==
  /\ Change /\ gate = "ENABLED"
  /\ gate' = "PAUSED"
  /\ UNCHANGED <<alert, holder, queue, queued, limiter, worker, retry, calls, dropped, requests>>

(* The resume endpoint enqueues whatever is QUEUED. *)
ResumeDispatch ==
  /\ gate = "PAUSED"
  /\ gate' = "ENABLED"
  /\ calls' = calls \cup {a \in Alerts : alert[a] = "QUEUED"}
  /\ UNCHANGED <<alert, holder, queue, queued, limiter, worker, retry, dropped, requests, changes>>

(* A reanalysis of the API takes the alert, by force also from a worker. *)
Leased(a) ==
  /\ Change /\ gate = "ENABLED" /\ holder[a] # "other"
  /\ holder' = [holder EXCEPT ![a] = "other"] /\ alert' = [alert EXCEPT ![a] = "ANALYZING"]
  /\ UNCHANGED <<gate, queue, queued, limiter, worker, retry, calls, dropped, requests>>

(* What it leases ends, or its task is gone and the lease runs out; *)
LeaseEnds(a) ==
  /\ holder[a] = "other"
  /\ holder' = [holder EXCEPT ![a] = "none"]
  /\ \E status \in {"ANALYZING", "SETTLED"} : alert' = [alert EXCEPT ![a] = status]
  /\ UNCHANGED <<gate, queue, queued, limiter, worker, retry, calls, dropped, requests, changes>>

(* the lease of a worker may run out although it is there. *)
Lapse(a) ==
  /\ Change /\ holder[a] \in Workers
  /\ holder' = [holder EXCEPT ![a] = "none"]
  /\ UNCHANGED <<alert, gate, queue, queued, limiter, worker, retry, calls, dropped, requests>>

(* What a worker does with the alert it was admitted for. *)
Turn(w) == Read(w) \/ Claim(w) \/ Settle(w) \/ LoseLease(w) \/ Done(w)

MemoryNext ==
  \/ Pause \/ ResumeDispatch \/ \E n \in 1 .. MaxWorkers : Resize(n)
  \/ \E a \in Alerts :
       \/ Enqueue(a) \/ RetryLater(a) \/ RetryFails(a) \/ Put(a)
       \/ Leased(a) \/ LeaseEnds(a) \/ Lapse(a)
  \/ \E w \in Workers : Get(w) \/ Admit(w) \/ Turn(w) \/ Fail(w)

(* The event loop runs every task that can go on; an analysis is bounded by
   its timeout and a lease by its expiry.                                  *)
MemoryFairness ==
  /\ \A a \in Alerts :
       WF_schedulerVars(RetryLater(a)) /\ WF_schedulerVars(Put(a)) /\ WF_schedulerVars(LeaseEnds(a))
  /\ \A w \in Workers :
       WF_schedulerVars(Get(w)) /\ SF_schedulerVars(Admit(w)) /\ WF_schedulerVars(Turn(w))

MemorySpec == MemoryInit /\ [][MemoryNext]_schedulerVars /\ MemoryFairness

-----------------------------------------------------------------------------
(* scheduler.py:468.  However often an alert is enqueued, no two workers have
   it at the same time: the second run would wait out the first one's lease. *)
OneWorkerPerAlert ==
  \A v, w \in Workers :
    v # w /\ ~WorkerAt(v, "get") /\ ~WorkerAt(w, "get") => worker[v].alert # worker[w].alert

PauseSeen == gate = "PAUSED" \/ \E w \in Workers : WorkerAt(w, "paused")

(* An alert that is in the queue is analysed in the end, through retries while
   another task leases it - or the dispatch is paused on the way, or an error
   gives it up: scheduler.py:504 logs an error of the analysis and does not
   retry.                                                                   *)
QueuedIsAnalysed ==
  \A a \in Alerts :
    (\E i \in 1 .. Len(queue) : queue[i] = a)
      ~> (alert[a] = "SETTLED" \/ PauseSeen \/ a \in dropped)

(* README.md:37.  After a successful resume every waiting alert is analysed,
   also the one a worker has just taken for paused.  Not so: README of the
   models, section 4.                                                       *)
ResumedIsAnalysed ==
  \A a \in Alerts :
    (a \in calls /\ gate = "ENABLED") ~> (alert[a] = "SETTLED" \/ gate = "PAUSED")
=============================================================================
