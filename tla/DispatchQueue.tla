---------------------------- MODULE DispatchQueue ----------------------------
(***************************************************************************)
(* How alerts reach the analysis tasks of RunLifecycle: the API enqueues   *)
(* them in a Redis stream (poller, intake, restart, resume), the tasks of  *)
(* RedisAlertWorker take messages of a consumer group, and the dispatch is *)
(* paused by a failing run and resumed by an administrator.                *)
(*                                                                         *)
(* A message is pending from its delivery to its XACK; any pending message *)
(* may be claimed again once it has been idle, also from a consumer that   *)
(* is still working on it.  The transactions of an analysis are abstracted *)
(* to its claim and its end (RunLifecycle has them in full).               *)
(***************************************************************************)
EXTENDS Naturals, FiniteSets

CONSTANTS
  MaxAlert,        \* bound: alerts 1 .. MaxAlert, numbered as they are created
  Workers,         \* tasks that handle a message (in-flight slots of workers)
  MaxMessages,     \* bound: messages in the stream at the same time
  PageSize,        \* page_size of republish_pending_alerts
  MaxTries,        \* redis_max_retries
  MaxSurprises     \* bound: reanalyses, errors of the database or of Redis,
                   \* and expiries of a lease in use

VARIABLES
  alerts,          \* [AlertIds -> status, and the claim of its run]
  gate,            \* AnalysisDispatchControlRow.state
  stream,          \* [Slots -> message]
  worker,          \* [Workers -> local state of _process_message]
  api,             \* the API process: enqueues under way, the resume handler
  reported,        \* alerts whose hand-over failed visibly (error, DLQ)
  overtaken,       \* alerts that slipped past the listing of a resume (history)
  surprises        \* used up of MaxSurprises

queueVars == <<alerts, gate, stream, worker, api, reported, overtaken, surprises>>

AlertIds == 1 .. MaxAlert
Slots == 1 .. MaxMessages
Nobody == "nobody"
Api == "api"

Free == [alert |-> 0, state |-> "free"]
IdleWorker == [pc |-> "idle", msg |-> 0, alert |-> 0, tries |-> 0]
NoResume == [pc |-> "idle", page |-> 0, found |-> {}]
ApiAt(up) == [up |-> up, check |-> {}, add |-> {}, resume |-> NoResume]

(* An alert that is gone since then may have paused the dispatch. *)
QueueInit ==
  /\ alerts = [a \in AlertIds |-> [status |-> "absent", owner |-> Nobody, lease |-> "none"]]
  /\ gate \in {"ENABLED", "PAUSED"}
  /\ stream = [s \in Slots |-> Free]
  /\ worker = [w \in Workers |-> IdleWorker]
  /\ api = ApiAt(TRUE)
  /\ reported = {} /\ overtaken = {}
  /\ surprises = 0

Having(status) == {a \in AlertIds : alerts[a].status \in status}

(* A surprise, which MaxSurprises bounds. *)
Surprise == surprises < MaxSurprises /\ surprises' = surprises + 1

-----------------------------------------------------------------------------
(* A poll or a post brings an alert, new or seen before; it is scheduled when
   its status is still QUEUED.                                              *)
Ingest(a) ==
  /\ api.up
  /\ \A b \in 1 .. a - 1 : alerts[b].status # "absent"
  /\ alerts[a].status \in {"absent", "QUEUED"}
  /\ alerts' = [alerts EXCEPT ![a].status = "QUEUED"]
  /\ api' = [api EXCEPT !.check = @ \cup {a}]
  /\ UNCHANGED <<gate, stream, worker, reported, overtaken, surprises>>

(* enqueue: nothing is done while the dispatch is paused ... *)
CheckDispatch(a) ==
  /\ api.up /\ a \in api.check
  /\ api' = [api EXCEPT !.check = @ \ {a},
                        !.add = IF gate = "ENABLED" THEN @ \cup {a} ELSE @]
  /\ UNCHANGED <<alerts, gate, stream, worker, reported, overtaken, surprises>>

(* ... otherwise the XADD; an id is never reused. *)
Unused(s) == stream[s] = Free /\ \A w \in Workers : worker[w].msg # s

Add(a) ==
  /\ api.up /\ a \in api.add
  /\ \E s \in Slots :
       /\ Unused(s) /\ \A r \in 1 .. s - 1 : ~Unused(r)
       /\ stream' = [stream EXCEPT ![s] = [alert |-> a, state |-> "new"]]
  /\ api' = [api EXCEPT !.add = @ \ {a}]
  /\ reported' = reported \ {a} /\ overtaken' = overtaken \ {a}
  /\ UNCHANGED <<alerts, gate, worker, surprises>>

(* The XADD fails, which the caller sees as an error. *)
AddFails(a) ==
  /\ api.up /\ a \in api.add /\ Surprise
  /\ api' = [api EXCEPT !.add = @ \ {a}]
  /\ reported' = reported \cup {a}
  /\ UNCHANGED <<alerts, gate, stream, worker, overtaken>>

ApiCrash ==
  /\ api.up
  /\ api' = ApiAt(FALSE)
  /\ alerts' = [a \in AlertIds |->
                 IF alerts[a].owner = Api THEN [alerts[a] EXCEPT !.owner = Nobody]
                 ELSE alerts[a]]
  /\ UNCHANGED <<gate, stream, worker, reported, overtaken, surprises>>

(* RedisAnalysisScheduler.start *)
ApiStart ==
  /\ ~api.up
  /\ api' = [ApiAt(TRUE) EXCEPT !.check = Having({"QUEUED", "ANALYZING"})]
  /\ overtaken' = {}
  /\ UNCHANGED <<alerts, gate, stream, worker, reported, surprises>>

-----------------------------------------------------------------------------
(* Mutant: the resume leaves the queued alerts to the poller. *)
ResumeOnly ==
  /\ api.up /\ api.resume.pc = "idle" /\ gate = "PAUSED"
  /\ gate' = "ENABLED"
  /\ overtaken' = {}
  /\ UNCHANGED <<alerts, stream, worker, api, reported, surprises>>

(* validate_and_resume_analysis_dispatch: the dispatch row first ... *)
Resume ==
  /\ api.up /\ api.resume.pc = "idle" /\ gate = "PAUSED"
  /\ gate' = "ENABLED"
  /\ api' = [api EXCEPT !.resume = [pc |-> "list", page |-> 1, found |-> {}]]
  /\ overtaken' = {}
  /\ UNCHANGED <<alerts, stream, worker, reported, surprises>>

(* ... then republish_pending_alerts lists the queued alerts, newest first, by
   pages of what is queued at the time of each page ...                     *)
Rank(a) == Cardinality({b \in Having({"QUEUED"}) : b > a})

(* The number of alerts on the pages before page p. *)
Before(p) == (p - 1) * PageSize

OnPage(p) == {a \in Having({"QUEUED"}) : Before(p) <= Rank(a) /\ Rank(a) < Before(p + 1)}

ListPage ==
  /\ api.up /\ api.resume.pc = "list"
  /\ LET p == api.resume.page
         found == api.resume.found \cup OnPage(p)
         last == Cardinality(Having({"QUEUED"})) <= Before(p + 1)
     IN  api' = [api EXCEPT !.resume =
                   IF last THEN [pc |-> "republish", page |-> 0, found |-> found]
                   ELSE [pc |-> "list", page |-> p + 1, found |-> found]]
  /\ UNCHANGED <<alerts, gate, stream, worker, reported, overtaken, surprises>>

(* An alert that leaves the queued ones moves the older ones up by one place:
   the first of the next page comes to stand on a page that was read before. *)
Slipping(a) ==
  IF api.resume.pc = "list" /\ a \in Having({"QUEUED"})
    THEN {b \in Having({"QUEUED"}) \ api.resume.found :
            b < a /\ Rank(b) = Before(api.resume.page)}
    ELSE {}

(* ... and enqueues them one by one; an error of either loop ends the request. *)
Republish ==
  /\ api.up /\ api.resume.pc = "republish"
  /\ \/ /\ api.resume.found = {}
        /\ api' = [api EXCEPT !.resume = NoResume]
     \/ \E a \in api.resume.found :
          api' = [api EXCEPT !.check = @ \cup {a}, !.resume.found = @ \ {a}]
  /\ UNCHANGED <<alerts, gate, stream, worker, reported, overtaken, surprises>>

RepublishFails ==
  /\ api.up /\ api.resume.pc # "idle" /\ Surprise
  /\ reported' = reported \cup (IF api.resume.pc = "list" THEN Having({"QUEUED"})
                               ELSE api.resume.found)
  /\ api' = [api EXCEPT !.resume = NoResume]
  /\ UNCHANGED <<alerts, gate, stream, worker, overtaken>>

-----------------------------------------------------------------------------
(* The run of alert a ends; a model failure pauses the dispatch. *)
EndRun(a) ==
  /\ alerts' = [alerts EXCEPT ![a] = [status |-> "SETTLED", owner |-> Nobody,
                                      lease |-> "none"]]
  /\ gate' \in {gate, "PAUSED"}

(* reanalyze: the API itself executes a new run, with force also in place of
   one that is RUNNING; no message stands for it.                           *)
Reanalyze(a) ==
  /\ api.up /\ gate = "ENABLED"
  /\ alerts[a].status # "absent" /\ Surprise
  /\ alerts' = [alerts EXCEPT ![a] = [status |-> "ANALYZING", owner |-> Api,
                                      lease |-> "live"]]
  /\ overtaken' = overtaken \cup Slipping(a)
  /\ UNCHANGED <<gate, stream, worker, api, reported>>

ApiFinishes(a) ==
  /\ alerts[a].owner = Api /\ alerts[a].lease = "live"
  /\ EndRun(a)
  /\ UNCHANGED <<stream, worker, api, reported, overtaken, surprises>>

-----------------------------------------------------------------------------
(* XREADGROUP of a new message, XAUTOCLAIM of a pending one. *)
Take(w, s) ==
  /\ worker[w].pc = "idle" /\ stream[s].state # "free"
  /\ stream' = [stream EXCEPT ![s].state = "pending"]
  /\ worker' = [worker EXCEPT ![w] = [pc |-> "begin", msg |-> s,
                                      alert |-> stream[s].alert, tries |-> 1]]
  /\ UNCHANGED <<alerts, gate, api, reported, overtaken, surprises>>

Proceeds(w, label) == worker' = [worker EXCEPT ![w].pc = label]

(* analyze_by_id returns a terminal alert and refuses while paused: in both
   cases the message is acknowledged.                                       *)
Begin(w) ==
  /\ worker[w].pc = "begin"
  /\ Proceeds(w, IF alerts[worker[w].alert].status = "SETTLED" \/ gate = "PAUSED"
                 THEN "ack" ELSE "claim")
  /\ UNCHANGED <<alerts, gate, stream, api, reported, overtaken, surprises>>

(* Nothing was claimed: a settled alert is acknowledged, any other message
   stays pending (InvestigationLeaseUnavailableError).                      *)
ClaimNothing(w) ==
  LET a == worker[w].alert IN
  /\ worker[w].pc = "claim"
  /\ \/ alerts[a].status = "SETTLED" /\ Proceeds(w, "ack")
     \/ /\ alerts[a].status # "SETTLED"
        /\ gate = "PAUSED" \/ alerts[a].lease = "live"
        /\ worker' = [worker EXCEPT ![w] = IdleWorker]
  /\ UNCHANGED <<alerts, gate, stream, api, reported, overtaken, surprises>>

(* A first run, or an expired one, is claimed ... *)
ClaimRun(w) ==
  LET a == worker[w].alert IN
  /\ worker[w].pc = "claim" /\ gate = "ENABLED"
  /\ alerts[a].status \in {"QUEUED", "ANALYZING"} /\ alerts[a].lease # "live"
  /\ alerts' = [alerts EXCEPT ![a] = [status |-> "ANALYZING", owner |-> w,
                                      lease |-> "live"]]
  /\ overtaken' = overtaken \cup Slipping(a)
  /\ Proceeds(w, "run")
  /\ UNCHANGED <<gate, stream, api, reported, surprises>>

(* ... or the expired one is failed. *)
FailExpired(w) ==
  LET a == worker[w].alert IN
  /\ worker[w].pc = "claim" /\ gate = "ENABLED"
  /\ alerts[a].status = "ANALYZING" /\ alerts[a].lease = "expired"
  /\ EndRun(a) /\ gate' = gate
  /\ Proceeds(w, "ack")
  /\ UNCHANGED <<stream, api, reported, overtaken, surprises>>

Finish(w) ==
  LET a == worker[w].alert IN
  /\ worker[w].pc = "run"
  /\ alerts[a].owner = w /\ alerts[a].lease = "live"
  /\ EndRun(a)
  /\ Proceeds(w, "ack")
  /\ UNCHANGED <<stream, api, reported, overtaken, surprises>>

(* process_with_retries after an error: again, or to the dead letters. *)
NextTry(w) ==
  IF worker[w].tries < MaxTries
    THEN worker' = [worker EXCEPT ![w].pc = "begin", ![w].tries = @ + 1]
    ELSE Proceeds(w, "dead")

LoseLease(w) ==
  /\ worker[w].pc = "run"
  /\ ~(alerts[worker[w].alert].owner = w /\ alerts[worker[w].alert].lease = "live")
  /\ NextTry(w)
  /\ UNCHANGED <<alerts, gate, stream, api, reported, overtaken, surprises>>

(* A database error; a run whose end cannot be recorded is left as it is. *)
InfraError(w) ==
  /\ worker[w].pc \in {"begin", "claim", "run"} /\ Surprise
  /\ alerts' = [a \in AlertIds |->
                 IF worker[w].pc = "run" /\ alerts[a].owner = w
                 THEN [alerts[a] EXCEPT !.owner = Nobody] ELSE alerts[a]]
  /\ NextTry(w)
  /\ UNCHANGED <<gate, stream, api, reported, overtaken>>

(* _ack_and_delete; the message may have been removed by another task. *)
Ack(w) ==
  /\ worker[w].pc = "ack"
  /\ stream' = [stream EXCEPT ![worker[w].msg] = Free]
  /\ worker' = [worker EXCEPT ![w] = IdleWorker]
  /\ UNCHANGED <<alerts, gate, api, reported, overtaken, surprises>>

DeadLetter(w) ==
  /\ worker[w].pc = "dead"
  /\ stream' = [stream EXCEPT ![worker[w].msg] = Free]
  /\ reported' = reported \cup {worker[w].alert}
  /\ worker' = [worker EXCEPT ![w] = IdleWorker]
  /\ UNCHANGED <<alerts, gate, api, overtaken, surprises>>

WorkerCrash(w) ==
  /\ worker[w].pc # "down"
  /\ worker' = [worker EXCEPT ![w] = [IdleWorker EXCEPT !.pc = "down"]]
  /\ alerts' = [a \in AlertIds |->
                 IF alerts[a].owner = w THEN [alerts[a] EXCEPT !.owner = Nobody]
                 ELSE alerts[a]]
  /\ UNCHANGED <<gate, stream, api, reported, overtaken, surprises>>

WorkerRestart(w) ==
  /\ worker[w].pc = "down"
  /\ worker' = [worker EXCEPT ![w] = IdleWorker]
  /\ UNCHANGED <<alerts, gate, stream, api, reported, overtaken, surprises>>

(* A lease runs out because its task is gone, or although it is there. *)
OrphanExpires(a) ==
  /\ alerts[a].lease = "live" /\ alerts[a].owner = Nobody
  /\ alerts' = [alerts EXCEPT ![a].lease = "expired"]
  /\ UNCHANGED <<gate, stream, worker, api, reported, overtaken, surprises>>

HeldLeaseExpires(a) ==
  /\ alerts[a].lease = "live" /\ alerts[a].owner # Nobody /\ Surprise
  /\ alerts' = [alerts EXCEPT ![a].lease = "expired"]
  /\ UNCHANGED <<gate, stream, worker, api, reported, overtaken>>

-----------------------------------------------------------------------------
Handle(w) ==
  \/ Begin(w) \/ ClaimNothing(w) \/ ClaimRun(w) \/ FailExpired(w)
  \/ Finish(w) \/ LoseLease(w) \/ Ack(w) \/ DeadLetter(w)

Enqueue(a) == CheckDispatch(a) \/ Add(a)

QueueNext ==
  \/ \E a \in AlertIds :
       \/ Ingest(a) \/ Enqueue(a) \/ AddFails(a)
       \/ Reanalyze(a) \/ ApiFinishes(a) \/ OrphanExpires(a) \/ HeldLeaseExpires(a)
  \/ \E w \in Workers :
       \/ \E s \in Slots : Take(w, s)
       \/ Handle(w) \/ InfraError(w) \/ WorkerCrash(w) \/ WorkerRestart(w)
  \/ ApiCrash \/ ApiStart \/ Resume \/ ListPage \/ Republish \/ RepublishFails

QueueSpec == QueueInit /\ [][QueueNext]_queueVars

(* Living processes go on, stopped ones are restarted, leases of dead tasks
   run out, and the workers read new and claim idle messages in the order of
   the stream.  Polls, resumes, reanalyses and errors are not fair.         *)
QueueFairness ==
  /\ \A a \in AlertIds :
       /\ WF_queueVars(CheckDispatch(a)) /\ SF_queueVars(Add(a))
       /\ WF_queueVars(OrphanExpires(a)) /\ WF_queueVars(ApiFinishes(a))
  /\ \A w \in Workers : WF_queueVars(Handle(w)) /\ WF_queueVars(WorkerRestart(w))
  /\ \A s \in Slots : SF_queueVars(\E w \in Workers : Take(w, s))
  /\ WF_queueVars(ApiStart) /\ WF_queueVars(ListPage) /\ WF_queueVars(Republish)

FairQueueSpec == QueueSpec /\ QueueFairness

-----------------------------------------------------------------------------
QueueTypeOK ==
  /\ alerts \in [AlertIds -> [status : {"absent", "QUEUED", "ANALYZING", "SETTLED"},
                              owner : Workers \cup {Nobody, Api},
                              lease : {"none", "live", "expired"}]]
  /\ gate \in {"ENABLED", "PAUSED"}
  /\ stream \in [Slots -> [alert : 0 .. MaxAlert, state : {"free", "new", "pending"}]]
  /\ worker \in [Workers ->
       [pc : {"idle", "begin", "claim", "run", "ack", "dead", "down"},
        msg : 0 .. MaxMessages, alert : 0 .. MaxAlert, tries : 0 .. MaxTries]]
  /\ api \in [up : BOOLEAN, check : SUBSET AlertIds, add : SUBSET AlertIds,
              resume : [pc : {"idle", "list", "republish"}, page : Nat,
                        found : SUBSET AlertIds]]
  /\ reported \in SUBSET AlertIds /\ overtaken \in SUBSET AlertIds
  /\ surprises \in 0 .. MaxSurprises

InStream(a) == \E s \in Slots : stream[s].alert = a

(* The API is about to enqueue alert a, or the listing has it still ahead. *)
InHand(a) ==
  \/ ~api.up
  \/ a \in api.check \cup api.add \cup api.resume.found
  \/ api.resume.pc = "list" /\ Before(api.resume.page) <= Rank(a)

(* While the dispatch is enabled, an alert that waits for its analysis has a
   message, is about to get one, or its loss was reported: no interleaving of
   polls, pauses, resumes, restarts and acknowledgements forgets it, but one:
   an alert that was newer left while a resume was between two pages.       *)
QueuedIsTracked ==
  gate = "ENABLED" =>
    \A a \in Having({"QUEUED"}) :
      InStream(a) \/ InHand(a) \/ a \in reported \cup overtaken

(* redis.py:313-315.  "An explicit resume republishes every RECEIVED/QUEUED
   alert" that was dropped during the pause, whatever happens meanwhile.  Not
   so over several pages: README of the models, section 4.                  *)
QueuedIsRepublished ==
  gate = "ENABLED" =>
    \A a \in Having({"QUEUED"}) : InStream(a) \/ InHand(a) \/ a \in reported

Undisturbed ==
  gate = "ENABLED" /\ api.up /\ \A w \in Workers : worker[w].pc # "down"

(* README.md:32: an expired run is resumed in the same run or failed. *)
ExpiredRunsAreHandled ==
  <>[]Undisturbed =>
    \A a \in AlertIds :
      alerts[a].status = "ANALYZING" /\ alerts[a].lease = "expired" ~>
        alerts[a].lease # "expired" \/ a \in reported
=============================================================================
