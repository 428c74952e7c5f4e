---------------------------- MODULE RunLifecycle ----------------------------
(***************************************************************************)
(* The life of the investigation runs of ONE alert: the transactions of    *)
(* SqlAlertRepository on the alert row, its run rows and the global        *)
(* dispatch row, and the analysis tasks (analyze_by_id in a worker, the    *)
(* background task of reanalyze in the API) that execute between them.     *)
(*                                                                         *)
(* Each repository method is one database transaction, so it is one        *)
(* action.  A task reads, decides and writes in separate actions and may   *)
(* crash between any two.  Alerts only meet in the dispatch row, which     *)
(* the other alerts pause and the operator resumes at any time.            *)
(*                                                                         *)
(* A lease is "live" until the nondeterministic LeaseExpires makes it      *)
(* "expired": the clock, a late heartbeat and a stopped process are all    *)
(* that one step.                                                          *)
(***************************************************************************)
EXTENDS Naturals

CONSTANTS
  Tasks,          \* concurrent analysis tasks (lease owners)
  Generations,    \* settings generations a process can be running
  MaxAttempts,    \* bound: runs of the alert
  MaxToken        \* bound: fencing token, reached by repeated reclaims

ASSUME BoundsAssumption == MaxAttempts \in Nat /\ MaxToken \in Nat

VARIABLES
  alert,          \* AlertRow.status
  dispatch,       \* AnalysisDispatchControlRow.state
  latest,         \* highest InvestigationRunRow.attempt, 0 when there is none
  run,            \* [Attempt -> run row]
  task            \* [Tasks -> local state of the task]

vars == <<alert, dispatch, latest, run, task>>

Attempt == 1 .. MaxAttempts
Decided == {"COMPLETED", "INCONCLUSIVE", "FAILED", "CANCELLED"}
AlertStatus == {"QUEUED", "FILTERED", "ANALYZING"} \cup Decided
RunErrors == {"none", "unrecoverable", "superseded", "expired",
              "incompatible", "reported"}
Verdicts == {"COMPLETED", "INCONCLUSIVE", "FAILED"}
NoTask == "nobody"
NoGeneration == "none"
ASSUME NoTaskAssumption == NoTask \notin Tasks

AbsentRun ==
  [status |-> "absent", token |-> 0, owner |-> NoTask, lease |-> "none",
   cancel |-> FALSE, ckpt |-> FALSE, manifest |-> NoGeneration,
   error |-> "none", intents |-> 0]

FreshRun(t, a, g) ==
  [status |-> "RUNNING", token |-> a, owner |-> t, lease |-> "live",
   cancel |-> FALSE, ckpt |-> FALSE, manifest |-> g,
   error |-> "none", intents |-> 0]

IdleTask ==
  [pc |-> "idle", att |-> 0, tok |-> 0, gen |-> NoGeneration, arg |-> "none"]

Init ==
  /\ alert \in {"QUEUED", "FILTERED"}
  /\ dispatch = "ENABLED"
  /\ latest = 0
  /\ run = [a \in Attempt |-> AbsentRun]
  /\ task = [t \in Tasks |-> IdleTask]

-----------------------------------------------------------------------------
(* Mutant: the fence compares owner and token but not the clock. *)
FencedIgnoringExpiry(t) ==
  /\ task[t].att \in Attempt
  /\ run[task[t].att].status = "RUNNING"
  /\ run[task[t].att].owner = t
  /\ run[task[t].att].token = task[t].tok

(* The condition of _require_active_run_lease for the claim task t holds.  *)
Fenced(t) ==
  /\ task[t].att \in Attempt
  /\ run[task[t].att].status = "RUNNING"
  /\ run[task[t].att].owner = t
  /\ run[task[t].att].token = task[t].tok
  /\ run[task[t].att].lease = "live"

Running == latest > 0 /\ run[latest].status = "RUNNING"

(* The bounds: no further attempt, no further reclaim of the newest run. *)
AttemptsUsedUp == latest >= MaxAttempts \/ latest >= MaxToken
TokensUsedUp == latest > 0 /\ run[latest].token >= MaxToken

Goto(t, label) == task' = [task EXCEPT ![t].pc = label]
Stop(t) == task' = [task EXCEPT ![t] = IdleTask]

(* Task t now executes attempt a under fencing token k. *)
Claim(t, a, k, label) ==
  task' = [task EXCEPT ![t].pc = label, ![t].att = a, ![t].tok = k]

(* A run that ends outside finalize_run: its lease is cleared. *)
Ended(a, status, why, notes) ==
  [run EXCEPT ![a].status = status, ![a].lease = "none",
              ![a].error = why, ![a].intents = @ + notes]

(* Mutants: the alert keeps its status; the failure queues no notification. *)
EndRunOnly(a, status, why, notes) ==
  run' = Ended(a, status, why, notes) /\ UNCHANGED alert

EndSilently(a, status, why, notes) ==
  run' = Ended(a, status, why, 0) /\ alert' = status

(* Run a ends and the alert with it, with the notifications of the ending. *)
EndRunAndAlert(a, status, why, notes) ==
  run' = Ended(a, status, why, notes) /\ alert' = status

(* The next attempt; its first fencing token is its number. *)
InsertRun(t, rows) ==
  /\ ~AttemptsUsedUp
  /\ run' = [rows EXCEPT ![latest + 1] = FreshRun(t, latest + 1, task[t].gen)]
  /\ latest' = latest + 1
  /\ alert' = "ANALYZING"
  /\ Claim(t, latest + 1, latest + 1, "claimed")
  /\ UNCHANGED dispatch

-----------------------------------------------------------------------------
(* Mutant: an alert that is already ANALYZING is left to its first worker. *)
AnalyzeBeginOnlyQueued(t) ==
  /\ task[t].pc = "idle"
  /\ alert = "QUEUED"
  /\ dispatch = "ENABLED"
  /\ \E g \in Generations :
       task' = [task EXCEPT ![t].pc = "reclaim", ![t].gen = g]
  /\ UNCHANGED <<alert, dispatch, latest, run>>

(* analyze_by_id, up to its first write: a terminal alert is returned as it
   is, a paused dispatch raises, otherwise the task freezes the settings
   generation of its process.                                              *)
AnalyzeBegin(t) ==
  /\ task[t].pc = "idle"
  /\ alert \in {"QUEUED", "ANALYZING"}
  /\ dispatch = "ENABLED"
  /\ \E g \in Generations :
       task' = [task EXCEPT ![t].pc = "reclaim", ![t].gen = g]
  /\ UNCHANGED <<alert, dispatch, latest, run>>

(* reclaim_expired_run has nothing to take over: the dispatch is paused, no
   run is RUNNING, or its lease has not expired.  create_run follows.      *)
ReclaimNothing(t) ==
  /\ task[t].pc = "reclaim"
  /\ \/ dispatch = "PAUSED"
     \/ Running => ~run[latest].cancel /\ run[latest].lease # "expired"
  /\ Goto(t, "create")
  /\ UNCHANGED <<alert, dispatch, latest, run>>

(* A run with a pending cancellation is cancelled at once, whoever holds its
   lease.                                                                  *)
ReclaimCancelled(t) ==
  /\ task[t].pc = "reclaim"
  /\ dispatch = "ENABLED" /\ Running /\ run[latest].cancel
  /\ EndRunAndAlert(latest, "CANCELLED", "none", 0)
  /\ Goto(t, "create")
  /\ UNCHANGED <<dispatch, latest>>

ReclaimExpired(t) ==
  /\ task[t].pc = "reclaim"
  /\ dispatch = "ENABLED" /\ Running
  /\ ~run[latest].cancel /\ run[latest].lease = "expired"

(* An expired run without a checkpoint to resume from fails, with its
   internal-failure notification.                                          *)
ReclaimUnrecoverable(t) ==
  /\ ReclaimExpired(t)
  /\ ~run[latest].ckpt
  /\ EndRunAndAlert(latest, "FAILED", "unrecoverable", 1)
  /\ Goto(t, "create")
  /\ UNCHANGED <<dispatch, latest>>

(* Mutant: the manifest of a reclaimed run is taken as compatible. *)
AssumeCompatible(t) == TRUE

(* _resume_manifest_incompatible_fields is empty for the reclaimed run. *)
ManifestCompatible(t) == task[t].gen = run[latest].manifest

(* The claim moves to task t under the next token. *)
TakeOver(t) ==
  /\ run' = [run EXCEPT ![latest].owner = t, ![latest].lease = "live",
                        ![latest].token = @ + 1]
  /\ Claim(t, latest, run[latest].token + 1,
           IF ManifestCompatible(t) THEN "claimed" ELSE "incompatible")

ReclaimTakesOver(t) ==
  /\ ReclaimExpired(t)
  /\ run[latest].ckpt
  /\ ~TokensUsedUp
  /\ TakeOver(t)
  /\ UNCHANGED <<alert, dispatch, latest>>

(* create_run returns None: paused, terminal alert, or a live lease. *)
CreateRefused(t) ==
  /\ task[t].pc = "create"
  /\ \/ dispatch = "PAUSED"
     \/ alert \notin {"QUEUED", "ANALYZING"}
     \/ Running /\ run[latest].lease = "live"
  /\ Stop(t)
  /\ UNCHANGED <<alert, dispatch, latest, run>>

(* create_run meets a RUNNING run whose lease is gone: it fails that run
   without looking for a checkpoint, and creates none.                     *)
CreateMeetsExpired(t) ==
  /\ task[t].pc = "create"
  /\ dispatch = "ENABLED" /\ alert \in {"QUEUED", "ANALYZING"}
  /\ Running /\ run[latest].lease # "live"
  /\ EndRunAndAlert(latest, "FAILED", "unrecoverable", 1)
  /\ Stop(t)
  /\ UNCHANGED <<dispatch, latest>>

CreateRun(t) ==
  /\ task[t].pc = "create"
  /\ dispatch = "ENABLED" /\ alert \in {"QUEUED", "ANALYZING"}
  /\ ~Running
  /\ InsertRun(t, run)

-----------------------------------------------------------------------------
(* reanalyze, up to its first write: refused while paused, and without force
   while a run is RUNNING.                                                 *)
ReanalyzeBegin(t) ==
  /\ task[t].pc = "idle"
  /\ dispatch = "ENABLED"
  /\ \E force \in {"force", "plain"}, g \in Generations :
       /\ Running => force = "force"
       /\ task' = [task EXCEPT ![t].pc = "reanalyze", ![t].gen = g, ![t].arg = force]
  /\ UNCHANGED <<alert, dispatch, latest, run>>

ReanalyzeRefused(t) ==
  /\ task[t].pc = "reanalyze"
  /\ \/ dispatch = "PAUSED"
     \/ Running /\ run[latest].lease = "live" /\ task[t].arg # "force"
     \/ AttemptsUsedUp
  /\ Stop(t)
  /\ UNCHANGED <<alert, dispatch, latest, run>>

(* A RUNNING run is failed by the transaction that supersedes it. *)
Superseded(t) ==
  IF Running
    THEN Ended(latest, "FAILED",
               IF run[latest].lease = "live" THEN "superseded" ELSE "expired", 0)
    ELSE run

(* create_run_for_reanalyze; the background task starts on the claim. *)
ReanalyzeCreate(t) ==
  /\ task[t].pc = "reanalyze"
  /\ dispatch = "ENABLED"
  /\ Running /\ run[latest].lease = "live" => task[t].arg = "force"
  /\ InsertRun(t, Superseded(t))

-----------------------------------------------------------------------------
(* _analyze_claimed_alert: the fenced progress record that opens the run. *)
ReportClaimed(t) ==
  /\ task[t].pc = "claimed"
  /\ IF Fenced(t) THEN Goto(t, "running") ELSE Stop(t)
  /\ UNCHANGED <<alert, dispatch, latest, run>>

(* RunLeaseGuard._heartbeat: a renewal that is refused ends the task. *)
Heartbeat(t) ==
  /\ task[t].pc = "running"
  /\ IF Fenced(t)
       THEN run' = [run EXCEPT ![task[t].att].lease = "live"] /\ UNCHANGED task
       ELSE Stop(t) /\ UNCHANGED run
  /\ UNCHANGED <<alert, dispatch, latest>>

(* The checkpointer of the graph saves after a node; refused, it raises. *)
SaveCheckpoint(t) ==
  /\ task[t].pc = "running"
  /\ IF Fenced(t)
       THEN run' = [run EXCEPT ![task[t].att].ckpt = TRUE] /\ UNCHANGED task
       ELSE Stop(t) /\ UNCHANGED run
  /\ UNCHANGED <<alert, dispatch, latest>>

(* The watcher of _run_agent_with_controls, or the task's own cancellation by
   ActiveAnalysisRegistry, sees the persisted request.                     *)
SeeCancellation(t) ==
  /\ task[t].pc = "running"
  /\ run[task[t].att].status = "RUNNING" /\ run[task[t].att].cancel
  /\ Goto(t, "cancelling")
  /\ UNCHANGED <<alert, dispatch, latest, run>>

(* The graph returns a verdict, or it raises or times out. *)
AgentReturns(t) ==
  /\ task[t].pc = "running"
  /\ \E v \in Verdicts :
       task' = [task EXCEPT ![t].pc = "finalizing", ![t].arg = v]
  /\ UNCHANGED <<alert, dispatch, latest, run>>

AgentRaises(t) ==
  /\ task[t].pc = "running"
  /\ task' = [task EXCEPT ![t].pc = "failing", ![t].arg = "FAILED"]
  /\ UNCHANGED <<alert, dispatch, latest, run>>

-----------------------------------------------------------------------------
(* Mutant: a pending cancellation is not looked at. *)
MayFinalizeIgnoringCancel(t) == Fenced(t) /\ task[t].att = latest

(* finalize_run accepts: fenced, newest attempt, no pending cancellation. *)
MayFinalize(t) ==
  /\ Fenced(t)
  /\ task[t].att = latest
  /\ ~run[task[t].att].cancel

(* Mutant: the run row is finalized, the alert row is not. *)
FinalizeRunOnly(t, v, why, notes, pause) ==
  /\ MayFinalize(t)
  /\ run' = [run EXCEPT ![task[t].att].status = v, ![task[t].att].error = why,
                        ![task[t].att].intents = @ + notes]
  /\ dispatch' = IF pause THEN "PAUSED" ELSE dispatch
  /\ Stop(t)
  /\ UNCHANGED <<alert, latest>>

(* The transaction of finalize_run; the lease stays as it is.  Only a verdict
   with a model failure can pause the dispatch.                            *)
FinalizeRun(t, v, why, notes, pause) ==
  /\ MayFinalize(t)
  /\ run' = [run EXCEPT ![task[t].att].status = v, ![task[t].att].error = why,
                        ![task[t].att].intents = @ + notes]
  /\ alert' = v
  /\ dispatch' = IF pause THEN "PAUSED" ELSE dispatch
  /\ Stop(t)
  /\ UNCHANGED latest

(* finalize_run raises RunCancellationRequested, and the caller catches it. *)
FinalizeMeetsCancellation(t) ==
  /\ Fenced(t) /\ task[t].att = latest /\ run[task[t].att].cancel
  /\ Goto(t, "cancelling")
  /\ UNCHANGED <<alert, dispatch, latest, run>>

(* finalize_run raises RunLeaseConflict: the task gives up its result. *)
FinalizeLosesLease(t) ==
  /\ ~(Fenced(t) /\ task[t].att = latest)
  /\ Stop(t)
  /\ UNCHANGED <<alert, dispatch, latest, run>>

(* _persist_terminal_state with the verdict of the graph.  A completed or
   inconclusive run without a recommendation has no notification.          *)
Finalize(t) ==
  /\ task[t].pc = "finalizing"
  /\ \/ \E notes \in {0, 1}, pause \in BOOLEAN :
          /\ task[t].arg = "FAILED" => notes = 1
          /\ task[t].arg = "COMPLETED" => ~pause
          /\ FinalizeRun(t, task[t].arg,
                         IF task[t].arg = "FAILED" THEN "reported" ELSE "none",
                         notes, pause)
     \/ FinalizeMeetsCancellation(t)
     \/ FinalizeLosesLease(t)

(* The generic exception handler: RunCancellationRequested escapes from it,
   so the task stops and the run is left RUNNING.                          *)
FailRun(t) ==
  /\ task[t].pc = "failing"
  /\ \/ \E pause \in BOOLEAN : FinalizeRun(t, "FAILED", "reported", 1, pause)
     \/ /\ Fenced(t) /\ task[t].att = latest /\ run[task[t].att].cancel
        /\ Stop(t)
        /\ UNCHANGED <<alert, dispatch, latest, run>>
     \/ FinalizeLosesLease(t)

(* A reclaimed run with an incompatible manifest is failed by its reclaimer. *)
FailIncompatible(t) ==
  /\ task[t].pc = "incompatible"
  /\ \/ FinalizeRun(t, "FAILED", "incompatible", 1, FALSE)
     \/ FinalizeMeetsCancellation(t)
     \/ FinalizeLosesLease(t)

(* finalize_requested_cancellation is not fenced: it needs the run to be
   RUNNING, requested and newest; otherwise it returns or raises.          *)
FinalizeCancellation(t) ==
  /\ task[t].pc = "cancelling"
  /\ LET a == task[t].att IN
       IF run[a].status = "RUNNING" /\ run[a].cancel /\ a = latest
         THEN EndRunAndAlert(a, "CANCELLED", "none", 0)
         ELSE UNCHANGED <<run, alert>>
  /\ Stop(t)
  /\ UNCHANGED <<dispatch, latest>>

-----------------------------------------------------------------------------
(* The process of a task stops at any point and loses everything local. *)
Crash(t) ==
  /\ task[t].pc # "down"
  /\ task' = [task EXCEPT ![t] = [IdleTask EXCEPT !.pc = "down"]]
  /\ UNCHANGED <<alert, dispatch, latest, run>>

Restart(t) ==
  /\ task[t].pc = "down"
  /\ Stop(t)
  /\ UNCHANGED <<alert, dispatch, latest, run>>

LeaseExpires(a) ==
  /\ run[a].status = "RUNNING" /\ run[a].lease = "live"
  /\ run' = [run EXCEPT ![a].lease = "expired"]
  /\ UNCHANGED <<alert, dispatch, latest, task>>

(* cancel_run on any RUNNING run; a second request changes nothing. *)
RequestCancellation(a) ==
  /\ run[a].status = "RUNNING" /\ ~run[a].cancel
  /\ run' = [run EXCEPT ![a].cancel = TRUE]
  /\ UNCHANGED <<alert, dispatch, latest, task>>

(* The operator resumes; a finalizing run of another alert pauses. *)
ResumeDispatch ==
  /\ dispatch = "PAUSED"
  /\ dispatch' = "ENABLED"
  /\ UNCHANGED <<alert, latest, run, task>>

OtherAlertPauses ==
  /\ dispatch = "ENABLED"
  /\ dispatch' = "PAUSED"
  /\ UNCHANGED <<alert, latest, run, task>>

-----------------------------------------------------------------------------
(* What task t does once it has started, when it is neither crashing nor
   merely renewing its lease or saving a checkpoint.                       *)
Advance(t) ==
  \/ ReclaimNothing(t) \/ ReclaimCancelled(t)
  \/ ReclaimUnrecoverable(t) \/ ReclaimTakesOver(t)
  \/ CreateRefused(t) \/ CreateMeetsExpired(t) \/ CreateRun(t)
  \/ ReanalyzeRefused(t) \/ ReanalyzeCreate(t)
  \/ ReportClaimed(t) \/ SeeCancellation(t)
  \/ AgentReturns(t) \/ AgentRaises(t)
  \/ Finalize(t) \/ FailRun(t) \/ FailIncompatible(t)
  \/ FinalizeCancellation(t)

TaskStep(t) ==
  \/ AnalyzeBegin(t) \/ ReanalyzeBegin(t)
  \/ Advance(t) \/ Heartbeat(t) \/ SaveCheckpoint(t)
  \/ Crash(t) \/ Restart(t)

Next ==
  \/ \E t \in Tasks : TaskStep(t)
  \/ \E a \in Attempt : LeaseExpires(a) \/ RequestCancellation(a)
  \/ ResumeDispatch
  \/ OtherAlertPauses

Spec == Init /\ [][Next]_vars

(* No living task is executing the claim that attempt a records. *)
Orphaned(a) ==
  \A t \in Tasks : task[t].att = a => task[t].tok # run[a].token

(* The analysis timeout ends every graph, a stopped process is restarted, and
   the lease of a run nobody renews runs out.  Crashes, pauses, requests and
   the expiry of a lease that is being renewed are not fair: they may never
   happen.                                                                  *)
Fairness ==
  /\ \A t \in Tasks : WF_vars(Advance(t)) /\ WF_vars(Restart(t))
  /\ \A a \in Attempt : WF_vars(Orphaned(a) /\ LeaseExpires(a))

FairSpec == Spec /\ Fairness

-----------------------------------------------------------------------------
(* The types of the rows and of the local state of the tasks. *)
RunRow ==
  [status : {"absent", "RUNNING"} \cup Decided, token : 0 .. MaxToken,
   owner : Tasks \cup {NoTask}, lease : {"none", "live", "expired"},
   cancel : BOOLEAN, ckpt : BOOLEAN, manifest : Generations \cup {NoGeneration},
   error : RunErrors, intents : Nat]

Claiming ==
  {"claimed", "incompatible", "running", "finalizing", "failing", "cancelling"}

TaskState ==
  [pc : {"idle", "down", "reclaim", "create", "reanalyze"} \cup Claiming,
   att : 0 .. MaxAttempts, tok : 0 .. MaxToken,
   gen : Generations \cup {NoGeneration},
   arg : {"none", "force", "plain"} \cup Verdicts]

TypeOK ==
  /\ alert \in AlertStatus
  /\ dispatch \in {"ENABLED", "PAUSED"}
  /\ latest \in 0 .. MaxAttempts
  /\ run \in [Attempt -> RunRow]
  /\ task \in [Tasks -> TaskState]

(* At most one run of an alert is RUNNING, and it is the newest attempt: no
   interleaving of claims, reclaims, reanalyses and crashes leaves an older
   run alive behind a newer one (create_run, create_run_for_reanalyze).     *)
OnlyLatestRuns ==
  \A a \in Attempt : run[a].status = "RUNNING" => a = latest

(* The alert row and the newest run row, written by seven different
   transactions, always agree on whether and how the investigation ended.   *)
AlertMirrorsLatestRun ==
  /\ latest = 0 => alert \in {"QUEUED", "FILTERED"}
  /\ latest > 0 =>
       alert = IF Running THEN "ANALYZING" ELSE run[latest].status

(* Two tasks never hold the same fencing token of the same run, whatever was
   reclaimed from whom: the token alone tells the holder from a stale one.  *)
ClaimsAreUnique ==
  \A t, u \in Tasks :
    /\ t # u
    /\ task[t].pc \in Claiming /\ task[u].pc \in Claiming
    => task[t].att # task[u].att \/ task[t].tok # task[u].tok

(* A graph is only ever executed, and its result only finalized, under the
   settings generation frozen in the manifest of its run, also after another
   process with newer settings took the run over.                           *)
RunsUnderFrozenManifest ==
  \A t \in Tasks :
    task[t].pc \in {"claimed", "running", "finalizing", "failing"} =>
      task[t].gen = run[task[t].att].manifest

(* Once a cancellation was accepted for a run, its result is never shown. *)
CancellationWins ==
  \A a \in Attempt :
    run[a].cancel => run[a].status \notin {"COMPLETED", "INCONCLUSIVE"}

(* No run queues two notifications, however many tasks raced to end it, and
   an alert that ended in FAILED has queued one.                            *)
OneNotificationPerRun ==
  /\ \A a \in Attempt : run[a].intents <= 1
  /\ alert = "FAILED" => run[latest].intents = 1

(* A decided run row is never written again: not by a stale task, a late
   cancellation, a reclaim or a reanalysis.                                 *)
DecidedRunsAreFinal ==
  [][\A a \in Attempt : run[a].status \in Decided => run'[a] = run[a]]_vars

(* The verdict of a graph is recorded only while the task that computed it
   holds the newest token of a lease that has not expired.                  *)
OnlyHolderRecordsVerdict ==
  [][\A a \in Attempt :
       /\ run[a].status = "RUNNING"
       /\ \/ run'[a].status \in {"COMPLETED", "INCONCLUSIVE"}
          \/ run'[a].error \in {"reported", "incompatible"}
       => /\ run[a].lease = "live"
          /\ \E t \in Tasks :
               /\ task[t].pc \in {"finalizing", "failing", "incompatible"}
               /\ task[t].att = a /\ task[t].tok = run[a].token
               /\ task'[t] = IdleTask]_vars

(* A lease that expired comes back to life only under a higher token, so its
   former holder cannot revive it with a late heartbeat.                    *)
ExpiredLeaseNeedsNewToken ==
  [][\A a \in Attempt :
       run[a].lease = "expired" /\ run'[a].lease = "live"
         => run'[a].token > run[a].token]_vars

(* While the dispatch is paused nothing is claimed, although every task
   checks the state before the transaction that claims.                     *)
PausedClaimsNothing ==
  [][dispatch = "PAUSED" =>
       /\ latest' = latest
       /\ \A a \in Attempt : run'[a].token = run[a].token]_vars

(* An alert that has its result gets a new attempt only from a reanalysis,
   never from a task that read the alert before it was decided (README.md:30). *)
OnlyReanalysisReopens ==
  [][alert \notin {"QUEUED", "ANALYZING"} /\ latest' # latest =>
       \E t \in Tasks : task[t].pc = "reanalyze" /\ task'[t].att = latest']_vars

(* The run rows and the alert implement the contract of the API. *)
Contract == INSTANCE InvestigationContract WITH
  verdict <- [a \in Attempt |->
                IF run[a].status = "RUNNING" THEN "open" ELSE run[a].status],
  shown <- alert

ImplementsContract == Contract!Spec

(* A hypothesis, not a promise of this module: the queue hands an alert that
   is not terminal to a task again and again.                               *)
KeepsBeingHandedOut == SF_vars(\E t \in Tasks : AnalyzeBegin(t))

Unfinished == alert \in {"QUEUED", "ANALYZING"}
Stable == dispatch = "ENABLED" /\ \A t \in Tasks : task[t].pc # "down"

(* Once no process is down and the dispatch stays enabled, a queued or
   analysed alert that keeps being handed out reaches a terminal status
   (unless the bound on tokens stopped the recovery).                       *)
EveryAlertSettles ==
  <>[]Stable /\ KeepsBeingHandedOut =>
    (Unfinished ~> (~Unfinished \/ TokensUsedUp))

(* README.md:32: only a run whose checkpoint is missing, corrupt or
   incompatible is failed instead of resumed.  Not so between the reclaim and
   the creation: README of the models, section 4.                           *)
UnrecoverableHadNoCheckpoint ==
  \A a \in Attempt : run[a].error = "unrecoverable" => ~run[a].ckpt
=============================================================================
