---------------------------- MODULE RuntimeSettings ----------------------------
(***************************************************************************)
(* The administrative settings: one overrides file shared by the API and   *)
(* worker processes, each with a RuntimeSettingsManager that remembers the *)
(* overrides it last saw and a runtime built from them; and the dispatch   *)
(* gate, paused by a run whose model failed for good and resumed by an     *)
(* administrator who had the current model settings probed.                *)
(*                                                                         *)
(* A revision is a hash of its content and is modelled by the content.  Of *)
(* the settings two are kept: "ai", whose value is the AI settings revision *)
(* too, and "other".  0 is the deployment's value.                         *)
(***************************************************************************)
EXTENDS Absence, Naturals

CONSTANTS
  Processes,
  Admins,
  BaselineRunnable,   \* whether the deployment's own settings pass the validation
  MaxEdits,           \* bound on the PATCH and DELETE requests
  MaxVersion,         \* bound on the dispatch version a pause or a failed probe reaches
  MaxRestarts         \* bound on process restarts

ASSUME SettingsAssumption ==
  /\ BaselineRunnable \in BOOLEAN
  /\ MaxEdits \in Nat /\ MaxVersion \in Nat /\ MaxRestarts \in Nat

VARIABLES
  file,       \* the overrides on disk
  flock,      \* the administrator whose request holds the file lock, or None
  manager,    \* per process, _overrides and the holder of its asyncio lock
  running,    \* per process, the overrides its runtime was built from
  admin,      \* per administrator, the request in progress
  control,    \* the dispatch control row
  run,        \* per process, the AI revision frozen by its run, or None
  edits, restarts

settingsVars == <<file, flock, manager, running, admin, control, run, edits, restarts>>

Overrides == [ai : 0 .. 1, other : 0 .. 1]
Deployment == [ai |-> 0, other |-> 0]
Changes == {<<"ai", 1>>, <<"other", 1>>, <<"reset", 0>>}

Idle == [pc |-> "idle", at |-> None, seen |-> Deployment, change |-> <<"reset", 0>>,
         version |-> 0, superseded |-> FALSE]

Init ==
  /\ file = Deployment /\ flock = None
  /\ manager = [p \in Processes |-> [known |-> Deployment, busy |-> None]]
  /\ running = [p \in Processes |-> Deployment]
  /\ admin = [c \in Admins |-> Idle]
  /\ control = [state |-> "ENABLED", version |-> 0, revision |-> None]
  /\ run = [p \in Processes |-> None]
  /\ edits = 0 /\ restarts = 0

-----------------------------------------------------------------------------
(* _validate_runnable: a provider with a key and a model. *)
Runnable(overrides) == BaselineRunnable \/ overrides.ai # 0

Free(p) == manager[p].busy = None

(* The asyncio lock is released, the overrides are remembered and
   apply_runtime_settings swaps the runtime, with no await between.        *)
Adopt(p, overrides) ==
  /\ manager' = [manager EXCEPT ![p] = [known |-> overrides, busy |-> None]]
  /\ running' = [running EXCEPT ![p] = overrides]

(* reload_if_changed, in GET settings and in the worker's loop, which read
   the file in a thread while they hold the asyncio lock.                  *)
ReloadBegin(p) ==
  /\ Free(p) /\ manager[p].known # file /\ Runnable(file)
  /\ manager' = [manager EXCEPT ![p].busy = file]
  /\ UNCHANGED <<file, flock, running, admin, control, run, edits, restarts>>

ReloadEnd(p) ==
  /\ manager[p].busy \in Overrides
  /\ Adopt(p, manager[p].busy)
  /\ UNCHANGED <<file, flock, admin, control, run, edits, restarts>>

(* An administrator's page shows the settings that process knows. *)
Look(c, p) ==
  /\ admin[c].pc \in {"idle", "rejected"} /\ Free(p)
  /\ admin' = [admin EXCEPT ![c] = [Idle EXCEPT !.pc = "looking", !.at = p,
                                      !.seen = manager[p].known]]
  /\ UNCHANGED <<file, flock, manager, running, control, run, edits, restarts>>

(* PATCH or DELETE: any process may serve it. *)
Submit(c, p, change) ==
  /\ admin[c].pc = "looking" /\ edits < MaxEdits
  /\ edits' = edits + 1
  /\ admin' = [admin EXCEPT ![c].pc = "submitted", ![c].at = p, ![c].change = change]
  /\ UNCHANGED <<file, flock, manager, running, control, run, restarts>>

(* The request ends; only a rejection is remembered. *)
Answer(c, outcome) ==
  admin' = [admin EXCEPT ![c] =
              [Idle EXCEPT !.pc = IF outcome = "rejected" THEN "rejected" ELSE "idle"]]

(* Mutant: the request is compared with what the process remembers. *)
LoadLatestFromMemory(c) ==
  /\ admin[c].pc = "submitted" /\ Free(admin[c].at) /\ flock = None
  /\ IF admin[c].seen # manager[admin[c].at].known
       THEN Answer(c, "conflict") /\ UNCHANGED <<flock, manager>>
       ELSE /\ flock' = c
            /\ manager' = [manager EXCEPT ![admin[c].at].busy = c]
            /\ admin' = [admin EXCEPT ![c].pc = "loaded"]
  /\ UNCHANGED <<file, running, control, run, edits, restarts>>

(* _patch_locked_sync and _reset_locked_sync: both locks, then the revision
   of the file against the one the administrator saw.                      *)
LoadLatest(c) ==
  /\ admin[c].pc = "submitted" /\ Free(admin[c].at) /\ flock = None
  /\ IF admin[c].seen # file
       THEN Answer(c, "conflict") /\ UNCHANGED <<flock, manager>>
       ELSE /\ flock' = c
            /\ manager' = [manager EXCEPT ![admin[c].at].busy = c]
            /\ admin' = [admin EXCEPT ![c].pc = "loaded"]
  /\ UNCHANGED <<file, running, control, run, edits, restarts>>

Changed(overrides, change) ==
  IF change[1] = "reset" THEN Deployment ELSE [overrides EXCEPT ![change[1]] = change[2]]

(* The candidate is validated, and written if it can run. *)
Patch(c) ==
  /\ admin[c].pc = "loaded" /\ admin[c].change[1] # "reset"
  /\ LET candidate == Changed(admin[c].seen, admin[c].change)
     IN IF Runnable(candidate)
          THEN /\ file' = candidate
               /\ admin' = [admin EXCEPT ![c].pc = "written", ![c].seen = candidate]
               /\ UNCHANGED manager
          ELSE /\ Answer(c, "rejected")
               /\ manager' = [manager EXCEPT ![admin[c].at].busy = None]
               /\ UNCHANGED file
  /\ flock' = None
  /\ UNCHANGED <<running, control, run, edits, restarts>>

(* The reset writes first and validates the deployment's settings then. *)
Reset(c) ==
  /\ admin[c].pc = "loaded" /\ admin[c].change[1] = "reset"
  /\ file' = Deployment
  /\ IF Runnable(Deployment)
       THEN /\ admin' = [admin EXCEPT ![c].pc = "written", ![c].seen = Deployment]
            /\ UNCHANGED manager
       ELSE /\ Answer(c, "rejected")
            /\ manager' = [manager EXCEPT ![admin[c].at].busy = None]
  /\ flock' = None
  /\ UNCHANGED <<running, control, run, edits, restarts>>

(* Back on the event loop: the overrides are kept and applied. *)
Applied(c) ==
  /\ admin[c].pc = "written"
  /\ Adopt(admin[c].at, admin[c].seen)
  /\ Answer(c, "accepted")
  /\ UNCHANGED <<file, flock, control, run, edits, restarts>>

(* A process dies with its requests and its run, and starts from the file. *)
Restart(p) ==
  /\ restarts < MaxRestarts
  /\ restarts' = restarts + 1
  /\ manager' = [manager EXCEPT ![p] = [known |-> file, busy |-> None]]
  /\ running' = [running EXCEPT ![p] = file]
  /\ run' = [run EXCEPT ![p] = None]
  /\ admin' = [c \in Admins |->
                 IF admin[c].at = p /\ admin[c].pc # "looking" THEN Idle ELSE admin[c]]
  /\ flock' = IF \E c \in Admins : flock = c /\ admin[c].at = p THEN None ELSE flock
  /\ UNCHANGED <<file, control, edits>>

-----------------------------------------------------------------------------
(* A run freezes the AI revision of the process that starts it. *)
StartRun(p) ==
  /\ control.state = "ENABLED" /\ run[p] = None
  /\ run' = [run EXCEPT ![p] = running[p].ai]
  /\ UNCHANGED <<file, flock, manager, running, admin, control, edits, restarts>>

EndRun(p) ==
  /\ run[p] # None
  /\ run' = [run EXCEPT ![p] = None]
  /\ UNCHANGED <<file, flock, manager, running, admin, control, edits, restarts>>

(* Mutant: the failure of any run pauses. *)
PausesAlways(p) == TRUE

(* _pause_revision_for: the run failed under the settings still in force. *)
Pauses(p) == run[p] = running[p].ai

AlreadyPaused(revision) == control.state = "PAUSED" /\ control.revision = revision

InProbe == {"probing", "probed"}

(* finalize_run with a model failure that pauses the dispatch. *)
FailRun(p) ==
  /\ run[p] # None
  /\ IF Pauses(p) /\ ~AlreadyPaused(run[p])
       THEN /\ control.version < MaxVersion
            /\ control' = [state |-> "PAUSED", version |-> control.version + 1,
                           revision |-> run[p]]
            /\ admin' = [c \in Admins |->
                          [admin[c] EXCEPT !.superseded = @ \/ admin[c].pc \in InProbe]]
       ELSE UNCHANGED <<control, admin>>
  /\ run' = [run EXCEPT ![p] = None]
  /\ UNCHANGED <<file, flock, manager, running, edits, restarts>>

(* validate_and_resume_dispatch, up to the probe: the version and the AI
   revision the page showed are still those of the row and of the runtime.  *)
ValidateBegin(c) ==
  /\ admin[c].pc = "looking" /\ control.state = "PAUSED"
  /\ admin[c].seen.ai = running[admin[c].at].ai
  /\ admin' = [admin EXCEPT ![c].pc = "probing", ![c].version = control.version,
                            ![c].superseded = FALSE]
  /\ UNCHANGED <<file, flock, manager, running, control, run, edits, restarts>>

SettingsMoved(c) == running[admin[c].at].ai # admin[c].seen.ai

(* The probe answers, and the revision is read again. *)
ProbeSucceeds(c) ==
  /\ admin[c].pc = "probing"
  /\ IF SettingsMoved(c) THEN Answer(c, "conflict")
                         ELSE admin' = [admin EXCEPT ![c].pc = "probed"]
  /\ UNCHANGED <<file, flock, manager, running, control, run, edits, restarts>>

Unpausable(c) == control.version # admin[c].version \/ control.state # "PAUSED"


(* record_dispatch_validation *)
ProbeFails(c) ==
  /\ admin[c].pc = "probing"
  /\ IF SettingsMoved(c) \/ Unpausable(c)
       THEN UNCHANGED control
       ELSE control.version < MaxVersion /\ control' = [control EXCEPT !.version = @ + 1]
  /\ Answer(c, "conflict")
  /\ UNCHANGED <<file, flock, manager, running, run, edits, restarts>>

(* Mutant: the row is resumed without the version the request was made for. *)
ResumeAnyVersion(c) ==
  /\ admin[c].pc = "probed"
  /\ IF control.state # "PAUSED" THEN Answer(c, "conflict") /\ UNCHANGED control
     ELSE /\ control' = [control EXCEPT !.state = "ENABLED", !.version = @ + 1]
          /\ Answer(c, "accepted")
  /\ UNCHANGED <<file, flock, manager, running, run, edits, restarts>>

(* resume_analysis_dispatch *)
ResumeDispatch(c) ==
  /\ admin[c].pc = "probed"
  /\ IF Unpausable(c) THEN Answer(c, "conflict") /\ UNCHANGED control
     ELSE /\ control' = [control EXCEPT !.state = "ENABLED", !.version = @ + 1]
          /\ Answer(c, "accepted")
  /\ UNCHANGED <<file, flock, manager, running, run, edits, restarts>>

-----------------------------------------------------------------------------
Next ==
  \/ \E p \in Processes :
       \/ ReloadBegin(p) \/ ReloadEnd(p) \/ Restart(p)
       \/ StartRun(p) \/ EndRun(p) \/ FailRun(p)
  \/ \E c \in Admins, p \in Processes : Look(c, p)
  \/ \E c \in Admins, p \in Processes, change \in Changes : Submit(c, p, change)
  \/ \E c \in Admins :
       \/ LoadLatest(c) \/ Patch(c) \/ Reset(c) \/ Applied(c)
       \/ ValidateBegin(c) \/ ProbeSucceeds(c) \/ ProbeFails(c) \/ ResumeDispatch(c)

(* The thread that serves a request ends, and a process that is running
   looks at the file again: the worker in every turn of its loop, the API
   with every page.                                                        *)
Fairness ==
  /\ \A p \in Processes : WF_settingsVars(ReloadBegin(p)) /\ WF_settingsVars(ReloadEnd(p))
  /\ \A c \in Admins :
       WF_settingsVars(LoadLatest(c) \/ Patch(c) \/ Reset(c) \/ Applied(c))

Spec == Init /\ [][Next]_settingsVars /\ Fairness

-----------------------------------------------------------------------------
(* admin.py:153 "so concurrent edits are rejected".  Whoever changes the file
   changes what they saw on their page, in one key or by a reset, whichever
   process served the page and whichever serves the request.                *)
EditsBuildOnWhatWasSeen ==
  [][file' # file =>
       \E c \in Admins : admin[c].seen = file /\ file' = Changed(file, admin[c].change)]_settingsVars

(* README.md:36.  What is resumed is the pause whose settings were probed: no
   other run paused the dispatch between the request and its end.           *)
ResumesThePauseItProbed ==
  [][control.state = "PAUSED" /\ control'.state = "ENABLED" =>
       \E c \in Admins : admin[c].pc = "probed" /\ ~admin[c].superseded]_settingsVars

(* Once every process runs on the settings of the file, a run that was started
   under earlier ones cannot pause the dispatch any more.                   *)
OldRunsDoNotPause ==
  [][(\A p \in Processes : running[p] = file) /\ control'.state = "PAUSED" /\ control' # control
       => control'.revision = file.ai \/ control'.revision = control.revision]_settingsVars

(* main.py:645 and the 422 answer of the reset: what is rejected leaves the
   settings as they were, for the next start too.  A rejected reset does not:
   README, section 4.                                                       *)
RejectedRequestsChangeNothing ==
  [][\A c \in Admins :
       admin[c].pc # "rejected" /\ admin'[c].pc = "rejected" => file' = file]_settingsVars
=============================================================================
