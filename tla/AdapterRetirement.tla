--------------------------- MODULE AdapterRetirement ---------------------------
(***************************************************************************)
(* The model adapters of one process.  apply_runtime_settings gives the    *)
(* service a new adapter and retires the one it replaces, which is closed  *)
(* in a background task once no analysis is active.  Analyses capture the  *)
(* adapter they start with: those of the scheduler and the probes of the   *)
(* administrator as they become active, the reanalyses in the request that *)
(* starts them in the background.                                          *)
(*                                                                         *)
(* An adapter is the number of its generation.                             *)
(***************************************************************************)
EXTENDS Naturals, FiniteSets

CONSTANTS
  Analyses,         \* analyze_by_id and validate_and_resume_dispatch calls
  Reanalyses,       \* reanalyze calls
  MaxGeneration     \* bound on the settings changes

Investigations == Analyses \cup Reanalyses

VARIABLES
  current,     \* service.advisor, and the agent built on it
  closed,      \* the adapters whose client is closed
  retired,     \* _retired_adapters
  retirement,  \* _retirement_task: whether there is one, what it is closing
  active,      \* _active_analyses
  task         \* per task, where it is and the adapter it captured

adapterVars == <<current, closed, retired, retirement, active, task>>

NoRetirement == [running |-> FALSE, batch |-> {}]

RetirementInit ==
  /\ current = 0 /\ closed = {} /\ retired = {} /\ active = 0
  /\ retirement = NoRetirement
  /\ task = [t \in Investigations |-> [pc |-> "new", adapter |-> 0]]

-----------------------------------------------------------------------------
(* _schedule_retired_adapter_close: one task at a time. *)
Scheduled(adapters) ==
  IF adapters # {} /\ ~retirement.running THEN [running |-> TRUE, batch |-> {}]
  ELSE retirement

(* apply_runtime_settings swaps the service's components and retire_adapters
   keeps the old one, all without an await.                                *)
Apply ==
  /\ current < MaxGeneration
  /\ current' = current + 1
  /\ retired' = retired \cup {current}
  /\ retirement' = IF active = 0 THEN Scheduled(retired') ELSE retirement
  /\ UNCHANGED <<closed, active, task>>

(* _close_retired_adapters takes what is retired while nothing is active. *)
CloseBatch ==
  /\ retirement.running /\ retirement.batch = {}
  /\ active = 0 /\ retired # {}
  /\ retirement' = [retirement EXCEPT !.batch = retired]
  /\ retired' = {}
  /\ UNCHANGED <<current, closed, active, task>>

CloseOne(a) ==
  /\ a \in retirement.batch
  /\ closed' = closed \cup {a}
  /\ retirement' = [retirement EXCEPT !.batch = @ \ {a}]
  /\ UNCHANGED <<current, retired, active, task>>

(* The loop ends; its finally looks again. *)
CloseEnds ==
  /\ retirement.running /\ retirement.batch = {}
  /\ ~(active = 0 /\ retired # {})
  /\ retirement' = NoRetirement
  /\ UNCHANGED <<current, closed, retired, active, task>>

-----------------------------------------------------------------------------
(* analyze_by_id, validate_and_resume_dispatch: counted and captured at once. *)
Begin(t) ==
  /\ t \in Analyses /\ task[t].pc = "new"
  /\ active' = active + 1
  /\ task' = [task EXCEPT ![t] = [pc |-> "using", adapter |-> current]]
  /\ UNCHANGED <<current, closed, retired, retirement>>

(* reanalyze captures the agent and goes to the database for its run, *)
Capture(t) ==
  /\ t \in Reanalyses /\ task[t].pc = "new"
  /\ task' = [task EXCEPT ![t] = [pc |-> "creating", adapter |-> current]]
  /\ UNCHANGED <<current, closed, retired, retirement, active>>

(* which may refuse it. *)
NotCreated(t) ==
  /\ task[t].pc = "creating"
  /\ task' = [task EXCEPT ![t].pc = "done"]
  /\ UNCHANGED <<current, closed, retired, retirement, active>>

(* _run_background_reanalysis counts itself when the loop runs it. *)
BackgroundRun(t) ==
  /\ task[t].pc = "creating"
  /\ active' = active + 1
  /\ task' = [task EXCEPT ![t].pc = "using"]
  /\ UNCHANGED <<current, closed, retired, retirement>>

(* Mutant: the last analysis to end does not look at the retired adapters. *)
EndOnly(t) ==
  /\ task[t].pc = "using"
  /\ active' = active - 1
  /\ task' = [task EXCEPT ![t].pc = "done"]
  /\ UNCHANGED <<current, closed, retired, retirement>>

(* The finally of every analysis. *)
End(t) ==
  /\ task[t].pc = "using"
  /\ active' = active - 1
  /\ retirement' = IF active' = 0 THEN Scheduled(retired) ELSE retirement
  /\ task' = [task EXCEPT ![t].pc = "done"]
  /\ UNCHANGED <<current, closed, retired>>

-----------------------------------------------------------------------------
RetirementNext ==
  \/ Apply \/ CloseBatch \/ CloseEnds
  \/ \E a \in 0 .. MaxGeneration : CloseOne(a)
  \/ \E t \in Investigations :
       Begin(t) \/ Capture(t) \/ NotCreated(t) \/ BackgroundRun(t) \/ End(t)

(* The event loop runs its tasks, closing a client ends, and an analysis is
   bounded by its timeout.                                                 *)
Fairness ==
  /\ WF_adapterVars(CloseBatch) /\ WF_adapterVars(CloseEnds)
  /\ \A a \in 0 .. MaxGeneration : WF_adapterVars(CloseOne(a))
  /\ \A t \in Investigations : WF_adapterVars(BackgroundRun(t)) /\ WF_adapterVars(End(t))

RetirementSpec == RetirementInit /\ [][RetirementNext]_adapterVars /\ Fairness

-----------------------------------------------------------------------------

(* A replaced adapter is closed in the end, whatever was active when it was
   replaced and when its closing began.                                    *)
RetiredAdaptersAreClosed ==
  \A a \in 0 .. MaxGeneration : (a < current) ~> (a \in closed)

(* service.py:444 "Run a claimed investigation while its adapter generation
   stays alive": a reanalysis too.                                         *)
ClaimedRunsKeepTheirAdapter ==
  \A t \in Investigations : task[t].pc = "using" => task[t].adapter \notin closed

(* What remains of that promise: whoever is counted from the moment it captures
   its adapter, an analysis of the scheduler or a probe, keeps it until it ends. *)
CountedRunsKeepTheirAdapter ==
  \A t \in Analyses : task[t].pc = "using" => task[t].adapter \notin closed
=============================================================================
