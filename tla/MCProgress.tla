------------------------------ MODULE MCProgress ------------------------------
(***************************************************************************)
(* What must happen in the end, in the components whose progress does not  *)
(* depend on one another, side by side for one run of TLC: a behaviour is  *)
(* one of the component that "part" names, while the others rest in their  *)
(* initial states.  Only the component that moves is treated fairly.       *)
(***************************************************************************)
EXTENDS ReactLoop, MemoryScheduler, AgentTrace

CONSTANTS
  Analyses, Reanalyses, MaxGeneration,                         \* AdapterRetirement
  Tasks, Generations, RunAttempts, MaxToken,                   \* RunLifecycle
  Deliveries, Invalid, BatchLimit, AttemptLimit, MaxRetries,   \* NotificationOutbox
  Callers, CallToken                                           \* OuterDispatch

VARIABLES
  part,
  runAlert, runDispatch, latest, run, runTask,                 \* RunLifecycle
  outbox, cycle, wire,                                         \* NotificationOutbox
  current, closed, retired, retirement, active, task,          \* AdapterRetirement
  lease, inv, artifact, caller, remote                         \* OuterDispatch

Lifecycle == INSTANCE RunLifecycle WITH
  alert <- runAlert, dispatch <- runDispatch, task <- runTask,
  MaxAttempts <- RunAttempts
Outbox == INSTANCE NotificationOutbox WITH worker <- cycle
Adapters == INSTANCE AdapterRetirement
Dispatching == INSTANCE OuterDispatch WITH calls <- remote, MaxEpoch <- CallToken

lifecycleVars == <<runAlert, runDispatch, latest, run, runTask>>
outboxVars == <<outbox, cycle, wire>>
adapterVars == <<current, closed, retired, retirement, active, task>>
callVars == <<lease, inv, artifact, caller, remote>>

MCInit ==
  /\ part \in {"lifecycle", "outbox", "memory", "adapters", "graph", "call", "trace"}
  /\ Lifecycle!Init /\ (part = "lifecycle" \/ runAlert = "QUEUED")
  /\ Outbox!OutboxInit /\ MemoryInit /\ Adapters!RetirementInit /\ Init
  /\ Dispatching!CallInit /\ TraceInit

MCNext ==
  \/ /\ part = "lifecycle" /\ Lifecycle!Next
     /\ UNCHANGED <<part, outboxVars, schedulerVars, adapterVars, vars, callVars, traceVars>>
  \/ /\ part = "outbox" /\ Outbox!OutboxNext
     /\ UNCHANGED <<part, lifecycleVars, schedulerVars, adapterVars, vars, callVars, traceVars>>
  \/ /\ part = "memory" /\ MemoryNext
     /\ UNCHANGED <<part, lifecycleVars, outboxVars, adapterVars, vars, callVars, traceVars>>
  \/ /\ part = "adapters" /\ Adapters!RetirementNext
     /\ UNCHANGED <<part, lifecycleVars, outboxVars, schedulerVars, vars, callVars, traceVars>>
  \/ /\ part = "graph" /\ Next
     /\ UNCHANGED <<part, lifecycleVars, outboxVars, schedulerVars, adapterVars, callVars, traceVars>>
  \/ /\ part = "call" /\ Dispatching!CallNext
     /\ UNCHANGED <<part, lifecycleVars, outboxVars, schedulerVars, adapterVars, vars, traceVars>>
  \/ /\ part = "trace" /\ TraceNext
     /\ UNCHANGED <<part, lifecycleVars, outboxVars, schedulerVars, adapterVars, vars, callVars>>

(* The fairness of the component that moves, as in its module. *)
MCFairness ==
  /\ \A t \in Tasks :
       /\ WF_lifecycleVars(part = "lifecycle" /\ Lifecycle!Advance(t))
       /\ WF_lifecycleVars(part = "lifecycle" /\ Lifecycle!Restart(t))
  /\ \A a \in 1 .. RunAttempts :
       WF_lifecycleVars(part = "lifecycle" /\ Lifecycle!Orphaned(a) /\ Lifecycle!LeaseExpires(a))
  /\ \A w \in Workers :
       /\ WF_outboxVars(part = "outbox" /\ Outbox!Deliver(w))
       /\ WF_outboxVars(part = "outbox" /\ Outbox!CycleRestart(w))
       /\ WF_schedulerVars(part = "memory" /\ Get(w))
       /\ SF_schedulerVars(part = "memory" /\ Admit(w))
       /\ WF_schedulerVars(part = "memory" /\ Turn(w))
  /\ SF_outboxVars(part = "outbox" /\ \E w \in Workers : Outbox!ClaimBatch(w))
  /\ \A d \in Deliveries :
       /\ WF_outboxVars(part = "outbox" /\ Outbox!ClaimExpires(d))
       /\ WF_outboxVars(part = "outbox" /\ Outbox!RetryDue(d))
  /\ \A a \in Alerts :
       /\ WF_schedulerVars(part = "memory" /\ RetryLater(a))
       /\ WF_schedulerVars(part = "memory" /\ Put(a))
       /\ WF_schedulerVars(part = "memory" /\ LeaseEnds(a))
  /\ WF_adapterVars(part = "adapters" /\ Adapters!CloseBatch)
  /\ WF_adapterVars(part = "adapters" /\ Adapters!CloseEnds)
  /\ \A a \in 0 .. MaxGeneration : WF_adapterVars(part = "adapters" /\ Adapters!CloseOne(a))
  /\ \A t \in Adapters!Investigations :
       /\ WF_adapterVars(part = "adapters" /\ Adapters!BackgroundRun(t))
       /\ WF_adapterVars(part = "adapters" /\ Adapters!End(t))
  /\ WF_vars(part = "graph" /\ Work)
  /\ WF_vars(part = "graph" /\ StoreCheckpoint)
  /\ WF_vars(part = "graph" /\ Resume)
  /\ WF_callVars(part = "call" /\ Dispatching!DeadlinePasses)
  /\ \A c \in Callers : WF_callVars(part = "call" /\ Dispatching!Proceed(c))
  /\ WF_traceVars(part = "trace" /\ Poll)

MCSpec ==
  /\ MCInit
  /\ [][MCNext]_<<part, lifecycleVars, outboxVars, schedulerVars, adapterVars, vars, callVars, traceVars>>
  /\ MCFairness

-----------------------------------------------------------------------------
EveryAlertSettles == part = "lifecycle" => Lifecycle!EveryAlertSettles
EveryIntentSettles == part = "outbox" => Outbox!EveryIntentSettles
EveryRunEnds == part = "graph" => RunEnds
EveryCallEnds == part = "call" => Dispatching!EveryCallEnds
ReplacedAdaptersAreClosed == part = "adapters" => Adapters!RetiredAdaptersAreClosed
=============================================================================
