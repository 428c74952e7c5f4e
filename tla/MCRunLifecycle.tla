--------------------------- MODULE MCRunLifecycle ---------------------------
(***************************************************************************)
(* Finite instances of the hand-over of alerts to the workers, of the run  *)
(* lifecycle and of the dispatch of one tool action within a run, for one  *)
(* run of TLC: a behaviour is one of the component that "part" names,      *)
(* while the others rest in their initial states.                          *)
(***************************************************************************)
EXTENDS RunLifecycle, OuterDispatch, DispatchQueue, TLC

VARIABLES part

MCInit ==
  /\ part \in {"lifecycle", "dispatch", "queue"}
  /\ Init /\ (part = "lifecycle" \/ alert = "QUEUED")
  /\ CallInit
  /\ QueueInit /\ (part = "queue" \/ gate = "ENABLED")

\* The last disjunct: the calls of a dispatch end, the others never do.
MCNext ==
  \/ part = "lifecycle" /\ Next /\ UNCHANGED <<part, callVars, queueVars>>
  \/ part = "queue" /\ QueueNext /\ UNCHANGED <<part, vars, callVars>>
  \/ part = "dispatch" /\ CallNext /\ UNCHANGED <<part, vars, queueVars>>
  \/ part = "dispatch" /\ UNCHANGED <<part, vars, callVars, queueVars>>

MCSpec == MCInit /\ [][MCNext]_<<part, vars, callVars, queueVars>>

\* The tasks and the generations are interchangeable.
Symmetry == Permutations(Tasks) \cup Permutations(Generations)
=============================================================================
