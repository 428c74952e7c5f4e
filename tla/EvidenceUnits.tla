---------------------------- MODULE EvidenceUnits ----------------------------
(***************************************************************************)
(* How the result of a tool becomes evidence of the run.  The result of an *)
(* Archery investigation is taken apart: its history, each result obtained *)
(* for a row of it (execution plan, columns and indexes of its table), and *)
(* each of those that failed or is missing become units that are judged on *)
(* their own.  Any other result is evidence as a whole.                    *)
(*                                                                         *)
(* The history is that of ArcheryInvestigation when the harness stops; the *)
(* order of its supplemental calls is left open here, and a row has one    *)
(* table.                                                                  *)
(***************************************************************************)
EXTENDS Absence, Naturals, FiniteSets

CONSTANTS
  Rows,          \* history rows with a sample that EXPLAIN accepts
  MaxStumbles    \* bound: supplemental calls that fail and may be repeated

VARIABLES
  source,        \* what was called, and what it is worth
  work,          \* supplemental_work_items and supplemental_stage_states
  failures,      \* slow_query_analysis_failures
  record         \* the EvidenceRecord that is stored

unitVars == <<source, work, failures, record>>

ResultStages == {"explain", "table_structure", "indexes"}
Stages == {"target_resolution"} \cup ResultStages
Tools == {"targets", "query", "columns"}

\* What became of the history.
HistoryKinds == {"complete", "incomplete", "empty", "unparsed", "none"}
Statuses == {"SUCCESS", "NO_DATA", "FAILED", "TIMEOUT"}
Others == {"prometheus", "generic", "flashduty", "similar", "alert_context", "unknown"}

Archery(history, rows, tools, recovered) ==
  [system |-> "archery", history |-> history, rows |-> rows, tools |-> tools,
   recovered |-> recovered]
Other(system, status, facts) == [system |-> system, status |-> status, facts |-> facts]

\* Rows are explained once the history is complete.  It may have been
\* recovered after a failure, which is then on record.
Sources ==
  {Archery("complete", rows, tools, recovered) :
     rows \in SUBSET Rows, tools \in SUBSET Tools, recovered \in BOOLEAN}
  \cup {Archery(history, {}, Tools, FALSE) : history \in HistoryKinds \ {"complete"}}
  \cup {Other(system, status, facts) :
          system \in Others, status \in Statuses, facts \in BOOLEAN}

IsArchery == source.system = "archery"
Candidates == IF IsArchery THEN source.rows ELSE {}

Failure(stage, row, terminal) == [stage |-> stage, row |-> row, terminal |-> terminal]
Recovered == Failure("history_recovery", None, FALSE)
NoSafeSample == Failure("explain", "no_safe_explainable_sample", FALSE)

\* _initialize_supplemental_stage_states: what the tools at hand rule out.
Ruled(stage, tools) ==
  \/ "targets" \notin tools
  \/ stage \in {"explain", "indexes"} /\ "query" \notin tools
  \/ stage = "table_structure" /\ tools \cap {"query", "columns"} = {}

UnitsInit ==
  /\ source \in Sources
  /\ work = [r \in Candidates |-> [s \in Stages |->
               IF Ruled(s, source.tools) THEN "UNAVAILABLE" ELSE "PENDING"]]
  /\ failures = IF IsArchery /\ source.recovered THEN {Recovered} ELSE {}
  /\ record = None

-----------------------------------------------------------------------------
(* The supplemental calls.                                                 *)

\* _mark_supplemental_stage_terminal
Marked(r, s, status) ==
  [work EXCEPT ![r] = [t \in Stages |->
     IF t = s THEN status
     ELSE IF s = "target_resolution" /\ status # "SUCCEEDED" /\ @[t] = "PENDING"
          THEN "UNAVAILABLE" ELSE @[t]]]

Ready(r, s) ==
  /\ record = None /\ work[r][s] = "PENDING"
  /\ s # "target_resolution" => work[r]["target_resolution"] = "SUCCEEDED"

Succeed(r, s) ==
  /\ Ready(r, s)
  /\ work' = Marked(r, s, "SUCCEEDED")
  /\ UNCHANGED <<source, failures, record>>

\* An empty plan, a target that is not bound, a rejected call.
Fail(r, s) ==
  /\ Ready(r, s)
  /\ work' = Marked(r, s, "FAILED_TERMINAL")
  /\ failures' = failures \cup {Failure(s, r, TRUE)}
  /\ UNCHANGED <<source, record>>

Stumble(r, s) ==
  /\ Ready(r, s)
  /\ Cardinality({f \in failures : ~f.terminal /\ f.row # None}) < MaxStumbles
  /\ failures' = failures \cup {Failure(s, r, FALSE)}
  /\ UNCHANGED <<source, work, record>>

-----------------------------------------------------------------------------
(* _query_result and _build_slow_query_analysis, when the harness stops,   *)
(* also before the work is done.                                           *)

\* _refresh_supplemental_stage_states
StageState(s) ==
  LET statuses == {work[r][s] : r \in Candidates} IN
  CASE statuses = {} -> "NOT_APPLICABLE"
    [] "PENDING" \in statuses -> "PENDING"
    [] statuses = {"SUCCEEDED"} -> "SUCCEEDED"
    [] "FAILED_TERMINAL" \in statuses -> "FAILED_TERMINAL"
    [] OTHER -> "UNAVAILABLE"

\* _finalize_deterministic_pipeline_stop: rows that were not settled.
Unfinished == \E r \in Candidates : \E s \in Stages : work[r][s] = "PENDING"
PipelineStop == IF Unfinished THEN {Failure("explain", "stopped", TRUE)} ELSE {}

\* Pairs of a stage and a row.
Obtained == {o \in ResultStages \X Candidates : work[o[2]][o[1]] = "SUCCEEDED"}

SlowQueryAnalysis ==
  [results |-> Obtained,
   missing |-> {s \in ResultStages : \E r \in Candidates : <<s, r>> \notin Obtained},
   failures |-> failures \cup PipelineStop
                \cup (IF Candidates = {} THEN {NoSafeSample} ELSE {}),
   states |-> [s \in Stages |-> StageState(s)]]

-----------------------------------------------------------------------------
(* ArcherySlowLogEvidenceTool.execute: the status of the execution.        *)

HasRows == source.history \in {"complete", "incomplete"}
ExecutionStatus ==
  IF ~IsArchery THEN source.status
  ELSE IF source.history = "complete" THEN "SUCCESS" ELSE "NO_DATA"

-----------------------------------------------------------------------------
(* DeterministicToolResultProcessor: whether a result holds facts.         *)

Routed == source.system # "unknown"
AnalysisUsable == IF IsArchery THEN HasRows ELSE source.facts

-----------------------------------------------------------------------------
(* _archery_evidence_units                                                 *)

Unit(stage, of, status, eligible) ==
  [stage |-> stage, of |-> of, status |-> status, eligible |-> eligible]

HistoryUnit ==
  CASE source.history = "unparsed" -> Unit("history", None, "FAILED", FALSE)
    [] source.history = "incomplete" -> Unit("history", None, "FAILED", FALSE)
    [] source.history = "complete" -> Unit("history", None, "SUCCESS", ExecutionStatus = "SUCCESS")
    [] source.history = "empty" -> Unit("history", None, "NO_DATA", FALSE)

\* Mutant: a failed supplement is held against the other results.
ResultUnitsIfAllSucceeded(a) ==
  {Unit(result[1], result[2], "SUCCESS", ExecutionStatus = "SUCCESS" /\ a.failures = {}) :
     result \in a.results}

ResultUnits(a) ==
  {Unit(result[1], result[2], "SUCCESS", ExecutionStatus = "SUCCESS") : result \in a.results}

Overcome(f) ==
  /\ f.stage = "history_recovery" /\ ~f.terminal
  /\ source.history \in {"complete", "empty"}

FailureUnits(a) ==
  {Unit(f.stage, f,
        IF Overcome(f) THEN "RECOVERED"
        ELSE IF f = NoSafeSample THEN "NOT_APPLICABLE" ELSE "FAILED", FALSE) :
     f \in a.failures}

\* A stage with a failure has been told of already.
MissingUnits(a) ==
  LET told == {f.stage : f \in {g \in a.failures : ~Overcome(g)}}
      partly == {result[1] : result \in a.results}
  IN {Unit(s, "missing",
           CASE a.states[s] = "UNAVAILABLE" -> "UNAVAILABLE"
             [] a.states[s] = "FAILED_TERMINAL" -> "FAILED"
             [] a.states[s] = "NOT_APPLICABLE" -> "NOT_APPLICABLE"
             [] a.states[s] = "SUCCEEDED" /\ s \in partly -> "PARTIAL"
             [] OTHER -> "NO_DATA", FALSE) :
        s \in a.missing \ told}

ArcheryEvidenceUnits ==
  IF ~IsArchery \/ source.history = "none" THEN {}
  ELSE LET a == SlowQueryAnalysis
       IN {HistoryUnit} \cup ResultUnits(a) \cup FailureUnits(a) \cup MissingUnits(a)

-----------------------------------------------------------------------------
(* _project_tool_result                                                    *)

ContextOnly == source.system \in {"similar", "alert_context"}

\* The projector is missing or raises; no route is one way to.
Unusable(status, why) ==
  [status |-> status, processing |-> why, units |-> {}, eligible |-> FALSE]

ProjectedRecord ==
  IF ExecutionStatus \in {"FAILED", "TIMEOUT"} THEN Unusable(ExecutionStatus, "unavailable")
  ELSE IF ~Routed THEN Unusable(ExecutionStatus, "failed")
  ELSE [status |-> ExecutionStatus,
        processing |-> IF IsArchery /\ source.history = "unparsed"
                       THEN "unavailable" ELSE "completed",
        units |-> ArcheryEvidenceUnits,
        eligible |-> /\ ExecutionStatus = "SUCCESS" /\ AnalysisUsable /\ ~ContextOnly
                     /\ ArcheryEvidenceUnits = {}]

ProjectResult ==
  /\ record = None
  /\ record' = ProjectedRecord
  /\ UNCHANGED <<source, work, failures>>

ProjectionFails ==
  /\ record = None
  /\ record' = Unusable(ExecutionStatus, "failed")
  /\ UNCHANGED <<source, work, failures>>

UnitsNext ==
  \/ \E r \in Candidates, s \in Stages : Succeed(r, s) \/ Fail(r, s) \/ Stumble(r, s)
  \/ ProjectResult \/ ProjectionFails

UnitsSpec == UnitsInit /\ [][UnitsNext]_unitVars

-----------------------------------------------------------------------------
(* Properties.                                                             *)

UnitStatuses ==
  {"SUCCESS", "PARTIAL", "FAILED", "NO_DATA", "RECOVERED", "UNAVAILABLE", "NOT_APPLICABLE"}

\* Types, and what EvidenceUnit and EvidenceRecord refuse to hold.
UnitsTypeOK ==
  /\ source \in Sources
  /\ work \in [Candidates ->
       [Stages -> {"PENDING", "SUCCEEDED", "FAILED_TERMINAL", "UNAVAILABLE"}]]
  /\ record # None =>
       /\ record.status \in Statuses
       /\ \A u \in record.units :
            /\ u.status \in UnitStatuses
            /\ u.eligible => u.status = "SUCCESS" /\ record.status = "SUCCESS"

\* is_root_cause_support_eligible of the record, and of its units.
Supports == record # None /\ record.eligible
SupportingUnits ==
  IF record = None THEN {}
  ELSE {<<u.stage, u.of>> : u \in {v \in record.units : v.eligible}}

\* project-architecture.md:376-377: the history and each supplemental result
\* are judged on their own.  Whatever else failed, was skipped or was cut
\* short, the complete history and every result obtained for one of its rows
\* may support a cause, nothing else may, and each stage that lacks a result
\* is told.  A result that is not taken apart supports a cause only when it
\* is a success with facts about this alert.
EvidenceIsJudgedInParts ==
  /\ record # None /\ IsArchery /\ record.processing # "failed" =>
       /\ SupportingUnits =
            IF source.history = "complete" THEN Obtained \cup {<<"history", None>>} ELSE {}
       /\ ~record.eligible
       /\ \A r \in Candidates, s \in ResultStages :
            <<s, r>> \notin Obtained =>
              \E u \in record.units : u.stage = s /\ u.status \notin {"SUCCESS", "RECOVERED"}
  /\ Supports => source.facts /\ source.status = "SUCCESS" /\ ~ContextOnly
=============================================================================
