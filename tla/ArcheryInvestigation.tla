------------------------ MODULE ArcheryInvestigation ------------------------
(***************************************************************************)
(* One investigation of Archery from the moment its planner has found the  *)
(* history table: the recovery of the History (module ArcheryHistory), the *)
(* supplemental analysis of its rows (allow list, columns, indexes,        *)
(* EXPLAIN), and the result that is made when the harness stops, whether   *)
(* by a finish call, by the deadline or by a fatal error.                  *)
(***************************************************************************)
EXTENDS ArcheryHistory

CONSTANT Targets   \* what a row was about: host, database and statement

VARIABLES
  target,   \* the target of each row: hostname_max, db_max and checksum
  sup,      \* the supplemental state, see SupInit
  ended     \* whether _query_result has made the final result

vars == <<table, length, scan, rec, result, stable, target, sup, ended>>

SupInit ==
  [allowed   |-> {},                       \* analysis_instance_endpoints
   databases |-> {},                       \* analysis_database_names
   tried     |-> {},                       \* history_host_stage_attempts
   explained |-> {},                       \* rows of slow_query_explain_results
   outcome   |-> [i \in Ids |-> "none"],   \* explain_status of a row
   unfinished |-> {}]                      \* enrichment_unfinished_ids

Init ==
  /\ HistoryInit
  /\ target \in [Ids -> Targets]
  /\ sup = SupInit
  /\ ended = FALSE

-----------------------------------------------------------------------------
(* Supplemental analysis, one row after the other.                         *)

SupplementalTime ==
  /\ Phase("ENRICHMENT") /\ ToRecover = {}
  /\ LET made == Refreshed(scan, rec) IN made.complete

\* _ensure_current_history_id, in the processing order.
ToExplain ==
  {i \in rec.order : rec.sample[i] \notin {"ANALYZED", "FAILED", "BUDGET_EXHAUSTED"}}

\* _reusable_explain_source_id: another row about the same target.
Reusable(i) ==
  /\ target[i] \in sup.allowed
  /\ \E j \in sup.explained \ {i} : target[j] = target[i]

Tried(stage, what) == <<stage, what>> \in sup.tried
(* Mutant: a call that was made is not remembered. *)
AttemptUnrecorded(stage, what) == sup

Attempt(stage, what) == [sup EXCEPT !.tried = @ \cup {<<stage, what>>}]

\* The call that is due for a row, in the order of _next_host_supplemental_call.
Due(i, stage) ==
  LET t == target[i]
      step == IF Reusable(i) THEN "settle"
              ELSE IF t \notin sup.allowed
              THEN IF Tried("instance", i) THEN "settle" ELSE "instance"
              ELSE IF t \notin sup.databases
              THEN IF Tried("database", i) THEN "settle" ELSE "database"
              ELSE IF ~Tried("columns", t) THEN "columns"
              ELSE IF ~Tried("indexes", t) THEN "indexes"
              ELSE IF ~Tried("explain", i) THEN "explain"
              ELSE "settle"
  IN  step = stage

SupplementalStep(i, stage) ==
  /\ SupplementalTime /\ i \in ToExplain /\ rec.sample[i] = "READY"
  /\ Due(i, stage)

Kept == /\ result' = Refreshed(scan, rec) /\ rec' = [rec EXCEPT !.required = FALSE]
        /\ UNCHANGED <<table, length, scan, stable, target, ended>>

\* The allow list names instances; a refusal empties everything known of it.
AskInstances(i) ==
  /\ SupplementalStep(i, "instance")
  /\ LET asked == Attempt("instance", i)
     IN  \/ \E found \in SUBSET Targets : sup' = [asked EXCEPT !.allowed = @ \cup found]
         \/ sup' = [asked EXCEPT !.allowed = {}, !.databases = {}]
  /\ Kept

AskDatabases(i) ==
  /\ SupplementalStep(i, "database")
  /\ \E found \in SUBSET {target[i]} :
       sup' = [Attempt("database", i) EXCEPT !.databases = @ \cup found]
  /\ Kept

\* A failed answer is recorded; neither stage is asked for again.
AskTable(i) ==
  /\ \E stage \in {"columns", "indexes"} :
       SupplementalStep(i, stage) /\ sup' = Attempt(stage, target[i])
  /\ Kept

Explain(i) ==
  /\ SupplementalStep(i, "explain")
  /\ \E done \in SUBSET {i} : sup' = [Attempt("explain", i) EXCEPT !.explained = @ \cup done]
  /\ Kept

\* _finish_host_history_id, from any of the returns above.
SettleRow(i) ==
  /\ SupplementalStep(i, "settle")
  /\ sup' = [sup EXCEPT !.outcome[i] = CASE Reusable(i) -> "reused"
                                         [] ~Reusable(i) /\ i \in sup.explained -> "succeeded"
                                         [] OTHER -> "failed"]
  /\ LET r == [rec EXCEPT !.sample[i] = "ANALYZED", !.current = NoId]
     IN  Recover(scan, r)
  /\ UNCHANGED <<table, length, scan, stable, target, ended>>

-----------------------------------------------------------------------------
(* The end of the investigation.                                           *)

\* next_host_call has nothing left to recover or to explain: it asks to
\* finish.  The host refuses as long as rows are neither recovered nor given
\* up by the older recovery, and then only the deadline ends the run.
HostFinishes ==
  /\ Phase("ENRICHMENT") /\ ToRecover = {}
  /\ LET made == Refreshed(scan, rec)
         required == ~made.complete /\ rec.rows # {}
         r == [rec EXCEPT !.required = required]
     IN  /\ made.complete => ToExplain = {}
         /\ rec' = r
         /\ result' = [made EXCEPT !.over = required => AllTerminal(r)]
         /\ scan' = [scan EXCEPT !.phase = "COMPLETED"]
  /\ UNCHANGED <<table, length, stable, target, sup, ended>>

\* The deadline, or a fatal error: the loop is left where it is.
Cut ==
  /\ Running
  /\ result' = [result EXCEPT !.over = TRUE]
  /\ UNCHANGED <<table, length, scan, rec, stable, target, sup, ended>>

\* _materialize_incomplete_pipeline_scan: what both lists have is reported,
\* without samples.
Available == IF scan.base = {} THEN scan.ranking ELSE Listed
MakeUp == ~result.made /\ Available # {}

Lost == {i \in rec.order : PendingSample(i)}

\* _query_result and _finalize_deterministic_pipeline_stop.
End ==
  /\ result.over /\ ~ended
  /\ ended' = TRUE
  /\ IF MakeUp
     THEN /\ rec' = [rec EXCEPT !.rows = Available, !.required = TRUE]
          /\ result' = [result EXCEPT !.made = TRUE, !.window = "FAILED_TERMINAL"]
          /\ UNCHANGED <<scan, sup>>
     ELSE IF result.made /\ scan.phase = "ENRICHMENT"
     THEN LET ready == {i \in rec.order : rec.sample[i] = "READY"}
          IN  /\ rec' = [rec EXCEPT !.current = NoId, !.got = 0,
                           !.sample = [i \in Ids |-> CASE i \in Lost -> "FAILED"
                                                       [] i \in ready -> "ANALYZED"
                                                       [] OTHER -> @[i]]]
              /\ result' = IF Lost = {} THEN result
                           ELSE [result EXCEPT !.complete = FALSE, !.window = "FAILED_TERMINAL"]
              /\ sup' = [sup EXCEPT !.unfinished = ready]
              /\ scan' = [scan EXCEPT !.phase = "COMPLETED"]
     ELSE UNCHANGED <<scan, rec, result, sup>>
  /\ UNCHANGED <<table, length, stable, target>>

Recovery == HistoryStep /\ UNCHANGED <<target, sup, ended>>

Pipeline ==
  \/ Recovery
  \/ \E i \in Ids : AskInstances(i) \/ AskDatabases(i) \/ AskTable(i) \/ Explain(i) \/ SettleRow(i)
  \/ HostFinishes

Next == Pipeline \/ Cut \/ End \/ (TableStep /\ UNCHANGED <<target, sup, ended>>)

\* The harness makes the calls; nothing here relies on the deadline.
Spec == Init /\ [][Next]_vars /\ WF_vars(Pipeline) /\ WF_vars(End)

-----------------------------------------------------------------------------
(* Properties.                                                             *)

\* A History that is called complete: both scans saw the same rows, no row
\* that was in the table all along is missing from them, every row it has was
\* recovered, and a row it lacks is one that on_failure dropped.
CompleteIsExplained ==
  result.complete =>
    /\ Consistent(scan) /\ stable \subseteq scan.ranking
    /\ rec.rows \subseteq rec.full
    /\ scan.ranking \ rec.rows \subseteq rec.refused

\* The pipeline, once started, comes to its end without the help of the
\* deadline, whatever the server answers and whatever happens to the table.
PipelineSettles == scan.phase = "RANKING" ~> (scan.phase = "COMPLETED" \/ result.over)

\* "任一分页、快照、字段、预算或分片失败都保留已收到 artifact，但 History 显式不完整"
\* (README.md:233-235): a complete History has every row that was listed.
CompleteHistoryHasEveryRow == ended /\ result.complete => rec.rows = scan.ranking
=============================================================================
