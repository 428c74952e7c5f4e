----------------------- MODULE PrometheusInvestigation -----------------------
(***************************************************************************)
(* PrometheusHarnessScenario and what becomes of its answers: the model    *)
(* asks the metrics server, the Host keeps what belongs to the alert's     *)
(* target and window, the tool adapter gives the result a status, and the  *)
(* outer dispatch turns it into the evidence the main agent reads.         *)
(*                                                                         *)
(* Persistence and resumption are McpHarness's; planner answers that are   *)
(* repaired leave no trace in the result and are left out.  A label set    *)
(* the Host may publish is a member of Metrics; a series that misses the   *)
(* target, the window or a readable sample is one the reply lacks.         *)
(***************************************************************************)
EXTENDS Absence, Naturals, Sequences, FiniteSets

CONSTANTS
  Queries,      \* PromQL expressions the model may send
  Rates,        \* those of them whose value is a rate; the others are raw
  Metrics,      \* public label sets of series
  MaxCalls      \* bound: calls of an investigation, retries included

VARIABLES
  stage,        \* where the harness is
  call,         \* the call decided on, or None
  responses,    \* state.responses, with the series each reply had (history)
  attempts,     \* state.tool_attempts
  hostScope,    \* state.host_monitoring_scope_status
  declared,     \* state.monitoring_scope_status: what the model says
  finish,       \* why the harness stopped
  result,       \* what the tool adapter returned
  projected      \* what the outer dispatch made of it

metricVars == <<stage, call, responses, attempts, hostScope, declared, finish, result, projected>>

\* range: _is_range_query_tool; exact: the arguments name the alert's window.
Call == [range : BOOLEAN, exact : BOOLEAN, query : Queries]
Scopes == {"not_checked", "unknown", "in_scope", "out_of_scope"}

MetricsInit ==
  /\ stage = "connecting"
  /\ call = None
  /\ responses = <<>> /\ attempts = <<>>
  /\ hostScope = "unknown" /\ declared = "not_checked"
  /\ finish = None /\ result = None /\ projected = None

-----------------------------------------------------------------------------
(* The investigation.                                                      *)

Semantics(q) == IF q \in Rates THEN "rate" ELSE "raw"

\* Mutant: the window is left to the model.
NeverRejected(c) == FALSE
\* _range_window_rejection: a range query for another window is not sent.
RejectedLocally(c) == c.range /\ ~c.exact

\* project_alert_window_range: none of several series with the same public
\* labels can be told from the others, so all of them go.
Kept(c, count) == IF c.exact THEN {m \in Metrics : count[m] = 1} ELSE {}

Capability(c) == IF RejectedLocally(c) THEN "host_window_validation"
                 ELSE IF c.range THEN "range_query" ELSE "remote_tool"

Attempt(c, outcome) == [call |-> c, capability |-> Capability(c), outcome |-> outcome]

Connect ==
  /\ stage = "connecting"
  /\ stage' = IF call = None THEN "planning" ELSE "calling"
  /\ UNCHANGED <<call, responses, attempts, hostScope, declared, finish, result, projected>>

Stop(reason, byModel) ==
  /\ stage' = "stopped" /\ finish' = [reason |-> reason, byModel |-> byModel]

\* A configuration error, or one that is none of the transport.
ConnectRefused ==
  /\ stage = "connecting"
  /\ Stop("FAILED", FALSE)
  /\ UNCHANGED <<call, responses, attempts, hostScope, declared, result, projected>>

Decide(c) ==
  /\ stage = "planning" /\ Len(attempts) < MaxCalls
  /\ call' = c
  /\ stage' = "calling"
  /\ UNCHANGED <<responses, attempts, hostScope, declared, finish, result, projected>>

\* record_finish keeps what the model says apart from what the Host saw.
FinishByModel(scope) ==
  /\ stage = "planning"
  /\ declared' = IF scope = None THEN declared ELSE scope
  /\ Stop("COMPLETED", TRUE)
  /\ UNCHANGED <<call, responses, attempts, hostScope, result, projected>>

Deadline ==
  /\ stage \in {"connecting", "planning", "calling"}
  /\ Stop("DEADLINE_EXCEEDED", FALSE)
  /\ UNCHANGED <<call, responses, attempts, hostScope, declared, result, projected>>

RejectLocally ==
  /\ stage = "calling" /\ RejectedLocally(call)
  /\ attempts' = Append(attempts, Attempt(call, "rejected_locally"))
  /\ call' = None /\ stage' = "planning"
  /\ UNCHANGED <<responses, hostScope, declared, finish, result, projected>>

\* count: the qualifying series of the reply by public labels; bound: some
\* series names the target; silent: the reply has no content; empty: it says
\* that no series exists.
OnResult(count, bound, silent, empty) ==
  /\ stage = "calling" /\ ~RejectedLocally(call)
  /\ responses' =
       IF silent THEN responses
       ELSE Append(responses, [call |-> call, count |-> count, kept |-> Kept(call, count)])
  /\ hostScope' = IF bound THEN "in_scope" ELSE hostScope
  /\ attempts' =
       Append(attempts, Attempt(call, IF silent \/ (call.range /\ empty) THEN "no_data" ELSE "result"))
  /\ call' = None /\ stage' = "planning"
  /\ UNCHANGED <<declared, finish, result, projected>>

\* The server answers with an error: the model may change its query.
ToolError ==
  /\ stage = "calling" /\ ~RejectedLocally(call)
  /\ attempts' = Append(attempts, Attempt(call, "tool_error"))
  /\ call' = None /\ stage' = "planning"
  /\ UNCHANGED <<responses, hostScope, declared, finish, result, projected>>

FailedBefore(c) == \E k \in DOMAIN attempts : attempts[k] = Attempt(c, "transport_error")

\* The connection is opened again; the same call is repeated once, unless it
\* timed out.
TransportFails(timeout) ==
  /\ stage = "calling" /\ ~RejectedLocally(call)
  /\ attempts' = Append(attempts, Attempt(call, "transport_error"))
  /\ call' = IF ~timeout /\ ~FailedBefore(call) THEN call ELSE None
  /\ stage' = "connecting"
  /\ UNCHANGED <<responses, hostScope, declared, finish, result, projected>>

\* Any other error of the call ends the investigation.
CallFails ==
  /\ stage = "calling" /\ ~RejectedLocally(call)
  /\ attempts' = Append(attempts, Attempt(call, "transport_error"))
  /\ call' = None
  /\ Stop("FAILED", FALSE)
  /\ UNCHANGED <<responses, hostScope, declared, result, projected>>

-----------------------------------------------------------------------------
(* From the investigation to the evidence.                                  *)

\* has_monitoring_data and _public_monitoring_results
Public == {k \in DOMAIN responses : responses[k].kept # {}}

RangeOutcomes == {attempts[k].outcome : k \in {k \in DOMAIN attempts :
                                                 attempts[k].capability = "range_query"}}
RangeAnswered == RangeOutcomes \cap {"result", "no_data"} # {}
FailedAttempt ==
  \E k \in DOMAIN attempts : attempts[k].outcome \in {"tool_error", "transport_error"}

\* collect_prometheus_with_harness: the scope the result claims.
EffectiveScope == IF Public # {} THEN "in_scope" ELSE hostScope

TerminationReason ==
  IF finish.reason = "DEADLINE_EXCEEDED" THEN "deadline_exceeded"
  ELSE IF Public # {} /\ finish.byModel THEN "finished_by_model"
  ELSE IF "no_data" \in RangeOutcomes THEN "range_query_empty"
  ELSE IF FailedAttempt THEN "prometheus_investigation_failed"
  ELSE IF EffectiveScope = "out_of_scope" THEN "database_not_monitored"
  ELSE IF declared = "unknown" /\ Public = {} THEN "monitoring_scope_unknown"
  ELSE IF finish.byModel THEN "finished_by_model"
  ELSE "protocol_error"

\* PrometheusMCPTool.execute
Status ==
  IF Public # {} THEN "SUCCESS"
  ELSE IF TerminationReason = "deadline_exceeded" THEN "TIMEOUT"
  ELSE IF RangeAnswered THEN "NO_DATA"
  ELSE IF FailedAttempt \/ ~finish.byModel THEN "FAILED"
  ELSE IF EffectiveScope = "out_of_scope" THEN "SKIPPED"
  ELSE "FAILED"

Execute ==
  /\ stage = "stopped" /\ result = None
  /\ LET partial == Public # {} /\ ~finish.byModel IN
     result' = [status |-> Status, termination |-> TerminationReason,
                scope |-> EffectiveScope, partial |-> partial,
                eligible |-> Public # {} /\ ~partial]
  /\ UNCHANGED <<stage, call, responses, attempts, hostScope, declared, finish, projected>>

Fact == [metric : Metrics, semantics : {"rate", "raw"}]
Shows(f, r) == f.metric \in r.kept /\ f.semantics = Semantics(r.call.query)

\* Mutant: the last answer wins.
FactsOfAnyAnswer == {f \in Fact : \E k \in Public : Shows(f, responses[k])}
\* _process_prometheus_range_projections: what two answers show is dropped.
Facts == {f \in Fact : Cardinality({k \in Public : Shows(f, responses[k])}) = 1}

\* _project_tool_result.  The fields of the result that survive are those of
\* _PROJECTED_STATUS_FIELDS; "partial" is none of them.
Project ==
  /\ stage = "stopped" /\ result # None
  /\ LET facts == IF result.status \in {"FAILED", "TIMEOUT"} THEN {} ELSE Facts IN
     projected' = [status |-> result.status, facts |-> facts,
                  eligible |-> result.status = "SUCCESS" /\ facts # {}]
  /\ stage' = "recorded"
  /\ UNCHANGED <<call, responses, attempts, hostScope, declared, finish, result>>

MetricsNext ==
  \/ Connect \/ ConnectRefused \/ Deadline
  \/ \E c \in Call : Decide(c)
  \/ \E scope \in (Scopes \ {"not_checked"}) \cup {None} : FinishByModel(scope)
  \/ RejectLocally \/ ToolError \/ CallFails
  \/ \E count \in [Metrics -> 0..2], bound \in BOOLEAN : OnResult(count, bound, FALSE, FALSE)
  \/ \E silent \in BOOLEAN : OnResult([m \in Metrics |-> 0], FALSE, silent, TRUE)
  \/ \E timeout \in BOOLEAN : TransportFails(timeout)
  \/ Execute \/ Project

MetricsSpec == MetricsInit /\ [][MetricsNext]_metricVars

-----------------------------------------------------------------------------
(* Properties.                                                             *)

MetricsTypeOK ==
  /\ stage \in {"connecting", "planning", "calling", "stopped", "recorded"}
  /\ call \in Call \cup {None}
  /\ hostScope \in {"unknown", "in_scope"} /\ declared \in Scopes
  /\ Len(attempts) <= MaxCalls + 1 /\ Len(responses) <= Len(attempts)

Offers(f, r) ==
  r.call.exact /\ r.count[f.metric] = 1 /\ f.semantics = Semantics(r.call.query)

\* A number shown to the main agent belongs to one series: exactly one answer
\* for the alert's window offers a single series under these labels, so it
\* cannot be another series' value or be counted twice.
\* (project_alert_window_range, _process_prometheus_range_projections)
FactsHaveOneSource ==
  projected # None =>
    \A f \in projected.facts :
      Cardinality({k \in DOMAIN responses : Offers(f, responses[k])}) = 1

\* NO_DATA reads as "asked and found nothing": only an answered range query
\* for the alert's window earns it.  (execute, _range_query_counts)
NoDataWasAsked ==
  result # None /\ result.status = "NO_DATA" =>
    \E k \in DOMAIN attempts :
      /\ attempts[k].call.range /\ attempts[k].call.exact
      /\ attempts[k].outcome \in {"result", "no_data"}

\* What the adapter marks as partial is context only and supports no cause.
\* (models.py: "Providers can reject any record with partial=true")
PartialIsNotSupport ==
  projected # None /\ result.partial => ~projected.eligible
=============================================================================
