----------------------------- MODULE Conclusion -----------------------------
(***************************************************************************)
(* What becomes of the main agent's analysis: the reference policy that    *)
(* drops what it may not claim, the rule validator, and the report.        *)
(*                                                                         *)
(* The evidence of a run is abstracted to one evidence-record/v2 parent    *)
(* ("sql") with a history and an EXPLAIN unit, and one v1 record           *)
(* ("metric").  An analysis claims at most one cause; with several, each   *)
(* is filtered and validated as this one is, and one fault fails all.      *)
(***************************************************************************)
EXTENDS Naturals, FiniteSets, Sequences

CONSTANTS
  RowIds,      \* stable ids of history rows
  Invented,    \* a statement no row has; 0 is none, others name their row
  Histories    \* bound: the histories the evidence may hold

VARIABLES
  evidence,    \* what the tools left
  analysis,    \* Recommendation: as the model wrote it, then as it is kept
  judged       \* "drafted", "kept", "valid", "invalid", then the run's verdict

Refs == {"sql", "metric", "history", "explain", "bogus"}
Units == {"history", "explain"}
conclusionVars == <<evidence, analysis, judged>>

NoProblem == [ref |-> "none", sample |-> 0, statement |-> 0]

(* A history row: its stable id, and whether its SQL sample is complete. *)
Row == [id : RowIds, sample : {"full", "cut", "none"}]

ASSUME RowsAssumption ==
  /\ RowIds \subseteq Nat \ {0}
  /\ Invented \in Nat \ (RowIds \cup {0})
  /\ Histories \subseteq Seq(Row)

Evidences ==
  [parent : {"SUCCESS", "FAILED"},          \* status of the v2 record
   good : SUBSET Units,                     \* units that succeeded and are eligible
   rows : Histories,
   explained : RowIds]                      \* source_history_row of the EXPLAIN

Problems ==
  {NoProblem} \cup
  [ref : {"history", "metric"}, sample : RowIds \cup {0}, statement : {0, Invented}]

Cause(refs, steps, problem, explain) ==
  [refs |-> refs, steps |-> steps, problem |-> problem, explain |-> explain]
NoCause == Cause({}, {}, NoProblem, "none")

(* A cause cites evidence, its analysis steps cite some of the same or other
   evidence, and it may show a statement and an execution plan.            *)
Causes ==
  {Cause(refs, steps, p, x) :
     refs \in {r \in SUBSET Refs : Cardinality(r) \in 1 .. 2},
     steps \in {{}} \cup {{r} : r \in Refs},
     p \in Problems, x \in {"none", "explain", "metric"}}

ConclusionInit ==
  /\ evidence \in Evidences
  /\ analysis = NoCause
  /\ judged = "asked"

Analyse ==
  /\ judged = "asked"
  /\ analysis' \in Causes \cup {NoCause}
  /\ judged' = "drafted"
  /\ UNCHANGED evidence

-----------------------------------------------------------------------------

(* is_evidence_unit_root_cause_support_eligible, and for a v1 record
   is_root_cause_support_eligible; a v2 parent supports nothing itself.    *)
Eligible(ref) ==
  ref = "metric" \/ (evidence.parent = "SUCCESS" /\ ref \in evidence.good)

RowsWith(id) == {i \in DOMAIN evidence.rows : evidence.rows[i].id = id}

(* Mutant: the first of several rows with the id is taken. *)
BoundFirst(problem) ==
  /\ problem.ref = "history" /\ problem.sample # 0
  /\ RowsWith(problem.sample) # {}

(* _resolve_problem_history_row binds the problem to exactly one row. *)
Bound(problem) ==
  /\ problem.ref = "history" /\ problem.sample # 0
  /\ Cardinality(RowsWith(problem.sample)) = 1

BoundRow(problem) ==
  LET rows == RowsWith(problem.sample)
  IN evidence.rows[CHOOSE i \in rows : \A j \in rows : i <= j]

(* _complete_history_statement *)
Statement(row) == IF row.sample = "full" THEN row.id ELSE 0

(* _project_history_problem_statement: the stored sample replaces whatever
   statement the model wrote.                                              *)
Projected(problem, refs) ==
  IF problem.ref \in refs /\ Bound(problem)
    THEN [problem EXCEPT !.statement = Statement(BoundRow(problem))]
    ELSE problem

(* enforce_post_evidence_root_cause_policy *)
Enforce ==
  /\ judged = "drafted"
  /\ LET refs == {r \in analysis.refs : Eligible(r)}
     IN analysis' =
          IF refs = {} THEN NoCause
          ELSE [analysis EXCEPT !.refs = refs, !.problem = Projected(@, refs)]
  /\ judged' = "kept"
  /\ UNCHANGED evidence

-----------------------------------------------------------------------------
(* _unit_contains_sql_sample *)
CitesSample(refs) ==
  /\ "history" \in refs
  /\ \E i \in DOMAIN evidence.rows : evidence.rows[i].sample # "none"

(* _resolve_problem_history_row with the statement: no fault. *)
StatementHolds(problem) ==
  /\ Bound(problem)
  /\ problem.statement \in {0, Statement(BoundRow(problem))}

ProblemHolds(c) ==
  IF c.problem = NoProblem THEN ~CitesSample(c.refs)
  ELSE /\ c.problem.ref \in c.refs
       /\ c.problem.ref \in Units => StatementHolds(c.problem)

(* _successful_explain_refs_for_history *)
ExplainOf(problem) ==
  IF Bound(problem) /\ Eligible("explain") /\ evidence.explained = problem.sample
    THEN {"explain"} ELSE {}

ExplainHolds(c) ==
  IF c.explain = "none" THEN ExplainOf(c.problem) = {}
  ELSE /\ c.explain \in c.refs /\ c.explain = "explain"
       /\ c.problem.ref \in Units => c.explain \in ExplainOf(c.problem)

(* The validator's answer for a cause: every step cites evidence verified for
   it, the SQL and its plan are bound to one stored row.                   *)
Supported(c) ==
  /\ c.steps # {} /\ c.steps \subseteq c.refs
  /\ ProblemHolds(c) /\ ExplainHolds(c)

(* RuleConclusionValidator.validate; it may find another fault: no advice,
   steps that are not numbered, no AI basis.                               *)
Validate ==
  /\ judged = "kept"
  /\ \E wellformed \in BOOLEAN :
       judged' = IF wellformed /\ analysis # NoCause /\ Supported(analysis)
                   THEN "valid" ELSE "invalid"
  /\ UNCHANGED <<evidence, analysis>>

(* report_node *)
Report ==
  /\ judged \in {"valid", "invalid"}
  /\ judged' = IF judged = "valid" THEN "COMPLETED" ELSE "INCONCLUSIVE"
  /\ analysis' = IF judged = "valid" THEN analysis ELSE NoCause
  /\ UNCHANGED evidence

ConclusionNext == Analyse \/ Enforce \/ Validate \/ Report

ConclusionSpec == ConclusionInit /\ [][ConclusionNext]_conclusionVars

-----------------------------------------------------------------------------
(* project-architecture.md:403-408.  A completed report claims nothing without
   evidence of a successful call; a statement it shows is the stored sample of
   the one row with that id, verbatim and complete; and the plan of that row
   is shown when it was obtained, and no other.                             *)
CompletedReportIsBound ==
  judged = "COMPLETED" =>
    LET problem == analysis.problem
        rows == {i \in DOMAIN evidence.rows : evidence.rows[i].id = problem.sample}
    IN /\ analysis.refs # {} /\ analysis.steps \subseteq analysis.refs
       /\ analysis.refs \subseteq {"metric"} \cup evidence.good
       /\ analysis.refs \cap Units # {} => evidence.parent = "SUCCESS"
       /\ problem.ref = "history" =>
            /\ \E i \in rows :
                 /\ rows = {i}
                 /\ problem.statement # 0 =>
                      evidence.rows[i].sample = "full" /\ problem.statement = problem.sample
            /\ "explain" \in evidence.good /\ evidence.explained = problem.sample
                 <=> analysis.explain = "explain"
=============================================================================
