------------------------------ MODULE ReactLoop ------------------------------
(***************************************************************************)
(* The investigation graph of one run: enrich the alert, match knowledge,  *)
(* then rounds of one model decision and at most one tool call, and at the *)
(* end the final analysis, its validation and the report.                  *)
(*                                                                         *)
(* What survives a crash is the decision journal (MODEL_DECISION events),  *)
(* the dispatch rows of DurableOuterToolDispatcher, the evidence records,  *)
(* the alert row, and the graph's checkpoints, which are saved in order    *)
(* but behind the steps they follow.  Whoever claims the run next resumes  *)
(* from the latest saved checkpoint and meets journal entries, dispatches  *)
(* and records its state does not know of.  Writes are fenced, so only the *)
(* current holder's process is modelled; one dispatch is AtMostOnceCall.   *)
(***************************************************************************)
EXTENDS Naturals, Sequences, FiniteSets

CONSTANTS
  Tools,        \* registered outer tools, with their parameters
  MaxRounds,    \* react_max_rounds
  MaxCrashes    \* bound: process losses of the run

VARIABLES
  st,           \* AgentState of the running process
  pc,           \* where inside its node the process is
  draft,        \* the decision asked for, not yet in the journal
  unsaved,      \* checkpoints put but not yet stored, in order
  saved,        \* latest stored checkpoint
  journal,      \* MODEL_DECISION events of the main agent
  dispatch,     \* [dispatch identity -> state of its invocation row]
  records,      \* evidence records of the run
  endpoint,     \* host and port in the alert row
  outcome,      \* what the run ended with
  told,         \* an outage was recorded in the journal (history)
  asked,        \* provider calls after that (history)
  crashes

durable == <<saved, journal, dispatch, records, endpoint>>
history == <<told, asked>>
vars == <<st, pc, draft, unsaved, durable, outcome, history, crashes>>

Rounds == 1 .. MaxRounds
Dispatches == Tools \X Rounds       \* tool with parameters, and ordinal
Detail == <<"detail", 1>>              \* id of the FlashDuty detail evidence
Bogus == <<"bogus", 1>>                \* a reference to no evidence
Failures == {"none", "error", "outage"}   \* an outage pauses the dispatch
Answers == Tools \cup {"finish", "error", "outage"}
NoState == [next |-> "none"]

Fresh == [next |-> "enrich", round |-> 0, pending |-> "none", failure |-> "none",
          evidence |-> <<>>, error |-> FALSE, degraded |-> FALSE,
          cited |-> {}, verdict |-> "none"]

Init ==
  /\ st = Fresh /\ pc = "node" /\ draft = "none"
  /\ unsaved = <<Fresh>> /\ saved = NoState
  /\ journal = <<>>
  /\ dispatch = [d \in Dispatches |-> "absent"]
  /\ records = {}
  /\ endpoint = "old"
  /\ outcome = [status |-> "none", failure |-> "none"]
  /\ told = FALSE /\ asked = 0 /\ crashes = 0

-----------------------------------------------------------------------------
Running == outcome.status = "none"
At(node, label) == Running /\ st.next = node /\ pc = label

(* The node returns: its update reaches the state, and a checkpoint is put. *)
Return(update) ==
  /\ st' = update
  /\ unsaved' = Append(unsaved, update)
  /\ pc' = "node"

Within(label) == pc' = label /\ UNCHANGED <<st, unsaved>>

(* The node raises: the run fails in the service. *)
Raise ==
  /\ outcome' = [status |-> "FAILED", failure |-> "none"]
  /\ pc' = "ended"
  /\ UNCHANGED <<st, unsaved>>

InState(id) == \E i \in 1 .. Len(st.evidence) : st.evidence[i] = id

(* Evidence the state already holds is not appended again. *)
Take(id) == IF InState(id) THEN st.evidence ELSE Append(st.evidence, id)

NoCall == UNCHANGED history
ProviderCall == asked' = (IF told THEN asked + 1 ELSE asked) /\ UNCHANGED told

-----------------------------------------------------------------------------
(* enrich_alert_node: the detail was loaded before ... *)
EnrichReplay ==
  /\ At("enrich", "node") /\ Detail \in records
  /\ Return([st EXCEPT !.next = "knowledge", !.evidence = Take(Detail)])
  /\ UNCHANGED <<draft, durable, outcome, history, crashes>>

(* ... or the endpoint is cleared before the authoritative read ... *)
EnrichClear ==
  /\ At("enrich", "node") /\ Detail \notin records
  /\ endpoint' = "cleared"
  /\ Within("enriching")
  /\ UNCHANGED <<draft, saved, journal, dispatch, records, outcome, history, crashes>>

(* ... which fails ... *)
EnrichFails ==
  /\ At("enrich", "enriching")
  /\ Raise
  /\ UNCHANGED <<draft, durable, history, crashes>>

(* ... or gives the alert its endpoint ... *)
EnrichUpdate ==
  /\ At("enrich", "enriching")
  /\ endpoint' = "fresh"
  /\ Within("enriched")
  /\ UNCHANGED <<draft, saved, journal, dispatch, records, outcome, history, crashes>>

(* ... and is kept as evidence. *)
EnrichSave ==
  /\ At("enrich", "enriched")
  /\ records' = records \cup {Detail}
  /\ Return([st EXCEPT !.next = "knowledge", !.evidence = Take(Detail)])
  /\ UNCHANGED <<draft, saved, journal, dispatch, endpoint, outcome, history, crashes>>

(* fingerprint_node and knowledge_match_node, which always go on. *)
MatchKnowledge ==
  /\ At("knowledge", "node")
  /\ Return([st EXCEPT !.next = "decide"])
  /\ UNCHANGED <<draft, durable, outcome, history, crashes>>

-----------------------------------------------------------------------------
(* react_decide_node at the configured ceiling. *)
RoundLimit ==
  /\ At("decide", "node") /\ st.round >= MaxRounds
  /\ Return([st EXCEPT !.next = "advise"])
  /\ UNCHANGED <<draft, durable, outcome, history, crashes>>

(* _load_react_decision: the newest entry of the next round. *)
DecisionsOfNext == {i \in 1 .. Len(journal) : journal[i].round = st.round + 1}
Newest(entries) == journal[CHOOSE i \in entries : \A j \in entries : j <= i]

(* _route_after_react_decision: one pending request, or the final analysis. *)
Adopt(choice, failure) ==
  Return([st EXCEPT
    !.round = @ + 1,
    !.pending = IF choice \in Tools THEN choice ELSE "none",
    !.failure = IF failure # "none" THEN failure ELSE @,
    !.next = IF choice \in Tools THEN "execute" ELSE "advise"])

(* The decision of the round is in the journal, also from an earlier process:
   it is taken over ...                                                     *)
Replay ==
  /\ At("decide", "node") /\ st.round < MaxRounds /\ DecisionsOfNext # {}
  /\ LET e == Newest(DecisionsOfNext) IN Adopt(e.choice, e.failure)
  /\ UNCHANGED <<draft, durable, outcome, history, crashes>>

(* It is not: the model is asked; an exception is the decision to finish. *)
Ask ==
  /\ At("decide", "node") /\ st.round < MaxRounds /\ DecisionsOfNext = {}
  /\ \E a \in Answers : draft' = a
  /\ ProviderCall
  /\ Within("record")
  /\ UNCHANGED <<durable, outcome, crashes>>

(* Mutant: the failure of the provider is not part of the event. *)
EventWithoutFailure(answer) ==
  [round |-> st.round + 1, failure |-> "none",
   choice |-> IF answer \in Tools THEN answer ELSE "finish"]

(* The MODEL_DECISION event; a failure of an earlier round is kept. *)
Event(answer) ==
  [round |-> st.round + 1,
   failure |-> IF answer \in Failures THEN answer ELSE st.failure,
   choice |-> IF answer \in Tools THEN answer ELSE "finish"]

(* The decision is appended before it is acted upon ... *)
Record ==
  /\ At("decide", "record")
  /\ journal' = Append(journal, Event(draft))
  /\ told' = (told \/ draft = "outage")
  /\ draft' = "none"
  /\ Within("node")
  /\ UNCHANGED <<saved, dispatch, records, endpoint, outcome, asked, crashes>>

(* ... and an unavailable tool fails the run. *)
ToolUnavailable ==
  /\ At("decide", "node") /\ st.round < MaxRounds /\ DecisionsOfNext # {}
  /\ Newest(DecisionsOfNext).choice \in Tools
  /\ Raise
  /\ UNCHANGED <<draft, durable, history, crashes>>

-----------------------------------------------------------------------------
(* Mutant: the ordinal counts the stored records, not those of the state. *)
ThisDispatchByRecords ==
  <<st.pending, 1 + Cardinality({d \in Dispatches : d[1] = st.pending /\ d \in records})>>

(* build_dispatch_id: the ordinal counts the evidence the state has of the
   same tool and parameters.                                               *)
ThisDispatch ==
  <<st.pending, 1 + Cardinality({d \in Dispatches : d[1] = st.pending /\ InState(d)})>>

Terminal == {"ok", "failed", "unknown"}

(* execute_react_tool_node: the dispatcher crosses the handler boundary ... *)
StartTool ==
  /\ At("execute", "node") /\ dispatch[ThisDispatch] = "absent"
  /\ dispatch' = [dispatch EXCEPT ![ThisDispatch] = "started"]
  /\ Within("calling")
  /\ UNCHANGED <<draft, saved, journal, records, endpoint, outcome, history, crashes>>

(* ... records the answer ... *)
AnswerTool ==
  /\ At("execute", "calling")
  /\ \E r \in {"ok", "failed"} :
       dispatch' = [dispatch EXCEPT ![ThisDispatch] = r]
  /\ Within("node")
  /\ UNCHANGED <<draft, saved, journal, records, endpoint, outcome, history, crashes>>

(* ... or finds an attempt of an earlier epoch, whose outcome is unknown. *)
RecoverTool ==
  /\ At("execute", "node") /\ dispatch[ThisDispatch] = "started"
  /\ dispatch' = [dispatch EXCEPT ![ThisDispatch] = "unknown"]
  /\ Within("node")
  /\ UNCHANGED <<draft, saved, journal, records, endpoint, outcome, history, crashes>>

(* The durable evidence is saved ... *)
SaveEvidence ==
  /\ At("execute", "node") /\ dispatch[ThisDispatch] \in Terminal
  /\ records' = records \cup {ThisDispatch}
  /\ Within("observed")
  /\ UNCHANGED <<draft, saved, journal, dispatch, endpoint, outcome, history, crashes>>

(* ... its observation is emitted, and the state has it. *)
Observe ==
  /\ At("execute", "observed")
  /\ Return([st EXCEPT !.next = "decide", !.pending = "none",
                       !.evidence = Take(ThisDispatch)])
  /\ UNCHANGED <<draft, durable, outcome, history, crashes>>

-----------------------------------------------------------------------------
(* Mutant: whatever the model cites is kept. *)
KeepCited(refs) == refs

(* enforce_post_evidence_root_cause_policy: references to evidence that is
   missing, context only or not successful are dropped.                    *)
Qualified(refs) ==
  {r \in refs : r \in Dispatches /\ InState(r) /\ dispatch[r] = "ok"}

(* After a failure that pauses the dispatch the provider is not asked. *)
MayAsk == st.failure # "outage"

(* advise_node: the provider's analysis ... *)
Advise ==
  /\ At("advise", "node") /\ MayAsk
  /\ \E refs \in SUBSET ({st.evidence[i] : i \in 1 .. Len(st.evidence)} \cup {Bogus}) :
       Return([st EXCEPT !.next = "validate", !.cited = Qualified(refs)])
  /\ ProviderCall
  /\ UNCHANGED <<draft, durable, outcome, crashes>>

(* ... or its failure, which an enabled fallback turns into a degraded result
   that names no root cause; without one, or when it fails, the run does.  *)
AdviseFails ==
  /\ At("advise", "node")
  /\ \E f \in IF MayAsk THEN Failures \ {"none"} ELSE {st.failure},
        fallback \in BOOLEAN :
       Return([st EXCEPT !.failure = f, !.degraded = fallback, !.error = ~fallback,
                         !.next = "validate"])
  /\ IF MayAsk THEN ProviderCall ELSE NoCall
  /\ UNCHANGED <<draft, durable, outcome, crashes>>

(* validate_node, then report_node.  The validator may find another fault
   (analysis steps, SQL binding, EXPLAIN: module Conclusion).              *)
Validate ==
  /\ At("validate", "node")
  /\ \E passed \in BOOLEAN :
       Return([st EXCEPT
         !.next = "report",
         !.verdict = IF st.error THEN "FAILED"
                     ELSE IF passed /\ st.cited # {} /\ ~st.degraded
                          THEN "COMPLETED" ELSE "INCONCLUSIVE"])
  /\ UNCHANGED <<draft, durable, outcome, history, crashes>>

(* report_node; an inconclusive report loses its root causes. *)
Report ==
  /\ At("report", "node")
  /\ Return([st EXCEPT !.next = "end",
               !.cited = IF st.verdict = "COMPLETED" THEN @ ELSE {}])
  /\ UNCHANGED <<draft, durable, outcome, history, crashes>>

(* The graph returns when its checkpoints are stored; the service finalizes. *)
Finalize ==
  /\ At("end", "node") /\ unsaved = <<>>
  /\ outcome' = [status |-> st.verdict, failure |-> st.failure]
  /\ pc' = "ended"
  /\ UNCHANGED <<st, draft, unsaved, durable, history, crashes>>

-----------------------------------------------------------------------------
(* Mutant: the version is expected to be the first one. *)
StoreFirstCheckpoint ==
  /\ unsaved # <<>> /\ saved = NoState
  /\ saved' = Head(unsaved)
  /\ unsaved' = Tail(unsaved)
  /\ UNCHANGED <<st, pc, draft, journal, dispatch, records, endpoint, outcome,
                 history, crashes>>

(* aput, in the order the checkpoints were put, version by version. *)
StoreCheckpoint ==
  /\ unsaved # <<>>
  /\ saved' = Head(unsaved)
  /\ unsaved' = Tail(unsaved)
  /\ UNCHANGED <<st, pc, draft, journal, dispatch, records, endpoint, outcome,
                 history, crashes>>

(* The process dies or loses its lease, with what it had not stored. *)
Crash ==
  /\ pc \notin {"down", "ended"} /\ crashes < MaxCrashes
  /\ st' = NoState /\ pc' = "down" /\ draft' = "none" /\ unsaved' = <<>>
  /\ crashes' = crashes + 1
  /\ UNCHANGED <<durable, outcome, history>>

(* InvestigationAgent.run of the next claim: from the latest checkpoint, which
   is stored again with the new run, or from the start.                     *)
Resume ==
  /\ pc = "down"
  /\ st' = IF saved = NoState THEN Fresh ELSE saved
  /\ unsaved' = IF saved = NoState THEN <<Fresh>> ELSE <<>>
  /\ pc' = "node"
  /\ UNCHANGED <<draft, durable, outcome, history, crashes>>

-----------------------------------------------------------------------------
Work ==
  \/ EnrichReplay \/ EnrichClear \/ EnrichFails \/ EnrichUpdate \/ EnrichSave
  \/ MatchKnowledge
  \/ RoundLimit \/ Replay \/ Ask \/ Record \/ ToolUnavailable
  \/ StartTool \/ AnswerTool \/ RecoverTool \/ SaveEvidence \/ Observe
  \/ Advise \/ AdviseFails \/ Validate \/ Report \/ Finalize

Next == Work \/ StoreCheckpoint \/ Crash \/ Resume

Spec == Init /\ [][Next]_vars

(* Tools and the provider answer or time out, stores complete, and the
   dispatcher claims a run whose lease expired (RunLifecycle).             *)
FairSpec ==
  Spec /\ WF_vars(Work) /\ WF_vars(StoreCheckpoint) /\ WF_vars(Resume)

-----------------------------------------------------------------------------
ToolRounds == {i \in 1 .. Len(journal) : journal[i].choice \in Tools}

(* Whatever checkpoints a crash lost: every round has one decision, the first
   that was journalled; the tool of every decision is dispatched once, and the
   state the final analysis sees has its evidence once, and nothing else.     *)
RoundsAreTakenOver ==
  /\ \A i \in 1 .. Len(journal) : journal[i].round = i
  /\ pc # "down" /\ st.next \in {"advise", "validate", "report", "end"} =>
       /\ \A i, j \in 1 .. Len(st.evidence) : st.evidence[i] = st.evidence[j] => i = j
       /\ {st.evidence[i] : i \in 1 .. Len(st.evidence)} \ {Detail}
            = {d \in Dispatches : dispatch[d] # "absent"}
       /\ \A t \in Tools :
            Cardinality({d \in Dispatches : d[1] = t /\ dispatch[d] # "absent"})
              = Cardinality({i \in ToolRounds : journal[i].choice = t})

(* A completed run rests on stored, successful tool evidence, on the
   authoritative alert detail, and on no degraded analysis.                  *)
CompletedIsGrounded ==
  outcome.status = "COMPLETED" =>
    /\ st.cited # {} /\ st.cited \subseteq records
    /\ st.cited \subseteq {d \in Dispatches : dispatch[d] = "ok"}
    /\ endpoint = "fresh" /\ Detail \in records
    /\ ~st.degraded

(* Once the journal knows that the provider is out, no later process of the
   run asks it again, and the run ends with the outage, so that the dispatch
   is paused.                                                                *)
OutageIsRemembered ==
  /\ asked = 0
  /\ outcome.status \notin {"none", "FAILED"} /\ told
       => outcome.failure = "outage"

(* The run ends, however many checkpoints its crashes lose. *)
RunEnds == <>~Running
=============================================================================
