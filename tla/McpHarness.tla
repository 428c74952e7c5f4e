----------------------------- MODULE McpHarness -----------------------------
(***************************************************************************)
(* MCPAgentHarnessRuntime: one investigation of a data source by a planner *)
(* that calls remote tools, each step recorded so that a new process can   *)
(* resume it from the last checkpoint.  Four things are durable: the       *)
(* checkpoint, the event stream, the invocation rows and the artifacts of  *)
(* the remote answers.  They are written one after the other, and the      *)
(* process may stop between any two of these writes.                       *)
(*                                                                         *)
(* One process works at a time (the run lease sees to that) and it is the  *)
(* only writer of its event stream.  Budgets other than the remote calls   *)
(* are unlimited and left out; wall time is the deadline.                  *)
(***************************************************************************)
EXTENDS Naturals, Sequences, FiniteSets, SequencesExt, FiniteSetsExt

CONSTANTS
  None,            \* the absence of a value
  Calls,           \* fingerprints of tool calls: tool name and arguments
  RetriesOnce,     \* whether the scenario repeats a call the transport lost
  MaxInvocations,  \* bound: invocations; a decision leaves room for its retries
  MaxRepairs,      \* bound: invalid planner answers in one history
  MaxResumes       \* bound: resumes

ASSUME HarnessAssumption ==
  /\ RetriesOnce \in BOOLEAN
  /\ MaxInvocations \in Nat /\ MaxRepairs \in Nat /\ MaxResumes \in Nat

VARIABLES
  mem,       \* _RunContext, the part that is checkpointed
  task,      \* _RunContext and local variables of the process that are not
  ckpt,      \* the last MCPHarnessSnapshot saved
  row,       \* ToolInvocation rows: status by invocation
  journal,   \* the AgentEvents that recovery reads, in order
  artifacts, \* invocations whose remote answer is in the response store
  wire,      \* history: how often each invocation was sent to the server
  late,      \* whether the deadline of the investigation has passed
  resumes    \* history: resumes so far

vars == <<mem, task, ckpt, row, journal, artifacts, wire, late, resumes>>

Terminal == {"OK", "SKIPPED", "FAILED", "TIMED_OUT", "UNKNOWN"}

\* None names no call, no status and no reason to end.
ASSUME NoneAssumption ==
  None \notin Calls \cup Terminal \cup {"PENDING", "STARTED", "completed", "deadline", "failed"}

\* A uuid in the code.  The step that creates an invocation saves the
\* checkpoint that knows it, so its position identifies it.
Ids == 1..MaxInvocations

\* A PreparedCall: local when the Host answers it itself; dec is the position
\* in the journal of the decision it carries out (history).
Prepared == [call : Calls, local : BOOLEAN, dec : Nat]
Invocation == [call : Calls, dec : Nat,
               status : Terminal \cup {"PENDING", "STARTED"}]

FreshMemory ==
  [inv |-> <<>>, msgs |-> <<>>, active |-> None, retry |-> None,
   staged |-> {}, spent |-> 0, finish |-> None]

Idle(where) ==
  [pc |-> where, prepared |-> None, session |-> FALSE, debited |-> {},
   fault |-> None, resuming |-> FALSE]

Init ==
  /\ mem = FreshMemory
  /\ task = Idle("idle")
  /\ ckpt = None
  /\ row = [i \in Ids |-> None]
  /\ journal = <<>>
  /\ artifacts = {}
  /\ wire = [i \in Ids |-> 0]
  /\ late = FALSE
  /\ resumes = 0

-----------------------------------------------------------------------------
(* What the process and its recovery read.                                 *)

Events(kind) == {k \in DOMAIN journal : journal[k].kind = kind}
EventsOf(kind, i) == {k \in Events(kind) : journal[k].what = i}
Completed == Events("completed") # {}

Event(kind, what) == [kind |-> kind, what |-> what]

\* _decision_key: the whole conversation so far.
DecisionKey(m) == m.msgs
Decided(m) == {k \in Events("decision") : journal[k].what.key = DecisionKey(m)}

Positions(m, statuses) == {k \in DOMAIN m.inv : m.inv[k].status \in statuses}
\* _pending_invocation: there is never more than one.
Pending(m) == Positions(m, {"PENDING"})
Started(m) == Positions(m, {"STARTED"})
Current(m) == CHOOSE k \in Pending(m) \cup Started(m) : TRUE

HostAnswerPending == Pending(mem) # {} /\ mem.active.local

\* The answers from the server that the memory holds, by invocation.
Held(m) == {x.inv : x \in {y \in m.staged : y.remote}}

\* retry_directive of the scenarios.  A lost transport leaves the outcome
\* unknown; Prometheus repeats such a call once, Archery never does.
FailedBefore(m, c) ==
  \E k \in DOMAIN m.inv : m.inv[k].call = c /\ m.inv[k].status = "UNKNOWN"

Directive(fault, m, c) ==
  [retry     |-> fault \in {"lost", "crashed"} /\ RetriesOnce /\ ~FailedBefore(m, c),
   reconnect |-> fault \in {"lost", "crashed", "timeout"},
   continue  |-> fault # "fatal",
   status    |-> CASE fault \in {"lost", "crashed"} -> "UNKNOWN"
                   [] fault = "timeout" -> IF RetriesOnce THEN "UNKNOWN" ELSE "TIMED_OUT"
                   [] OTHER -> "FAILED"]

\* _checkpoint: the snapshot and the event version it was taken at.
Save(m) == ckpt' = [mem |-> m, seen |-> Len(journal')]

Goto(where) == task' = [task EXCEPT !.pc = where]

-----------------------------------------------------------------------------
(* The session and the decisions of the planner.                           *)

\* run(): RUN_STARTED and the first checkpoint.
Begin ==
  /\ task.pc = "idle"
  /\ Goto("enter")
  /\ UNCHANGED <<mem, row, journal, artifacts, wire, late, resumes>>
  /\ Save(mem)

Finish(why) ==
  /\ mem' = [mem EXCEPT !.finish = why]
  /\ Goto("close")
  /\ UNCHANGED <<ckpt, row, journal, artifacts, wire, late, resumes>>

(* Mutant: the deadline is not looked at while a session is opened. *)
FinishAtDeadlineInLoop ==
  /\ task.pc \in {"enter", "loop"}
  /\ late
  /\ task.pc = "enter" => ~HostAnswerPending
  /\ Finish("deadline")

\* _deadline_reached, wherever the loop asks for it.
FinishAtDeadline ==
  /\ task.pc \in {"enter", "connect", "loop"}
  /\ late
  /\ task.pc = "enter" => ~HostAnswerPending
  /\ Finish("deadline")

\* scenario.completion on what has been observed.
ScenarioCompletes ==
  /\ task.pc \in {"enter", "loop"}
  /\ Positions(mem, Terminal) # {}
  /\ Finish("completed")

\* _settle_pending_local_call runs before a session is opened.
Enter ==
  /\ task.pc = "enter"
  /\ IF HostAnswerPending
     THEN task' = [task EXCEPT !.pc = "debit", !.prepared = mem.active]
     ELSE ~late /\ Goto("connect")
  /\ UNCHANGED <<mem, ckpt, row, journal, artifacts, wire, late, resumes>>

\* _ensure_session: discovery and bootstrap succeed.
Connect ==
  /\ task.pc = "connect"
  /\ ~late
  /\ task' = [task EXCEPT !.session = TRUE,
                          !.pc = IF task.prepared = None THEN "loop" ELSE "exec"]
  /\ UNCHANGED <<mem, row, journal, artifacts, wire, late, resumes>>
  /\ Save(mem)

\* _record_session_failure: the scenario reconnects, or gives up.
ConnectFails ==
  /\ task.pc = "connect"
  /\ ~late
  /\ \/ UNCHANGED <<mem, task>>
     \/ /\ mem' = [mem EXCEPT !.finish = "failed"]
        /\ Goto("close")
  /\ UNCHANGED <<row, journal, artifacts, wire, late, resumes>>
  /\ Save(mem)

Choosing ==
  /\ task.pc = "loop"
  /\ ~late
  /\ Pending(mem) = {} /\ mem.retry = None

\* _next_action with a fresh answer: the decision is recorded with the call
\* that prepare_call made of it, then the conversation goes on.
Decide(c) ==
  /\ Choosing /\ Decided(mem) = {}
  /\ Len(mem.inv) + 2 + MaxResumes <= MaxInvocations
  /\ \E host \in BOOLEAN :
       LET act == [call |-> c, local |-> host, dec |-> Len(journal) + 1]
       IN  task' = [task EXCEPT !.prepared = act, !.pc = "exec"]
  /\ journal' = Append(journal, Event("decision", [key |-> DecisionKey(mem), call |-> c]))
  /\ mem' = [mem EXCEPT !.msgs = Append(@, <<"call", c>>)]
  /\ UNCHANGED <<ckpt, row, artifacts, wire, late, resumes>>

DecideToFinish ==
  /\ Choosing /\ Decided(mem) = {}
  /\ journal' = Append(journal, Event("decision", [key |-> DecisionKey(mem), call |-> None]))
  /\ mem' = [mem EXCEPT !.msgs = Append(@, <<"finish">>), !.finish = "completed"]
  /\ Goto("close")
  /\ UNCHANGED <<ckpt, row, artifacts, wire, late, resumes>>

\* _load_durable_decision: the decision of a process that stopped is taken
\* over, and the Host's current policy is applied to it.
DecideAgain ==
  /\ Choosing
  /\ \E k \in Decided(mem) :
       LET c == journal[k].what.call
       IN  IF c = None
           THEN /\ mem' = [mem EXCEPT !.msgs = Append(@, <<"finish">>), !.finish = "completed"]
                /\ Goto("close")
           ELSE /\ mem' = [mem EXCEPT !.msgs = Append(@, <<"call", c>>)]
                /\ \E host \in BOOLEAN :
                     task' = [task EXCEPT !.pc = "exec",
                                !.prepared = [call |-> c, local |-> host, dec |-> k]]
  /\ UNCHANGED <<ckpt, row, journal, artifacts, wire, late, resumes>>

\* The planner fails or answers something that is not an action.
RepairPlan ==
  /\ Choosing /\ Decided(mem) = {}
  /\ Len(SelectSeq(mem.msgs, LAMBDA x : x = <<"repair">>)) < MaxRepairs
  /\ mem' = [mem EXCEPT !.msgs = Append(@, <<"repair">>)]
  /\ UNCHANGED <<task, row, journal, artifacts, wire, late, resumes>>
  /\ Save(mem')

\* The loop takes up a call that is already pending, or a scheduled retry.
TakeUp ==
  /\ task.pc = "loop" /\ ~late
  /\ Pending(mem) # {} \/ mem.retry # None
  /\ task' = [task EXCEPT !.prepared = IF Pending(mem) # {} THEN mem.active ELSE mem.retry,
                          !.pc = "exec"]
  /\ UNCHANGED <<mem, ckpt, row, journal, artifacts, wire, late, resumes>>

-----------------------------------------------------------------------------
(* _execute_call: from the prepared call to its answer.                    *)

NeedsSession == ~task.prepared.local /\ ~task.session

\* A remote call without a session goes through _ensure_session first.
OpenForCall ==
  /\ task.pc = "exec" /\ NeedsSession
  /\ Goto("connect")
  /\ UNCHANGED <<mem, ckpt, row, journal, artifacts, wire, late, resumes>>

\* A new invocation is PENDING in the checkpoint before anything else
\* (bound: MaxInvocations).
Create ==
  /\ task.pc = "exec" /\ ~NeedsSession
  /\ Pending(mem) = {} /\ Len(mem.inv) < MaxInvocations
  /\ mem' = [mem EXCEPT
       !.inv = Append(@, [call |-> task.prepared.call, dec |-> task.prepared.dec,
                          status |-> "PENDING"]),
       !.active = task.prepared]
  /\ Goto("row")
  /\ UNCHANGED <<row, journal, artifacts, wire, late, resumes>>
  /\ Save(mem')

\* A pending invocation of the checkpoint is used as it is.
Reuse ==
  /\ task.pc = "exec" /\ ~NeedsSession
  /\ Pending(mem) # {}
  /\ mem' = [mem EXCEPT !.active = task.prepared]
  /\ Goto("debit")
  /\ UNCHANGED <<ckpt, row, journal, artifacts, wire, late, resumes>>

\* RepositoryInvocationStore.save: what the store takes as the next status.
Accepts(old, new) ==
  \/ old = new
  \/ old = None /\ new = "PENDING"
  \/ old = "PENDING" /\ new = "STARTED"
  \/ old = "STARTED" /\ new \in Terminal

\* HarnessInfrastructureError: _drive records the failure, flushes the answers
\* it holds and lets the error go to the caller.  While a checkpoint is being
\* recovered the failure itself is not recorded: see ResumeFails.
Raise ==
  /\ task' = Idle("raised")
  /\ journal' = IF task.resuming THEN journal ELSE Append(journal, Event("failed", None))
  /\ artifacts' = artifacts \cup Held(mem)

SaveRow(i, status, next) ==
  IF Accepts(row[i], status)
  THEN /\ row' = [row EXCEPT ![i] = status]
       /\ Goto(next)
       /\ UNCHANGED <<journal, artifacts>>
  ELSE Raise /\ UNCHANGED row

PersistPending ==
  /\ task.pc = "row"
  /\ SaveRow(Current(mem), "PENDING", "debit")
  /\ UNCHANGED <<mem, ckpt, wire, late, resumes>>

(* Mutant: a debit of an earlier process is not recognised. *)
DebitAgain ==
  /\ task.pc = "debit"
  /\ IF task.prepared.local
     THEN Goto("start") /\ UNCHANGED <<mem, journal>>
     ELSE /\ journal' = Append(journal, Event("debit", Current(mem)))
          /\ mem' = [mem EXCEPT !.spent = @ + 1]
          /\ Goto("start")
  /\ UNCHANGED <<ckpt, row, artifacts, wire, late, resumes>>

\* _debit_remote_tool_call: one debit event for one invocation, before the
\* transport; a debit found by the recovery is not repeated.
Debit ==
  /\ task.pc = "debit"
  /\ LET i == Current(mem)
         owed == ~task.prepared.local /\ i \notin task.debited
     IN  IF owed
         THEN /\ journal' = Append(journal, Event("debit", i))
              /\ mem' = [mem EXCEPT !.spent = @ + 1]
              /\ task' = [task EXCEPT !.debited = @ \cup {i}, !.pc = "start"]
         ELSE Goto("start") /\ UNCHANGED <<mem, journal>>
  /\ UNCHANGED <<ckpt, row, artifacts, wire, late, resumes>>

SetStatus(m, i, status) == [m EXCEPT !.inv[i].status = status]

StartRow ==
  /\ task.pc = "start"
  /\ LET i == Current(mem)
     IN  mem' = SetStatus(mem, i, "STARTED") /\ SaveRow(i, "STARTED", "announce")
  /\ UNCHANGED <<ckpt, wire, late, resumes>>

Announce ==
  /\ task.pc = "announce"
  /\ journal' = Append(journal, Event("started", Current(mem)))
  /\ Goto("commit")
  /\ UNCHANGED <<mem, ckpt, row, artifacts, wire, late, resumes>>

\* Only here a scheduled retry is forgotten.
Commit ==
  /\ task.pc = "commit"
  /\ mem' = [mem EXCEPT !.retry = None]
  /\ Goto(IF task.prepared.local THEN "answer" ELSE "call")
  /\ UNCHANGED <<row, journal, artifacts, wire, late, resumes>>
  /\ Save(mem')

\* session.call_tool: the request leaves.
Send ==
  /\ task.pc = "call"
  /\ wire' = [wire EXCEPT ![Current(mem)] = @ + 1]
  /\ Goto("answer")
  /\ UNCHANGED <<mem, ckpt, row, journal, artifacts, late, resumes>>

\* _stage_response_lineage: the answer is in the checkpoint before the
\* scenario looks at it.
Answer ==
  /\ task.pc = "answer"
  /\ mem' = [mem EXCEPT !.staged = @ \cup {[inv |-> Current(mem), remote |-> ~task.prepared.local]}]
  /\ Goto("apply")
  /\ UNCHANGED <<row, journal, artifacts, wire, late, resumes>>
  /\ Save(mem')

-----------------------------------------------------------------------------
(* _complete_response and _complete_failure: a checkpoint, the row, the     *)
(* terminal event and a checkpoint again.                                  *)

\* An answer the scenario can use.
Apply ==
  /\ task.pc = "apply"
  /\ \E status \in IF task.prepared.local THEN {"SKIPPED"} ELSE {"OK"} :
       mem' = [SetStatus(mem, Current(mem), status) EXCEPT
                 !.active = None,
                 !.msgs = Append(@, <<"result", status>>)]
  /\ task' = [task EXCEPT !.pc = "publish", !.fault = None]
  /\ UNCHANGED <<row, journal, artifacts, wire, late, resumes>>
  /\ Save(mem')

\* The memory after an invocation failed: observation, retry or message.  A
\* retry that is not scheduled leaves an earlier pending_retry in place.
AfterFailure(m, i, fault) ==
  LET d == Directive(fault, m, m.inv[i].call)
      done == [SetStatus(m, i, d.status) EXCEPT !.active = None]
  IN  IF d.retry /\ ~late
      THEN [done EXCEPT !.retry = m.active]
      ELSE [done EXCEPT !.msgs = Append(@, <<"result", d.status>>)]

Fail(fault) ==
  /\ mem' = AfterFailure(mem, Current(mem), fault)
  /\ task' = [task EXCEPT !.pc = "publish", !.fault = fault]
  /\ UNCHANGED <<row, journal, artifacts, wire, late, resumes>>
  /\ Save(mem')

\* No answer: the server refused the call, it timed out, or the transport broke.
CallFails ==
  /\ task.pc = "answer" /\ ~task.prepared.local
  /\ \E fault \in {"refused", "fatal", "timeout", "lost"} : Fail(fault)

\* An answer that is a tool error, or that the Host cannot process.
AnswerIsRejected ==
  /\ task.pc = "apply"
  /\ \E fault \in {"refused", "fatal"} : Fail(fault)

PersistTerminal ==
  /\ task.pc = "publish"
  /\ LET i == Len(mem.inv) IN SaveRow(i, mem.inv[i].status, "tell")
  /\ UNCHANGED <<mem, ckpt, wire, late, resumes>>

Tell ==
  /\ task.pc = "tell"
  /\ LET i == Len(mem.inv)
     IN  journal' = Append(journal, Event("ended", [inv |-> i, status |-> mem.inv[i].status]))
  /\ Goto("route")
  /\ UNCHANGED <<mem, ckpt, row, artifacts, wire, late, resumes>>

\* The last checkpoint of a call, and where the loop goes on.  A recovery goes
\* to the beginning of the loop and does not look at the directive.
GoOn(where) ==
  /\ task' = [task EXCEPT !.pc = where, !.prepared = None, !.fault = None,
                          !.resuming = FALSE, !.session = @ /\ where # "connect"]
  /\ UNCHANGED mem

Route ==
  /\ task.pc = "route"
  /\ LET d == Directive(task.fault, mem, None)
     IN  \/ task.resuming /\ GoOn("enter")
         \/ ~task.resuming /\ task.fault = None /\ GoOn("loop")
         \/ /\ ~task.resuming /\ task.fault # None /\ ~late /\ d.continue
            /\ GoOn(IF d.reconnect THEN "connect" ELSE "loop")
         \/ /\ ~task.resuming /\ task.fault # None /\ (late \/ ~d.continue)
            /\ mem' = [mem EXCEPT !.finish = IF late THEN "deadline" ELSE "failed"]
            /\ Goto("close")
  /\ UNCHANGED <<row, journal, artifacts, wire, late, resumes>>
  /\ Save(mem)

-----------------------------------------------------------------------------
(* _drive after the loop: the finish is saved, the answers are stored, and  *)
(* only then the run is reported as completed.                             *)

Close ==
  /\ task.pc = "close"
  /\ task' = Idle("store")
  /\ UNCHANGED <<mem, row, journal, artifacts, wire, late, resumes>>
  /\ Save(mem)

\* _persist_deferred_remote_responses, one save after the other.
StoreAnswer ==
  /\ task.pc = "store"
  /\ Held(mem) \ artifacts # {}
  /\ artifacts' = artifacts \cup {Min(Held(mem) \ artifacts)}
  /\ UNCHANGED <<mem, task, ckpt, row, journal, wire, late, resumes>>

(* Mutant: the run is reported as completed while answers are still held. *)
CompleteAtOnce ==
  /\ task.pc = "store"
  /\ journal' = IF Completed THEN journal ELSE Append(journal, Event("completed", None))
  /\ Goto("return")
  /\ UNCHANGED <<mem, ckpt, row, artifacts, wire, late, resumes>>

Complete ==
  /\ task.pc = "store"
  /\ Held(mem) \subseteq artifacts
  /\ journal' = IF Completed THEN journal ELSE Append(journal, Event("completed", None))
  /\ Goto("return")
  /\ UNCHANGED <<mem, ckpt, row, artifacts, wire, late, resumes>>

Return ==
  /\ task.pc = "return"
  /\ task' = Idle("returned")
  /\ UNCHANGED <<mem, row, journal, artifacts, wire, late, resumes>>
  /\ Save(mem)

-----------------------------------------------------------------------------
(* resume(): the checkpoint is brought up to what the rows and the events   *)
(* say, and an invocation that was under way is settled.                   *)

Debits == {journal[k].what : k \in Events("debit")}
EndedWith(i) == {journal[k].what.status : k \in {e \in Events("ended") : journal[e].what.inv = i}}

\* The status of an invocation after _reconcile_durable_invocations.
Imported(i, status) ==
  CASE status \in Terminal -> status
    [] status \notin Terminal /\ row[i] \in Terminal \cup {"STARTED"} -> row[i]
    [] status \notin Terminal /\ row[i] \in {None, "PENDING"} /\ EndedWith(i) # {} ->
         CHOOSE x \in EndedWith(i) : TRUE
    [] OTHER -> IF EventsOf("started", i) # {} THEN "STARTED" ELSE status

\* The invocations as the process goes on with them.
Reconciled(m) == [i \in DOMAIN m.inv |-> [m.inv[i] EXCEPT !.status = Imported(i, @)]]

\* _validate_recovered_remote_response_lineage and the checks of the
\* reconciliation: a started invocation the checkpoint does not know or that
\* nobody paid for, a success without its answer.
Inconsistent(m) ==
  \/ ~({journal[k].what : k \in Events("started")} \subseteq DOMAIN m.inv)
  \/ \E i \in Pending(m) :
       Imported(i, "PENDING") = "STARTED" /\ i \notin Debits /\ ~m.active.local
  \/ \E i \in Positions(m, {"OK"}) : i \notin Held(m)

\* _reconcile_budget_tail: the debits after the checkpoint are replayed.
DebitTail == {k \in Events("debit") : k > ckpt.seen}

\* _cleanup_interrupted_resume: the answers of the checkpoint are flushed, and
\* no event tells of the failure.
ResumeFails(m) ==
  /\ task' = Idle("raised")
  /\ artifacts' = artifacts \cup Held(m)
  /\ UNCHANGED journal

\* _refresh_pending_call_policy: a pending call that has not been paid for or
\* started may turn out to be forbidden; a forbidden call stays forbidden.
Resume ==
  /\ task.pc \in {"down", "raised", "returned"}
  /\ ckpt # None
  /\ resumes < MaxResumes
  /\ resumes' = resumes + 1
  /\ LET m == ckpt.mem
         refreshed == {i \in Pending(m) : /\ ~m.active.local
                                          /\ \/ Imported(i, "PENDING") = "PENDING"
                                             \/ i \notin Debits}
     IN  IF Inconsistent(m)
         THEN ResumeFails(m) /\ mem' = m
         ELSE /\ \E host \in IF refreshed = {} THEN {FALSE} ELSE BOOLEAN :
                   mem' = [m EXCEPT
                     !.spent = @ + Cardinality(DebitTail),
                     !.inv = Reconciled(m),
                     !.active = IF host THEN [@ EXCEPT !.local = TRUE] ELSE @]
              /\ task' = [Idle("reconcile") EXCEPT !.debited = Debits, !.resuming = TRUE]
              /\ UNCHANGED <<journal, artifacts>>
  /\ UNCHANGED <<ckpt, row, wire, late>>

Untold(m) == {i \in Positions(m, Terminal) : EndedWith(i) = {}}

\* A terminal invocation whose row or event was not written yet.
Republish ==
  /\ task.pc = "reconcile"
  /\ Untold(mem) # {}
  /\ LET i == Min(Untold(mem))
         status == mem.inv[i].status
     IN  IF row[i] # status
         THEN SaveRow(i, status, "reconcile")
         ELSE /\ journal' = Append(journal, Event("ended", [inv |-> i, status |-> status]))
              /\ UNCHANGED <<task, row, artifacts>>
  /\ UNCHANGED <<mem, ckpt, wire, late, resumes>>

\* A finished investigation is only completed; otherwise _reconcile_inflight
\* looks at what was under way: the Host's own answer is given again, a saved
\* answer is applied, and everything else has an unknown outcome.
Settle ==
  /\ task.pc = "reconcile"
  /\ Untold(mem) = {}
  /\ IF mem.finish = None /\ Started(mem) # {}
     THEN /\ task' = [task EXCEPT !.prepared = mem.active,
                        !.pc = CASE mem.active.local -> "answer"
                                 [] ~mem.active.local /\ Current(mem) \in Held(mem) -> "apply"
                                 [] OTHER -> "unknown"]
          /\ UNCHANGED <<ckpt, journal>>
     ELSE /\ task' = [task EXCEPT !.pc = IF mem.finish # None THEN "store" ELSE "enter",
                                  !.resuming = FALSE]
          /\ UNCHANGED journal
          /\ IF mem.finish # None THEN UNCHANGED ckpt ELSE Save(mem)
  /\ UNCHANGED <<mem, row, artifacts, wire, late, resumes>>

OutcomeUnknown ==
  /\ task.pc = "unknown"
  /\ Fail("crashed")

-----------------------------------------------------------------------------
(* The environment.                                                        *)

AtRest == {"idle", "down", "raised", "returned"}
Running == task.pc \notin AtRest

\* The process stops, or is cancelled and still stores some of the answers.
Stop ==
  /\ Running
  /\ \E saved \in SUBSET Held(mem) : artifacts' = artifacts \cup saved
  /\ task' = Idle("down")
  /\ UNCHANGED <<mem, ckpt, row, journal, wire, late, resumes>>

DeadlinePasses ==
  /\ ~late
  /\ late' = TRUE
  /\ UNCHANGED <<mem, task, ckpt, row, journal, artifacts, wire, resumes>>

Work ==
  \/ FinishAtDeadline \/ ScenarioCompletes \/ Enter \/ Connect \/ ConnectFails
  \/ (\E c \in Calls : Decide(c)) \/ DecideToFinish \/ DecideAgain \/ RepairPlan \/ TakeUp
  \/ OpenForCall \/ Create \/ Reuse \/ PersistPending \/ Debit \/ StartRow \/ Announce
  \/ Commit \/ Send \/ Answer \/ CallFails \/ Apply \/ AnswerIsRejected
  \/ PersistTerminal \/ Tell \/ Route \/ Close \/ StoreAnswer \/ Complete \/ Return
  \/ Republish \/ Settle \/ OutcomeUnknown

Next == Begin \/ Work \/ Resume \/ Stop \/ DeadlinePasses

Spec == Init /\ [][Next]_vars
FairSpec == Spec /\ WF_vars(Work) /\ WF_vars(DeadlinePasses)

-----------------------------------------------------------------------------
(* Properties.                                                             *)

TypeOK ==
  /\ \A i \in DOMAIN mem.inv : mem.inv[i] \in Invocation
  /\ Len(mem.inv) <= MaxInvocations
  /\ mem.active \in Prepared \cup {None} /\ mem.retry \in Prepared \cup {None}
  /\ task.prepared \in Prepared \cup {None}
  /\ row \in [Ids -> Terminal \cup {None, "PENDING", "STARTED"}]
  /\ artifacts \subseteq Ids
  /\ wire \in [Ids -> Nat]
  /\ resumes \in 0..MaxResumes

\* Whatever stops when, an invocation is sent at most once, only after its
\* one debit is on record, and never when the Host answers it itself.
CallsArePaidOnce ==
  \A i \in Ids :
    /\ Cardinality(EventsOf("debit", i)) <= 1
    /\ wire[i] <= Cardinality(EventsOf("debit", i))
    /\ wire[i] > 0 => row[i] \notin {None, "PENDING"}

\* A remote answer that reached a checkpoint is used: its invocation is not
\* recorded as lost, and before the run is reported as completed every answer
\* is in the response store.
AnswersAreKept ==
  ckpt # None =>
    /\ \A i \in Held(ckpt.mem) : ckpt.mem.inv[i].status \notin {"UNKNOWN", "TIMED_OUT"}
    /\ Completed => Held(ckpt.mem) \subseteq artifacts

\* An investigation that is not stopped comes to its end.
EveryInvestigationEnds == Running ~> ~Running

\* "Recovery can therefore always explain and continue a crash that occurs
\* before the transport boundary" (app/mcp_runtime/harness.py:874-875).  Not so:
\* README, section 4.
RecoveryContinues == task.pc # "raised"
=============================================================================
