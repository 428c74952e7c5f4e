# A TLA+ model of the Database Alert Agent

Database Alert Agent ingests database alerts, lets an LLM agent investigate each
one with a few read-only tools, stores the result and notifies a WeCom group.
This directory models the parts of it that are concurrent, that may stop
half-way, that page over data which changes meanwhile, or that put an answer
together from pieces - what a unit test hardly reaches. TLC checks the models on
small instances and TLAPS proves theorems about them for every instance.

Paths are relative to `src/`, `app/...` for the code and `README.md`, `docs/...` for
its documents. "Section 4" in the modules' comments is section 4 of this file.

## 1. The system

One **API process** (FastAPI), N **Redis workers** (or, in a development setup, one
in-process scheduler), a SQL **database** (the source of truth) and a **Redis
stream**.

| Component | State it keeps | Operations | Hard part |
|---|---|---|---|
| Run lifecycle: `application/service.py`, `adapters/persistence.py`, `agent_runtime/leases.py` | alert row, run rows with lease, owner, fencing token, checkpoint and manifest; the dispatch row | analyze, reclaim, create, reanalyze, heartbeat, checkpoint, cancel, finalize, pause | many tasks on one alert, a stop between any two transactions, stale holders, cancellation racing the verdict |
| Dispatch queue: `application/scheduler.py`, `workers/redis.py`, `api/main.py` | stream with pending entries, dead letters, enqueues under way | poll, post, restart, resume, read, claim stale, retry, acknowledge | redelivery, messages dropped during a pause, offset paging over a set that changes |
| In-process scheduler: `application/scheduler.py` | queue, `_queued`, limiter, retries | enqueue, take, resize, pause, resume | lost wake-ups, duplicates |
| Alert intake and retention: `application/scheduler.py`, `adapters/flashduty.py` | polling window, poll state, poller task | poll, page, store, switch, clean up | windows that overlap, pages that shift, retention beside a poll |
| Durable outer dispatch: `agent_runtime/outer_dispatch.py` | tool invocation row, raw artifact | load, create, start, call, record, join, expire, recover | at most one remote call over stops, deadlines and lease epochs |
| ReAct graph: `agents/*`, `agent_runtime/langgraph_checkpoint.py` | graph state, checkpoints, decision journal | decide, execute a tool, conclude, resume | durable effects ahead of a lagging checkpoint |
| Events and trace: `agent_runtime/trace.py`, `agents/nodes.py`, `api/main.py` | event stream, trace keys | emit, append, page | re-executed nodes, a cursor over what is filtered |
| MCP harness: `mcp_runtime/harness.py` | checkpoint, invocation rows, event journal, artifacts | plan, call, record, retry, complete, resume | four stores written one after the other |
| Archery History: `adapters/archery_harness.py` | scan cursors, two row lists, samples, supplemental state | page twice, reconcile, recover samples, explain, finish | a live table, cut pages, lowered limits, failing calls |
| Prometheus investigation: `adapters/prometheus_harness.py`, `prometheus_mcp.py` | responses, attempts, scope | call, merge, finish, project | answers that belong to another target or query |
| Declared MCP investigation: `adapters/generic_mcp.py` | conversation checkpoint, response artifacts | restore, ask, announce, call, store, return | a stop between any two writes |
| Model client: `adapters/ai.py` | the answer as it is put together | request, stream, merge, classify, repair | two protocols and gateways that differ in the events they send |
| Validation and evidence: `application/validation.py`, `agent_runtime/outer_dispatch.py`, `adapters/tool_result_analysis.py` | evidence records and their units | project, judge, enforce, validate, report | partial results, results of several rows in one record |
| Notification outbox: `adapters/notification.py`, `service.py` | delivery rows with claim and attempts | queue, claim a batch, post, complete, fail | lost answers, claims that are not renewed, overlapping cycles |
| Runtime settings: `application/admin.py`, `api/main.py`, `service.py` | overrides file, revisions, dispatch pause | reload, patch, reset, validate, resume | concurrent editors, several processes, a probe that takes time |
| Adapter retirement: `service.py`, `application/factory.py` | adapters in use and retired | swap, close, capture | an adapter closed under a running analysis |
| Budgets: `agent_runtime/budget.py` | ledgers of a run and of its children | reserve, debit | part of the harness model only |
| HTTP API, frontend, sanitization, catalog, mentions | none | routing, pure functions, best effort I/O | - |

How they interact: the poller or a post **ingests** an alert and **enqueues** it
(dispatch queue); a worker task takes the message and calls `analyze_by_id`, which
**claims** a run (run lifecycle) and executes the graph under a lease guard; a
round of the graph asks the **model client** for a decision and sends its tool
action through the **outer dispatch**, fenced by the run's lease; the tool is a
**harness** run or a declared investigation with durable state of its own, whose
result is **projected** into evidence; the conclusion is **validated** against that
evidence. The transaction that ends the run also writes the alert status and a
notification **intent**, and may **pause** the dispatch; the outbox delivers the
intents. An administrator changes settings, probes and resumes the dispatch,
reanalyses and cancels.

What makes each of them correct, in a sentence:

- run lifecycle: an alert has at most one live run, one task at a time may decide
  it, and the alert, its runs and its notifications agree whatever stops when;
- queue and scheduler: an alert that waits is not forgotten, and no two workers have it;
- intake: a poll that reports success has stored every alert of its window, and an
  alert is stored once;
- outer dispatch: one tool action causes at most one remote call, and all its
  callers see one result, which is true;
- graph and trace: what was decided, called or told is taken over by whoever
  resumes the run, and neither repeated nor contradicted;
- harness and declared investigation: a call is paid for and sent once, an answer
  that arrived is kept, and the stores can always be resumed from;
- Archery, Prometheus: what is called complete is complete, what is offered as a
  fact has one source, and "no data" is said only of what was asked;
- model client: the answer is what the provider said, and a failure is what it was;
- evidence and conclusion: each part of a result is worth what it is worth by
  itself, and a completed report claims nothing it cannot show;
- outbox: recorded outcomes are true, and duplicates have a cause;
- settings and adapters: nobody overwrites what they have not seen, a resume lifts
  the pause it was asked to lift, and every replaced adapter is closed in the end.

## 2. The modules

| Module | What it is |
|---|---|
| `InvestigationContract` | what the API promises a reader about the attempts of one alert |
| `RunLifecycle` | the transactions on one alert and the tasks that run between them; implements the contract |
| `DispatchQueue`, `MemoryScheduler` | how alerts reach those tasks, with Redis and without |
| `AlertIntake` | how alerts come in and go out |
| `AtMostOnceCall` | what the outer dispatch promises the graph |
| `OuterDispatch` | `DurableOuterToolDispatcher` on one tool action; implements `AtMostOnceCall` |
| `ReactLoop`, `AgentTrace` | the investigation graph of one run; what it tells the trace and what the page reads |
| `McpHarness` | `MCPAgentHarnessRuntime` with its four stores |
| `ArcheryHistory`, `ArcheryInvestigation` | the History pipeline; the pipeline with its supplemental analysis and its end |
| `PrometheusInvestigation`, `GenericInvestigation` | the metrics scenario and its facts; a server that is only declared |
| `ModelClient` | one request to the model |
| `EvidenceUnits`, `Conclusion` | how results become evidence; how the analysis becomes a report |
| `NotificationOutbox` | the outbox, the claims and the webhook |
| `RuntimeSettings`, `AdapterRetirement` | the settings file and the dispatch gate; the model adapters of a process |
| `Absence` | the constant `None`, which components of one composite share |
| `RunLifecycleProofs`, `NotificationOutboxProofs`, `McpHarnessProofs` | theorems about the module of that name |
| `DispatchProofs` | about `OuterDispatch` and `DispatchQueue` |
| `ProgressProofs` | about `ReactLoop`, `AgentTrace`, `MemoryScheduler` and `AdapterRetirement` |
| `InvestigationProofs` | about `GenericInvestigation`, `PrometheusInvestigation`, `EvidenceUnits` and `Conclusion` |
| `AdministrationProofs` | about `RuntimeSettings`, `AlertIntake` and `ModelClient` |
| `ArcheryProofs` | about `ArcheryHistory` and `ArcheryInvestigation` |
| `MCRunLifecycle`, `MCProgress`, `MCAdministration` | instances for TLC |

A repository method is one database transaction, so it is one action; so is one
write of a file, one remote call and one append to the event stream. What a task
has read before is in its own record (`task`, `worker`, `caller`, `admin`, ...) and may
be stale when it is used. Where the lease fences every write of a component
(`_require_active_run_lease`, `Fenced` in `RunLifecycle`) the component's module has
one process that may be replaced by another at any moment. Time is not a number
outside of `AlertIntake`: "the lease has expired", "the deadline has passed", "the
claim has run out" are single nondeterministic steps, which subsume a slow
process, a late heartbeat and a clock. Definitions whose comment begins with
*Mutant* are not part of a specification: they are broken variants that show what
each property is able to detect.

### RunLifecycle

| Variable | Code |
|---|---|
| `alert` | `AlertRow.status` (RECEIVED and QUEUED are both `QUEUED`) |
| `dispatch` | `AnalysisDispatchControlRow.state` |
| `latest`, `run` | `InvestigationRunRow` by attempt: status, fencing token, owner, lease, cancellation, whether a valid checkpoint exists, settings generation of the manifest, kind of error, notification intents queued |
| `task` | a task in a worker or in the API: where it is, its claim (attempt, token), the generation it froze, the verdict it carries |

`analyze_by_id` is `AnalyzeBegin`, then one of `ReclaimNothing`,
`ReclaimCancelled`, `ReclaimUnrecoverable`, `ReclaimTakesOver`, then `CreateRefused`,
`CreateMeetsExpired` or `CreateRun`. `reanalyze` is `ReanalyzeBegin` and
`ReanalyzeRefused` or `ReanalyzeCreate`. `_analyze_claimed_alert` is
`ReportClaimed`, then `Heartbeat`, `SaveCheckpoint`, `SeeCancellation`,
`AgentReturns`, `AgentRaises`, then `Finalize`, `FailRun`, `FailIncompatible` or
`FinalizeCancellation`. Other alerts are present only through the dispatch row
(`OtherAlertPauses`).

### DispatchQueue and MemoryScheduler

In `DispatchQueue`, `alerts` keeps the status of each alert with the claim of its run,
`stream` the messages, `worker` the message each task handles, `api` the enqueues
under way and the resume handler. `reported` holds the alerts whose hand-over
failed where somebody can see it: an error to the caller, or a dead letter. The
listing of a resume reads what is queued at the time of each page (`Rank`, `Before`,
`OnPage`); `overtaken` is a history variable with the alerts that slipped past it
(`Slipping`). The transactions of `RunLifecycle` are abstracted to `ClaimRun`,
`FailExpired` and `EndRun`.

`MemoryScheduler` keeps `queue`, `_queued` and the limiter of the development
scheduler, and in `holder` who leases the run of an alert: a worker, or somebody
else. A turn of `_worker` (`Turn`, `Fail`) ends as settled, paused, leased (also when the
lease was lost) or failed; `Done` retries only what is leased. An error of the
analysis (`app/application/scheduler.py:501`) is logged and the alert is given up:
the history variable `dropped` has it until it is enqueued again.

### AlertIntake

`feed` is the server's list in the order of its cursor, `row` the alert rows, `poll`
where each poll is and what it has fetched, `lock` the `_poll_lock`, `task` and `sync`
the poller's asyncio task and the settings change that starts or stops it.
`Expired` and `Clean` are the weekly retention (its weekly slot is any moment).

### OuterDispatch

`inv` is the `ToolInvocationRow` with its evidence, `artifact` the raw result,
`caller` the calls of `execute` and what they read, `lease` the epoch of the run.
`calls` counts the remote calls begun. Fenced are the database writes; the
remote call itself is not, so it may go out after a newer epoch recorded an
unknown outcome - `AtMostOnceCall` says so. Several callers of one epoch are
modelled because the class promises to serve them
(`app/agent_runtime/outer_dispatch.py:95-102`), although the graph makes one call
at a time today.

### ReactLoop and AgentTrace

`ReactLoop` has the graph's nodes as actions, with the places inside a node where
something becomes durable. `st` is the `AgentState`, `saved` and `unsaved` the
checkpoints (stored in order, behind the steps they follow), `journal` the
MODEL_DECISION events, `dispatch` the invocation rows by dispatch identity, `records`
the evidence. After a crash the next holder starts from `saved` and meets entries
its state does not know. A dispatch is `AtMostOnceCall`: started, answered, or of
unknown outcome. LangGraph itself is external; its pending writes are not applied
by `aput_writes`, so nodes are executed again. Cause validation is `Conclusion`'s.

`AgentTrace` follows the same nodes for what they tell: `stream` the event rows with
their trace keys, `proc` the process, `cursor` and `shown` the page that polls
`get_agent_trace`. Progress rows (`append_progress`) are numbered in the same way.

### McpHarness

`mem` is the part of `_RunContext` that is checkpointed, `task` the rest of the
process; `ckpt`, `row`, `journal` and `artifacts` are the four stores; `wire` counts
what was sent. The process may stop between any two writes (`Stop`), and `Resume`
rebuilds the memory from checkpoint, rows and events, imports debits and settles
the invocation that was under way; when it cannot, no event tells of it
(`ResumeFails`). Budgets other than remote calls are unlimited;
wall time is the deadline.

### ArcheryHistory and ArcheryInvestigation

`table` is the live history table: rows are committed (`Commit`) and purged
(`Purge`) while the scan runs. `scan` holds phase, cursor, snapshot id, page size
and the two lists, `rec` the rows and sample states, `sup` the supplemental state,
`result` what the harness says. A sample is its length, as the recovery compares
lengths. `Cut` is the deadline or a fatal error at any moment, `End` is
`_query_result`. One action is one call with its answer.

### PrometheusInvestigation, GenericInvestigation

The first follows a metrics reply from the call to the projected evidence; a label
set the Host may publish is a member of `Metrics`. The second keeps the conversation
in memory (`agent`), its checkpoint (`saved`), the response artifacts (`kept`) and the
announced actions (`announced`); `StartExecution` restores, `Lose` is a lost process.

### ModelClient, EvidenceUnits, Conclusion

`ModelClient` sends one request: `reply` is what the provider says and how its
gateway streams it (`Styles`), `heard` is `_StreamedChatResult`. A text is a sequence
of pieces, so that an answer with a missing, doubled or misplaced piece differs
from the output. `EvidenceUnits` takes a result apart into units (`HistoryUnit`,
`ResultUnits`, `FailureUnits`, `MissingUnits`) and projects it. `Conclusion` has the
reference policy (`Enforce`), the validator and the report, on one record with two
units and one without units.

### NotificationOutbox

`outbox` is the `NotificationDeliveryRow`s, `worker` a delivery cycle with its batch,
`wire` the history at the webhook: posts, cards accepted, answers lost or
unreadable, claims that lapsed.

### RuntimeSettings and AdapterRetirement

`file` and `flock` are the overrides file and its lock, `manager` and `running` what
each process remembers and runs with, `admin` a request in progress, `control` the
dispatch row. A revision is a hash of its content and is modelled by the content.
In `AdapterRetirement` an adapter is the number of its generation.

### The composites

`MCRunLifecycle`, `MCProgress` and `MCAdministration` put instances of modules side by
side. The modules of one composite share no variable: a behaviour is one of the
component that `part` names, the others rest in their initial states, and only the
component that moves is treated fairly. Their state spaces add up instead of
multiplying; a property of one component is checked over its complete behaviour.

## 3. What is checked

| Run | Question | Instance |
|---|---|---|
| `run_lifecycle_safety` | *Lifecycle*: does the alert always agree with its runs, does a graph run only under the settings of its manifest, does an accepted cancellation win, is one intent queued per run, does only the holder record a verdict, does the model implement the contract? *Dispatch*: is the evidence true, and is `AtMostOnceCall` implemented? *Queue*: is a queued alert of an enabled dispatch always tracked, save one that slips past a listing (point 7 of section 4)? | 2 tasks, 2 generations, 2 attempts, tokens up to 2; 3 callers; 2 alerts, 1 worker, 2 messages, pages of 1, 2 tries, 1 surprise |
| `harness` | Is each call paid for once, is every answer kept, does every investigation end? | 1 call, one retry, 5 invocations, 1 repair, 2 resumes |
| `archery` | Has a History that is called complete every stable row in both lists, and every row with its sample (save those of section 4, point 2)? Does the pipeline settle without the deadline? | 2 ids, samples of length 1 and 3, pages of 2, direct limit 2, chunks of 2 down to 1, 2 targets |
| `progress` | *Lifecycle*: does every alert settle? *Outbox*: does every intent settle? *Scheduler*: at most one worker per alert, and is what is queued analysed, if no error gives it up? *Adapters*: is what was replaced closed? *Graph*: are rounds taken over, is a completed run grounded, is an outage remembered, does every run end? *Dispatch*: does every call end? *Trace*: does a resumed run survive its own trace, does the page catch up? | 2 tasks, 1 generation, 1 attempt, tokens up to 2; 1 delivery, 2 cycles, no repetition; 2 alerts, limit 2, 2 requests, 2 changes; 2 analyses and 1 reanalysis, 3 adapters; 2 tools, 2 rounds, 1 crash; 2 callers; 2 texts, 1 decision, 2 deltas, 1 loss, pages of 1 |
| `administration` | *Conclusion*: is a completed report bound to what it cites? *Intake*: is an alert stored once, is a successful poll complete? *Metrics*: has each fact one source, was "no data" asked for? *Declared*: can checkpoints be resumed, is a kept answer not asked for again? *Client*: is the answer the output? *Units*: is evidence judged in parts? *Settings*: do edits build on what was seen, does a resume lift the pause it probed, do runs under old settings not pause? *Outbox*: are recorded outcomes earned, and duplicate cards explained? | 2 alerts, lookback 1, retention 2, pages of 1, polls of 1, time up to 3, 1 switch; 2 queries, 2 metrics, 2 calls; 2 calls, 2 replies, 2 executions; both protocols, 2 items, 1 repair; histories of one or two rows, also of one id; 2 rows, 1 stumble; 2 processes, 2 administrators, 2 edits, version up to 2, 1 restart; 2 deliveries (one unreadable), 2 cycles, batches of 2, 2 attempts, 1 repetition |
| `queue_stranded` | *Violated*: an expired run is resumed or failed | 2 alerts, 1 worker, 2 messages, pages of 1 |
| `queue_republished` | *Violated*: a resume republishes every queued alert | 2 alerts, 1 worker, 1 message, pages of 1 |
| `archery_dropped_row` | *Violated*: a complete History has every row that was listed | as `archery` |
| `adapter_in_use` | *Violated*: a claimed run keeps its adapter | 2 analyses, 1 reanalysis |
| `partial_support` | *Violated*: a partial result is no support | 2 queries, 2 metrics |
| `trace_replay` | *Violated*: a resumed run survives its trace, with streaming off | 1 decision, 1 loss |
| `model_refusal` | *Violated*: a confirmed refusal pauses the dispatch | both protocols |

Why the bounds are enough. *Lifecycle*: two tasks are a holder and a stale one, or
two that race; two attempts and two tokens are a run that is reclaimed and one
that supersedes it; two generations are the manifest's and a newer one. *Dispatch*:
three callers over two epochs are an executor, one that joins it and one that
recovers. *Queue*: two alerts are one being handled and one that the listing moves;
`MaxSurprises` bounds reanalyses, database errors and lease losses of a living
task, while crashes and orphaned leases are not bounded. Two alerts on pages
of 1 are a listing of two pages, of which the first may be read before the other
alert comes or goes; two messages are two of one alert, or one of each. *Outbox*: two
cycles are the one whose claim lapses and the one that takes it, and a delivery is
claimed twice, where the code allows three attempts (three in `progress`). *Harness*: a call, its retry and
repair need at most five invocations, and two resumes are a resume that is itself
interrupted. *Archery*: two ids are a row on either side of a cursor; a sample of
length 3 with chunks of 2 and 1 is recovered in pieces, after a direct fetch that
does not fit, and its chunks can be halved. *Intake*: with time up to 3 an alert can be
created late, seen by overlapping windows, and expire. *Graph*: two rounds and a
crash are a journal ahead of a checkpoint in the first round and in the last.
*Client*: two items are enough for every order of events that concern different
items. Others are explained at the constants.

Deadlock is checked where the system goes on for ever, and switched off by the
configuration where it ends: when all callers have returned, an investigation is
over, or a bound is used up.

### Fairness

- A task that neither stops nor waits for an external event goes on: every
  remote call, model request and post has a timeout, an analysis has one
  (`_run_agent_with_controls`), an investigation a deadline, and a joined
  invocation too.
- A stopped process is restarted, and what nobody renews - a lease, a claim, a
  deadline - passes.
- Crashes, pauses, cancellations, reanalyses, resumes, settings changes and polls
  are not fair; neither are `Cut` and the deadline in `ArcheryInvestigation`, so
  `PipelineSettles` is about the pipeline and not about its timeout.
- `RunLifecycle` states as a hypothesis of its liveness, not as fairness, that an
  alert which is not terminal keeps being handed out (`KeepsBeingHandedOut`).
  `queue_stranded` shows the case in which the queue does not do so.
- The periodic delivery worker keeps claiming, and a limiter slot that keeps
  becoming free is got in the end (strong fairness: others may be faster in
  between; the limiter serves its waiters in order).
- `McpHarness` needs its deadline: planner repairs are unlimited until then.
- The page keeps polling (`Poll`); the events it waits for are not fair.

Liveness is checked on instances smaller than those of the safety properties
(one generation and one attempt in `progress`, two of each in
`run_lifecycle_safety`).

## 4. Where the code and its documents disagree

Each of the first seven is a run whose property TLC refutes.

1. **A crashed run can be stranded by a pause** (`queue_stranded`). Workers drop the
   message of an ANALYZING alert while paused, and the resume republishes only
   RECEIVED and QUEUED alerts. Nothing hands the expired run out until the API
   restarts (`app/workers/redis.py:312`; `docs/project-architecture.md:415`).
2. **A complete History may lack a row** (`archery_dropped_row`). When the sample call
   of a row fails, `on_failure` (`app/adapters/archery_harness.py:6816`) takes the row
   out of the listed rows, so completeness is judged on the rest (`README.md:233-235`).
   If a chunk of the dropped row succeeds, the harness raises instead.
3. **An adapter in use is closed** (`adapter_in_use`). A reanalysis captures its adapter
   in the request and is counted as active when its background task starts; settings
   applied in between close it (`app/application/service.py:1018`; `:445`, `:790`).
4. **A partial result becomes a support** (`partial_support`). The projection drops
   `partial` and judges eligibility anew (`app/agent_runtime/outer_dispatch.py:49`;
   `app/domain/models.py:600`, `app/application/validation.py:418`).
5. **A resumed run contradicts its trace** (`trace_replay`). Without streaming every
   request of the last node has number 0, so the second answer meets the key of the
   first and the run fails (`app/agents/nodes.py:845`; `docs/project-architecture.md:414`).
   The same happens, with streaming on too, to an observation that sanitising changes:
   the stored text is compared with the unsanitised one.
6. **A refusal inside a stream does not pause** (`model_refusal`). The Responses client
   raises an error without the provider's code (`app/adapters/ai.py:1636`; `README.md:34`).
7. **A resume forgets an alert between two pages** (`queue_republished`). The listing
   reads pages of 100 by offset while the dispatch is enabled already and workers take
   alerts out of the listed set. One that leaves a page already read moves the first
   alert of the next page there; no message stands for it until a poll sees it again
   or the API restarts (`app/api/main.py:227`, `app/workers/redis.py:313-315`).

The following properties stand in the modules too; TLC refutes them, and they
are in no run.

8. **A harness cannot go on after a crash between two writes** (`RecoveryContinues`,
   `McpHarness`). The process stops after the checkpoint with a PENDING invocation and
   before the PENDING row. Recovery finds an invocation without a row, and `resume`
   raises, where the comment at `app/mcp_runtime/harness.py:873-875` promises that a
   crash before the transport boundary can always be continued.
9. **A resumable run is failed** (`UnrecoverableHadNoCheckpoint`, `RunLifecycle`).
   `analyze_by_id` reclaims and creates in two transactions. If the lease is still
   live in the first and has expired in the second, `create_run` fails the run
   "without a recoverable checkpoint", without having looked for one (`README.md:32`).
10. **An uncertain post is repeated** (`NotBlindlyResent`, `NotificationOutbox`), inside one
   `send` after a timeout, and after a crash when the 60-second claim has run out
   (`README.md:67-68`).
11. **A wake-up is lost in the in-process scheduler** (`ResumedIsAnalysed`,
    `MemoryScheduler`). A resume enqueues an alert while the worker that saw the pause
    still has it in `_queued`; the enqueue does nothing, and the worker lets it go
    (`README.md:37`).
12. **A rejected reset is written** (`RejectedRequestsChangeNothing`, `RuntimeSettings`). The
    overrides are emptied before the deployment's settings are validated
    (`app/application/admin.py:260`).
13. **Polling stays off after off and on** (`TaskFollowsTheSetting`, `AlertIntake`). A
    switch to on that arrives while the switch to off still waits for the task finds
    the task there and starts none (`app/application/scheduler.py:139-150`).

Also seen while modelling:

- The in-process scheduler gives an alert up when its analysis raises an error such as
  one of the database (`app/application/scheduler.py:501-505`): the next poll enqueues
  it if it is still QUEUED, only a restart if it is ANALYZING. The Redis worker tries
  again instead.
- Every poll enqueues an alert that is still QUEUED again
  (`app/application/scheduler.py:224-228`), where `docs/flashduty-polling/README.md:128`
  says that it does not. The duplicates end.
- `StoredOnce` needs a retention that is longer than lookback and poll together; the
  settings allow a lookback of 31 days with a retention of 7
  (`app/config.py:234`, `:307`), and then a deleted alert is stored a second time.
- A declared investigation that stops between an announced action and its stored
  response is asked again; when the model's new action differs, the trace refuses it
  and so does every later execution.
- The probe that precedes a resume validates the AI model only, not `react_model` and
  `mcp_model`.
- When some rows of a stage have results and others are still pending at a stop, the
  stage is reported NO_DATA beside its successful units; and the builder and the
  dispatcher judge "recovered" by different conditions.
- After an incomplete recovery the Host's own finish call is rejected
  (`app/adapters/archery_harness.py:5190-5197`), so that only the deadline ends the run.
- The same metrics query issued twice drops both series.

## 5. What is proved

All theorems hold for any sets and bounds, under the assumptions of the module and
those named here. An invariant that TLC checks is seldom inductive; each proof states
a strengthening, reduces every action to the few effects it can have, and proves the
rest from these effects instead of once per action.

**`RunLifecycleProofs`** (`BoundsAssumption`, `NoTaskAssumption`): type correctness,
`OnlyLatestRuns`, `AlertMirrorsLatestRun`, `ClaimsAreUnique`, `RunsUnderFrozenManifest`,
`CancellationWins`, `OneNotificationPerRun`; that decided runs are final, an expired
lease needs a new token, a paused dispatch claims nothing, only a reanalysis reopens
an alert, and `OnlyHolderRecordsVerdict`; and the refinement of
`InvestigationContract`. `Inv` adds what ties a task to the rows. `RowsWellFormed`:
attempts are numbered without a gap, only the newest runs, a RUNNING run has queued
no notification. `ClaimsWellFormed`: a claim is on an existing attempt, its token is
never ahead of the row's, and a claim with the token of the row is the owner's -
without it a stale task could not be told from the holder. A step does one thing to
the rows (nothing, *closes* the newest run, *touches* a running one, *opens* the next)
and one to its task (nothing, *drops*, *moves*, *takes* a claim).

**`DispatchProofs`**, one tool action: at most one call, evidence that is true
(`EvidenceIsTrue`) and shared, results that are final, the refinement of `AtMostOnceCall`;
that an answer is recorded in the epoch that asked (`SpecAnsweredInItsEpoch`), that a
caller with the lease is served (`SpecHolderIsServed`), and the types (there is an
epoch: `MaxEpoch \in Nat \ {0}`). The invariant says that there is one executor, that it
has started the row and calls once; `Epochs` that nobody knows a later epoch than the
lease's, and how what a caller read relates to the row.
*The queue* (bounds and page size in `Nat`): `QueuedIsTracked`, for any page size and any
number of queued alerts, and its types (a message is tried once:
`MaxTries \in Nat \ {0}`). `Tracked` strengthens the property by what a worker is about to
do: a message that is being acknowledged does not count. `Linked` ties what a worker
has read to its message, `Unclaimed` says that no run has an alert that waits. The
listing is followed by the places of the alerts in it: an arrival moves the older
ones down (`RankGrows`), a departure moves them up by one (`RankFalls`), so that exactly
the first alert of the next page can slip past it, and that one is on record
(`HandKept`).

**`NotificationOutboxProofs`**: `OutcomesAreEarned`, final outcomes, only the holder
records, and, for a finite set of cycles, `DuplicatesAreExplained`. The last is a
counting argument (`CardsAreAccounted`): the accepted cards, one more if the delivery
can be claimed, and the cycles that still have it in hand exceed the lost answers and
lapsed claims by at most one.

**`ProgressProofs`**, the graph (`MaxRounds \in Nat`; `Distinct`: no tool has the name of
another kind of decision): `CompletedIsGrounded`, `OutageIsRemembered`, and that the
journal has one decision for each round, in order. `RInv` says that every state a
process may resume from - current, saved or waiting to be stored - is *sound* for the
journal and the records; both only grow, so what was sound stays sound.
`RoundsAreTakenOver` (also `"detail" \notin Tools`) counts: `TakenInv` says that the dispatches
of a tool which a resumable state has evidence of are numbered by the rounds that
decided for it, and that no dispatch is ahead of the journal, so that a process
which takes a round over asks for the dispatch its predecessor asked for.
*The trace*: `RunSurvivesItsTrace`, under `Deployment` - reasoning is streamed, and
the sanitiser leaves texts alone. Both are needed: finding 5 is the run without
streaming, and a masked text is never equal to its original. `TraceInv` says that
a node has one decision, that what is told of a decision as a whole is that
decision, and how far the telling is at each place of a node. The types need neither.
*The scheduler*: `OneWorkerPerAlert`, from `SchedulerInv`: an alert is in the queue
once, or in one worker's hand, and in `_queued` in both cases.
*The adapters* (finitely many investigations; none is an analysis and a reanalysis):
`CountedRunsKeepTheirAdapter`, what is left of the promise that finding 3 refutes: who is
counted from the moment it captures its adapter keeps it open until it ends. By
`AdapterInv` the counter is the number of those who use an adapter, so that what is
being closed was taken when nobody did, and whoever begins later captures an
adapter that was never retired. Proved and in no run of its own.

**`McpHarnessProofs`** (the module's assumptions): `CallsArePaidOnce`, `AnswersAreKept` and
the types. Four stores are written one after the other, and a process may stop
between any two. `Durable` is what a resume may rely on after a stop: rows and events
know no invocation that the checkpoint does not know, and what they say has ended
has ended there in the same way - so the order of the writes matters, and a row may
be behind the checkpoint but never ahead of it. `Live` adds that memory and
checkpoint agree on the invocations that have ended, `AtPlace` how far the newest
invocation is at each place of the loop (before a call leaves, it is debited, its row
is started, and nothing was sent), `Reported` that a completed investigation has stored
the answers it held. `DebitsOnce` and `Paid` follow from these step by step. A resume
relies on `Durable` only and establishes the others.

**`InvestigationProofs`**, a declared server (`MaxReplies \in Nat`, `None` no conversation
and no response): `CheckpointsCanBeResumed`, `KeptAnswersAreNotAskedAgain`, the types, and
that the artifacts are those of the conversation and at most the one that follows it.
*Metrics*: `NoDataWasAsked` and `FactsHaveOneSource`; `MetricsInv` carries the reason from
the judgement of a stage to the projection (NO_DATA was answered by a range query).
*Units*: `EvidenceIsJudgedInParts`. *Conclusion*: `CompletedReportIsBound`, for any histories
of any rows; `ConclusionInv` says that what the policy keeps has no cause or cites
what is eligible, and that what the validator lets through is supported as well.

**`AdministrationProofs`**, settings (`None \notin Admins`): `EditsBuildOnWhatWasSeen`,
`ResumesThePauseItProbed`, `OldRunsDoNotPause`. `LockedEdit`: who holds the file lock has
the file in memory. `ProbesLag`: the version a probe was started for is never ahead of
the dispatch row, and behind it once another pause has replaced the one being probed.
*Intake*: `SuccessIsComplete`, and `StoredOnce` where an alert is retained for longer than
a poll can reach back (`Lookback + PollTime <= Retention`; section 4 has the settings
that break it). `WorldInv`: a row is younger than every appearance of its alert in the
feed, so that when it is deleted, no window reaches back to them. `PollInv`: what a poll
owes is stored or in its hands.
*Client*: the types; that the errors which pause are exactly the confirmed ones, and
none of them is retried (`ConfirmedErrorsPause`); and that a pause is explained
(`PausesAreExplained`, the promise of `README.md:34-35` in the direction that holds;
finding 6 is the other one). This property is proved and in no run.
`AnswerIsTheOutput` (`MaxItems` and `MaxRepairs` in `Nat`): the answer is the output, whatever
events of its protocol a gateway sends and however many items it sends. `Heard` says
of each position of the stream - the j-th event of an item - what has been heard
there: all of the items before, and of this one the parts that its events have told,
once. Each event takes the answer from one position to the next (`NextEvent`), an item
whose events are all left out begins where it ends (`Everywhere`), and what was not
streamed is merged from the final response (`MergedIsTheOutput`). The stream is a
`FlattenSeq`, a recursive fold: `FlattenIsJoin` shows it to be a concatenation `Join` with
one equation per item. The installed induction theorems cannot be instantiated; these
lemmas argue by a least counterexample instead (`Least`: a non-empty set of naturals
has one).

**`ArcheryProofs`** (`HistoryAssumption`): `CompleteIsExplained`. The table changes while it
is read. `ScanInv` says that the first scan goes down the ids and has every stable
row at its cursor and above, hence all of them in the end; `RecoveryInv` carries this
to the result: a row that both scans listed is among the rows or its sample was
refused (finding 2), and a complete result has the whole sample of each of its rows.

Only model-checked is liveness, as fairness and ENABLED are out of the prover's reach:
`EveryAlertSettles`, `EveryIntentSettles`, `QueuedIsAnalysed`, `ReplacedAdaptersAreClosed`,
`EveryRunEnds`, `EveryCallEnds`, `PageCatchesUp`, `EveryInvestigationEnds` and `PipelineSettles`.
Every invariant and action property that a passing run checks is a theorem as well.

## 6. What is not modelled

- *Budgets*: the ledgers of parent and children and dimensions other than remote
  calls; wall time is a deadline.
- *Archery*: the planner's discovery of the target, the recovery and analysis that the
  model drives without the pipeline, and the check that the statement that ran is the
  statement that was asked for, beyond its LIMIT. In `EvidenceUnits` a row has one
  table, and the order of supplemental calls is left open;
  `_validate_evidence_unit_sources` is not modelled. The server always offers the
  supplemental tools (`Due`); without one of them the planner takes over
  (`app/adapters/archery_harness.py:1754`, `:1784`, `:1806`), so `PipelineSettles` is claimed for
  servers that offer them.
- *Prometheus*: query texts, payload shapes, the limit of 20 series. The outcome
  BUDGET_EXHAUSTED and the host status `out_of_scope` are never reached.
- *Declared investigation*: transport, redaction, projection. That `execute` is called
  again for one dispatch is part of its own contract (the "恢复路径" of
  `docs/project-architecture.md:253`); the outer dispatch does not execute a started
  action twice. The same holds for the resume of `McpHarness`.
- *McpHarness*: reasoning traces, the replay tool. A decision followed by a reconnect
  checkpoint is forgotten by a crash and asked for again; an unused retry may stay in
  `pending_retry` until the next start. Both are in the model and harmless.
- *Conclusion*: evidence of version 1 keeps the statement the model wrote
  (`docs/project-architecture.md:408`), so binding is claimed for version 2 only.
- *Model client*: prompts, schemas, parsing of an answer, the knowledge policy. MCP
  requests carry no classification; a stream that breaks is classified as retryable,
  but only opening one is retried. The event `response.function_call_arguments.done` and
  the Responses protocol without streaming are left out.
- *Trace*: which action texts the sanitiser changes; `Masked` stands for all of it.
- *Settings*: a failure of `apply_runtime_settings` after the overrides were adopted
  (`app/api/main.py:608`). Two things the model shows and the properties allow: a
  second pause for the same revision does not raise the version, and a worker
  that has not yet reloaded may pause again for an older revision.
- *Intake*: the mapping of FlashDuty's fields and the resolution of names. An outage
  longer than the lookback loses alerts by design.
- *In-process scheduler*: `start` and `stop`; a resume lists its alerts in one step.
- *Data source adapters* otherwise (query building, parsing, remote I/O), *sanitization*,
  *catalog*, *mentions* after a card, the webhook's rate limiter, *HTTP routing and
  frontend*, and the legacy envelopes of the stream: pure functions or best-effort I/O
  without state the properties tell apart.

## 7. What could come next

The budget ledgers of a run and its children beside `McpHarness`; the discovery
phase of Archery before `ArcheryHistory`; abstract specifications that `McpHarness` and
`ArcheryInvestigation` implement, now that their invariants are known.
