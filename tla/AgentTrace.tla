------------------------------ MODULE AgentTrace ------------------------------
(***************************************************************************)
(* The event stream of a run as the investigation graph writes it and the  *)
(* trace page reads it.  A node is re-executed after a crash, because its  *)
(* checkpoint is stored after it; what it told the trace the first time is *)
(* recognised by a trace key, and the same key with another content is     *)
(* refused.                                                                *)
(*                                                                         *)
(* Nodes 1 .. 2 * MaxDecisions alternate between a decision and its tool;  *)
(* the last node asks for the recommendation.  Appends of a process that   *)
(* lost the run are refused by the lease (RunLifecycle) and change         *)
(* nothing, so one process writes at a time.                               *)
(***************************************************************************)
EXTENDS Naturals, Sequences, FiniteSets, FiniteSetsExt

CONSTANTS
  None,        \* the absence of a value
  Texts,       \* what the model may answer, with its reasoning
  Masked,      \* those whose text sanitization changes once it is serialised
  Streaming,   \* stream_main_agent_reasoning
  MaxDecisions, \* decisions before the recommendation
  MaxDeltas,   \* pieces a streamed reasoning comes in
  MaxLosses,   \* bound: process losses
  PageLimit    \* page size of the trace endpoint

VARIABLES
  stream,      \* AgentEventRow rows of the run by sequence
  proc,        \* the process: node, place in it, and local variables
  stored,      \* the node the last stored checkpoint resumes at
  refused,     \* a re-executed node was refused by the trace: the run fails
  losses,
  cursor,      \* next_sequence of the trace page
  shown        \* sequences of the trace entries it has received

streamVars == <<stream, proc, stored, refused, losses>>
pageVars == <<cursor, shown>>
traceVars == <<streamVars, pageVars>>

Last == 2 * MaxDecisions + 1
IsDecision(n) == n < Last /\ n % 2 = 1
IsTool(n) == n < Last /\ n % 2 = 0

Entering(n) == [node |-> n, at |-> "start", answer |-> None, attempt |-> 0, deltas |-> 0]

TraceInit ==
  /\ stream = <<>>
  /\ proc = Entering(1) /\ stored = 1
  /\ refused = FALSE /\ losses = 0
  /\ cursor = 0 /\ shown = {}

-----------------------------------------------------------------------------
(* AgentTraceEmitter and the sinks.                                        *)

TraceKinds == {"REASONING", "ACTION", "OBSERVATION"}

\* What becomes of a text on its way into the database.
Sanitized(content) ==
  IF content.text \in Masked THEN [content EXCEPT !.form = "masked"] ELSE content

\* delta 0 is a text told as a whole.
Key(n, attempt, delta) == [node |-> n, attempt |-> attempt, delta |-> delta]

Told(kind, key) == {k \in DOMAIN stream : stream[k].kind = kind /\ stream[k].key = key}

\* append_agent_events: the next sequence number is checked against the last
\* one, which nobody else has moved.
Recorded(kind, key, content) ==
  Append(stream, [kind |-> kind, key |-> key, content |-> Sanitized(content)])

\* _emit: a key already told with this content is not told again.
Emit(kind, key, content) ==
  LET old == Told(kind, key) IN
  IF old = {}
  THEN /\ stream' = Recorded(kind, key, content)
       /\ UNCHANGED refused
  ELSE /\ refused' = (\E k \in old : stream[k].content # content)
       /\ UNCHANGED stream

\* Mutant: every request of a node counts as its first.
FirstAttempt(n) == 0
\* _next_reasoning_request_attempt: only streamed reasoning bears an attempt
\* that is found again.
NextAttempt(n) ==
  LET seen == {stream[k].key.attempt : k \in {k \in DOMAIN stream :
                 /\ stream[k].kind = "REASONING"
                 /\ stream[k].key.node = n /\ stream[k].key.delta > 0}}
  IN IF seen = {} THEN 0 ELSE Max(seen) + 1

-----------------------------------------------------------------------------
(* The nodes of the graph.                                                 *)

Working == ~refused /\ proc.node <= Last

Goto(place) == proc' = [proc EXCEPT !.at = place]
EndNode == proc' = Entering(proc.node + 1)

Decided(n) == {k \in DOMAIN stream : stream[k].kind = "DECISION" /\ stream[k].key.node = n}

\* A decision in the stream is taken as it is; the recommendation is not
\* recorded there and is asked for again.
StartAsking ==
  /\ Working /\ ~IsTool(proc.node) /\ proc.at = "start"
  /\ LET old == Decided(proc.node) IN
     proc' = [proc EXCEPT
       !.attempt = NextAttempt(proc.node),
       !.answer = IF old = {} THEN None ELSE stream[Max(old)].content,
       !.at = IF old = {} THEN "ask" ELSE "reason"]
  /\ UNCHANGED <<stream, stored, refused, losses, pageVars>>

Answered ==
  IF IsDecision(proc.node) THEN "record" ELSE "reason"

AskModel(text) ==
  /\ Working /\ proc.at = "ask"
  /\ proc' = [proc EXCEPT !.answer = [text |-> text, form |-> "plain"],
                          !.at = IF Streaming THEN "stream" ELSE Answered]
  /\ UNCHANGED <<stream, stored, refused, losses, pageVars>>

\* emit_reasoning_delta, called by the provider client
TellDelta ==
  /\ Working /\ proc.at = "stream"
  /\ LET delta == proc.deltas + 1 IN
     /\ Emit("REASONING", Key(proc.node, proc.attempt, delta), proc.answer)
     /\ proc' = [proc EXCEPT !.deltas = delta,
                             !.at = IF delta = MaxDeltas THEN Answered ELSE "stream"]
  /\ UNCHANGED <<stored, losses, pageVars>>

RecordDecision ==
  /\ Working /\ proc.at = "record"
  /\ stream' = Recorded("DECISION", Key(proc.node, 0, 0), proc.answer)
  /\ Goto("reason")
  /\ UNCHANGED <<stored, refused, losses, pageVars>>

\* Reasoning that was streamed is not told again as a whole.
TellReasoning ==
  /\ Working /\ proc.at = "reason"
  /\ IF proc.deltas > 0 THEN UNCHANGED <<stream, refused>>
     ELSE Emit("REASONING",
               Key(proc.node, IF IsDecision(proc.node) THEN 0 ELSE proc.attempt, 0), proc.answer)
  /\ IF IsDecision(proc.node) THEN Goto("act") ELSE EndNode
  /\ UNCHANGED <<stored, losses, pageVars>>

TellAction ==
  /\ Working /\ proc.at = "act"
  /\ Emit("ACTION", Key(proc.node, 0, 0), proc.answer)
  /\ EndNode
  /\ UNCHANGED <<stored, losses, pageVars>>

\* The tool's evidence is durable (OuterDispatch): a second execution of the
\* node finds it and tells it again.
TellObservation(text) ==
  /\ Working /\ IsTool(proc.node) /\ proc.at = "start"
  /\ \A k \in Told("OBSERVATION", Key(proc.node, 0, 0)) : text = stream[k].content.text
  /\ Emit("OBSERVATION", Key(proc.node, 0, 0), [text |-> text, form |-> "plain"])
  /\ EndNode
  /\ UNCHANGED <<stored, losses, pageVars>>

\* Checkpoints are stored in order, some time after their node.
SaveCheckpoint ==
  /\ stored < proc.node /\ ~refused
  /\ stored' = stored + 1
  /\ UNCHANGED <<stream, proc, refused, losses, pageVars>>

\* The process is lost; another one resumes the run.
Lose ==
  /\ losses < MaxLosses /\ ~refused
  /\ losses' = losses + 1
  /\ proc' = Entering(stored)
  /\ UNCHANGED <<stream, stored, refused, pageVars>>

-----------------------------------------------------------------------------
(* get_agent_trace, polled by the page.                                    *)

PageEnd == IF Len(stream) - cursor > PageLimit THEN cursor + PageLimit ELSE Len(stream)
Entries(upTo) == {k \in cursor + 1 .. upTo : stream[k].kind \in TraceKinds}

\* Mutant: the cursor follows the entries the page shows.
NextSequenceOfItems == Max(Entries(PageEnd) \cup {cursor})
\* The cursor follows the events read, shown or not.
NextSequence == PageEnd

Poll ==
  /\ cursor < Len(stream)
  /\ cursor' = NextSequence
  /\ shown' = shown \cup Entries(PageEnd)
  /\ UNCHANGED streamVars

GraphNext ==
  \/ StartAsking \/ TellDelta \/ RecordDecision \/ TellReasoning \/ TellAction
  \/ \E text \in Texts : AskModel(text) \/ TellObservation(text)
  \/ SaveCheckpoint \/ Lose
TraceNext == GraphNext \/ Poll

\* The page polls as long as it is open.
TraceFairness == WF_traceVars(Poll)
TraceSpec == TraceInit /\ [][TraceNext]_traceVars /\ TraceFairness

-----------------------------------------------------------------------------
(* Properties.                                                             *)

TraceTypeOK ==
  /\ proc.node \in 1 .. Last + 1 /\ stored \in 1 .. Last + 1
  /\ refused \in BOOLEAN
  /\ cursor \in 0 .. Len(stream) /\ shown \subseteq DOMAIN stream

\* A run that goes on from its checkpoint is never failed by what its nodes
\* told the trace before the loss: a request that is repeated tells under new
\* keys, everything else tells the same.  (_emit, _next_reasoning_request_attempt)
RunSurvivesItsTrace == ~refused

\* The open page catches up with the run again and again: no entry is passed
\* over, however many events that are not shown lie between.  (get_agent_trace)
PageCatchesUp ==
  []<>(shown = {k \in DOMAIN stream : stream[k].kind \in TraceKinds})
=============================================================================
