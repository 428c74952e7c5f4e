------------------------ MODULE GenericInvestigation ------------------------
(***************************************************************************)
(* GenericMCPEvidenceTool: the investigation of a server that is only      *)
(* declared.  The model calls the tools it discovers until it finishes.    *)
(* Three things are durable: the checkpoint of the conversation, the       *)
(* artifact of each response, and the action each round announced to the   *)
(* trace.  The process may fail or be lost between any two writes, and     *)
(* execute() may be called again for the same dispatch.                    *)
(*                                                                         *)
(* Writes of a process that lost its lease are refused (RunLifecycle), so  *)
(* one process works at a time.                                            *)
(***************************************************************************)
EXTENDS Absence, Naturals, Sequences

CONSTANTS
  Calls,       \* tool calls the model may choose: name and arguments
  MaxReplies,    \* bound: responses the server gives in all
  MaxStarts    \* bound: executions

VARIABLES
  saved,       \* the row of the checkpoint: the conversation it encodes
  kept,        \* AgentArtifactRow by the index of its response
  announced,   \* TRACE_ACTION event by round
  agent,       \* the process: its place, and the conversation in memory
  paid,        \* history: calls the server answered
  starts       \* history: executions

genericVars == <<saved, kept, announced, agent, paid, starts>>

Indices == 1 .. MaxReplies
Replies == {"data", "empty", "error"}
Response == [call : Calls, reply : Replies, round : 1 .. MaxReplies]

\* _GenericMCPExecutionState; an observation is the projection of its response.
Fresh == [responses |-> <<>>, observations |-> <<>>, round |-> 0,
          pending |-> 0, completed |-> FALSE]

Blank(place) == [at |-> place, mem |-> Fresh, call |-> None, next |-> 1, result |-> None]

GenericInit ==
  /\ saved = None
  /\ kept = [i \in Indices |-> None]
  /\ announced = [r \in 1 .. MaxReplies + 1 |-> None]
  /\ agent = Blank("idle")
  /\ paid = 0 /\ starts = 0

mem == agent.mem
GoTo(place) == agent' = [agent EXCEPT !.at = place]
Memory(place, m) == agent' = [agent EXCEPT !.at = place, !.mem = m]

-----------------------------------------------------------------------------
(* Restoring.                                                              *)

\* _decode_execution_state: what it takes for a checkpoint to be accepted.
Consistent(m) ==
  /\ m.pending # 0 => m.pending = Len(m.observations) + 1 /\ m.pending = Len(m.responses)
  /\ Len(m.responses) = Len(m.observations) + (IF m.pending = 0 THEN 0 ELSE 1)
  /\ m.completed => m.pending = 0
  /\ m.round = Len(m.responses) + (IF m.completed THEN 1 ELSE 0)
  /\ \A i \in DOMAIN m.responses : m.responses[i].round = i

Restored == IF saved = None THEN Fresh ELSE saved

\* The artifact of the response that should come next.
Orphan(m) ==
  LET index == Len(m.responses) + 1
  IN IF m.completed \/ m.pending # 0 \/ index \notin Indices THEN None ELSE kept[index]

\* Mutant: the response is taken over, the round is not.
AdoptResponseOnly(m, response) ==
  [m EXCEPT !.responses = Append(@, response), !.pending = Len(m.responses) + 1]
TakeOver(m, response) ==
  [m EXCEPT !.responses = Append(@, response), !.pending = Len(m.responses) + 1,
            !.round = response.round]

\* Mutant: artifacts are only an audit.
WithoutOrphan(m) == m
\* _restore_orphan_remote_response
WithOrphan(m) == IF Orphan(m) = None THEN m ELSE TakeOver(m, Orphan(m))

StartExecution ==
  /\ agent.at \in {"idle", "failed"} /\ starts < MaxStarts
  /\ starts' = starts + 1
  /\ LET m == WithOrphan(Restored) IN
     IF \/ ~Consistent(Restored)
        \/ Orphan(Restored) # None /\ Orphan(Restored).round # Restored.round + 1
     THEN agent' = Blank("failed")
     ELSE agent' = [Blank(IF m.completed THEN "persist"
                         ELSE IF m.pending # 0 THEN "apply" ELSE "connect") EXCEPT !.mem = m]
  /\ UNCHANGED <<saved, kept, announced, paid>>

-----------------------------------------------------------------------------
(* The loop.                                                               *)

Investigating == {"apply", "applied", "connect", "ask", "announce", "call", "stage", "finish"}

\* _open_session and _list_tools; a server without tools ends it.
OpenSession(hasTools) ==
  /\ agent.at = "connect"
  /\ agent' = [agent EXCEPT !.at = IF hasTools THEN "ask" ELSE "persist",
                            !.result = IF hasTools THEN None ELSE "no_tools"]
  /\ UNCHANGED <<saved, kept, announced, paid, starts>>

Ask(call) ==
  /\ agent.at = "ask"
  /\ agent' = [agent EXCEPT !.at = "announce", !.call = call, !.mem.round = @ + 1]
  /\ UNCHANGED <<saved, kept, announced, paid, starts>>

\* emit_action: a round that was announced with another action is refused.
Announce ==
  /\ agent.at = "announce"
  /\ LET old == announced[mem.round] IN
     IF old \notin {None, agent.call}
     THEN GoTo("salvage") /\ UNCHANGED announced
     ELSE /\ announced' = [announced EXCEPT ![mem.round] = agent.call]
          /\ IF agent.call = "finish"
             THEN Memory("finish", [mem EXCEPT !.completed = TRUE])
             ELSE GoTo("call")
  /\ UNCHANGED <<saved, kept, paid, starts>>

CallTool(reply) ==
  /\ agent.at = "call" /\ paid < MaxReplies
  /\ paid' = paid + 1
  /\ Memory("stage", TakeOver(mem, [call |-> agent.call, reply |-> reply, round |-> mem.round]))
  /\ UNCHANGED <<saved, kept, announced, starts>>

\* _save_execution_checkpoint, at its three places.
Save ==
  /\ saved' = mem
  /\ UNCHANGED <<kept, announced, paid, starts>>

SaveStaged == agent.at = "stage" /\ GoTo("apply") /\ Save
SaveApplied == agent.at = "applied" /\ GoTo(IF agent.call = None THEN "connect" ELSE "ask") /\ Save
SaveFinished == agent.at = "finish" /\ GoTo("persist") /\ Save

\* _apply_remote_response, then the pending index is cleared.
Apply ==
  /\ agent.at = "apply"
  /\ Memory("applied", [mem EXCEPT
       !.observations = Append(@, mem.responses[mem.pending]), !.pending = 0])
  /\ UNCHANGED <<saved, kept, announced, paid, starts>>

\* A call, the model, the trace or the store raises.  A checkpoint may be
\* stored all the same.
Raise(stored) ==
  /\ agent.at \in Investigating
  /\ stored => agent.at \in {"stage", "applied", "finish"}
  /\ saved' = IF stored THEN mem ELSE saved
  /\ GoTo("salvage")
  /\ UNCHANGED <<kept, announced, paid, starts>>

-----------------------------------------------------------------------------
(* The artifacts, written when the investigation is over or has failed.    *)

\* save_agent_artifact takes the same content again and refuses another one.
Conflict(i) == kept[i] \notin {None, mem.responses[i]}

\* _execution_result
Result ==
  IF agent.result # None THEN "NO_DATA"
  ELSE IF \E i \in DOMAIN mem.observations : mem.observations[i].reply = "data"
       THEN "SUCCESS" ELSE "NO_DATA"

AfterPersisting == IF agent.at = "persist" THEN "done" ELSE "failed"

PersistArtifact ==
  /\ agent.at \in {"persist", "salvage"} /\ agent.next <= Len(mem.responses)
  /\ ~Conflict(agent.next)
  /\ kept' = [kept EXCEPT ![agent.next] = mem.responses[agent.next]]
  /\ agent' = [agent EXCEPT !.next = @ + 1]
  /\ UNCHANGED <<saved, announced, paid, starts>>

PersistFails ==
  /\ agent.at \in {"persist", "salvage"} /\ agent.next <= Len(mem.responses)
  /\ GoTo("failed")
  /\ UNCHANGED <<saved, kept, announced, paid, starts>>

Return ==
  /\ agent.at \in {"persist", "salvage"} /\ agent.next > Len(mem.responses)
  /\ agent' = [agent EXCEPT !.at = AfterPersisting,
                            !.result = IF agent.at = "persist" THEN Result ELSE None]
  /\ UNCHANGED <<saved, kept, announced, paid, starts>>

\* The process is lost with everything it has in memory.
Lose ==
  /\ agent.at \notin {"idle", "failed", "done"}
  /\ agent' = Blank("failed")
  /\ UNCHANGED <<saved, kept, announced, paid, starts>>

GenericNext ==
  \/ StartExecution
  \/ \E hasTools \in BOOLEAN : OpenSession(hasTools)
  \/ \E call \in Calls \cup {"finish"} : Ask(call)
  \/ Announce
  \/ \E reply \in Replies : CallTool(reply)
  \/ SaveStaged \/ Apply \/ SaveApplied \/ SaveFinished
  \/ \E stored \in BOOLEAN : Raise(stored)
  \/ PersistArtifact \/ PersistFails \/ Return \/ Lose

GenericSpec == GenericInit /\ [][GenericNext]_genericVars

-----------------------------------------------------------------------------
(* Properties.                                                             *)

Memories ==
  [responses : Seq(Response), observations : Seq(Response), round : 0 .. MaxReplies + 1,
   pending : 0 .. MaxReplies, completed : BOOLEAN]

GenericTypeOK ==
  /\ saved \in Memories \cup {None}
  /\ kept \in [Indices -> Response \cup {None}]
  /\ announced \in [1 .. MaxReplies + 1 -> Calls \cup {"finish", None}]
  /\ agent.at \in Investigating \cup {"idle", "persist", "salvage", "done", "failed"}
  /\ agent.mem \in Memories
  /\ paid \in 0 .. MaxReplies /\ starts \in 0 .. MaxStarts

\* Wherever the process stopped, what it left can be gone on from: a stored
\* checkpoint is one that restoring accepts.  (_save_execution_checkpoint and
\* the nine conditions of _decode_execution_state)
CheckpointsCanBeResumed == saved # None => Consistent(saved)

\* A response that is durable, in the checkpoint or as the artifact a failed
\* execution left behind, is not asked for again.
\* (_restore_orphan_remote_response)
KeptAnswersAreNotAskedAgain ==
  [][paid' # paid =>
       /\ kept[mem.round] = None
       /\ saved # None => Len(saved.responses) < mem.round]_genericVars

\* The artifact of a response never contradicts the conversation that is
\* continued: otherwise the execution could not end.  (save_agent_artifact)
ArtifactsAgree ==
  \A i \in DOMAIN mem.responses : ~Conflict(i)
=============================================================================
