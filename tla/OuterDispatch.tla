---------------------------- MODULE OuterDispatch ----------------------------
(***************************************************************************)
(* DurableOuterToolDispatcher on ONE dispatch: the deterministic identity  *)
(* of one tool action of one run.  Any number of callers of the current    *)
(* lease epoch, and stale ones of earlier epochs, load, create, start,     *)
(* execute, join, expire or recover the same invocation row.               *)
(*                                                                         *)
(* Every repository call is one transaction behind the fence of            *)
(* _require_active_run_lease, so one action; what was read before is       *)
(* local to the caller and may be stale.  The remote call itself is not    *)
(* fenced.  Epochs change as in RunLifecycle: a lease expires, and the     *)
(* run is reclaimed under a higher token.                                  *)
(***************************************************************************)
EXTENDS Naturals

CONSTANTS
  Callers,      \* calls of execute for the dispatch
  MaxEpoch      \* bound: reclaims of the run

VARIABLES
  lease,        \* fencing token and liveness of the run's lease
  inv,          \* ToolInvocationRow, with its durable result
  artifact,     \* raw-result AgentArtifactRow
  caller,       \* [Callers -> local state of an execute call]
  calls         \* remote calls begun (history)

callVars == <<lease, inv, artifact, caller, calls>>

Answers == {"ok", "failed", "timeout"}
Results == Answers \cup {"expired", "unknown"}
Terminal == {"DONE", "UNKNOWN_OUTCOME"}
Row(status, exec) == [status |-> status, exec |-> exec]
Idle == [pc |-> "idle", tok |-> 0, seen |-> Row("absent", 0), got |-> "none"]

CallInit ==
  /\ lease = [token |-> 1, live |-> TRUE]
  /\ inv = [status |-> "absent", exec |-> 0, late |-> FALSE, result |-> "none"]
  /\ artifact = "none"
  /\ caller = [c \in Callers |-> Idle]
  /\ calls = 0

-----------------------------------------------------------------------------

HoldsLease(c) == lease.live /\ caller[c].tok = lease.token

GoTo(c, label) == caller' = [caller EXCEPT ![c].pc = label]
Leave(c) == caller' = [caller EXCEPT ![c] = Idle]
Return(c, evidence) ==
  caller' = [caller EXCEPT ![c].pc = "returned", ![c].got = evidence]

(* Mutant: the status of the row is not compared. *)
UpdateAnyStatus(c, expected, status, exec, result) ==
  /\ HoldsLease(c)
  /\ inv' = [inv EXCEPT !.status = status, !.exec = exec, !.result = result]

(* update_tool_invocation succeeds: fenced, and the row has the expected
   status, which the UPDATE compares again.                                *)
Update(c, expected, status, exec, result) ==
  /\ HoldsLease(c)
  /\ inv.status = expected
  /\ inv' = [inv EXCEPT !.status = status, !.exec = exec, !.result = result]

(* ToolInvocationConflict sends the caller back to the row; a lost lease is
   raised.                                                                  *)
UpdateRefused(c, expected) ==
  /\ IF HoldsLease(c) THEN inv.status # expected /\ GoTo(c, "load") ELSE Leave(c)
  /\ UNCHANGED inv

-----------------------------------------------------------------------------
(* execute, with the claim of the current epoch. *)
Enter(c) ==
  /\ caller[c].pc = "idle" /\ lease.live
  /\ caller' = [caller EXCEPT ![c].pc = "load", ![c].tok = lease.token]
  /\ UNCHANGED <<lease, inv, artifact, calls>>

(* get_tool_invocation, first or after a conflict. *)
Load(c) ==
  /\ caller[c].pc = "load"
  /\ caller' = [caller EXCEPT
       ![c].seen = Row(inv.status, inv.exec),
       ![c].pc = IF inv.status = "absent" THEN "create" ELSE "resolve"]
  /\ UNCHANGED <<lease, inv, artifact, calls>>

(* save_tool_invocation; the deadline counts from here. *)
Create(c) ==
  /\ caller[c].pc = "create"
  /\ \/ /\ HoldsLease(c) /\ inv.status = "absent"
        /\ inv' = [inv EXCEPT !.status = "PENDING"]
        /\ caller' = [caller EXCEPT ![c].seen = Row("PENDING", 0),
                                    ![c].pc = "resolve"]
     \/ UpdateRefused(c, "absent")
  /\ UNCHANGED <<lease, artifact, calls>>

(* _resolve_attempt on what was read. *)
ResolvePending(c) ==
  /\ caller[c].pc = "resolve" /\ caller[c].seen.status = "PENDING"
  /\ GoTo(c, IF inv.late THEN "expire" ELSE "start")
  /\ UNCHANGED <<lease, inv, artifact, calls>>

ResolveStartedRetries(c) ==
  /\ caller[c].pc = "resolve" /\ caller[c].seen.status = "STARTED"
  /\ IF inv.late THEN GoTo(c, "recover")
     ELSE IF caller[c].tok > caller[c].seen.exec THEN GoTo(c, "call")
     ELSE IF caller[c].tok < caller[c].seen.exec THEN Leave(c)
     ELSE GoTo(c, "wait")
  /\ UNCHANGED <<lease, inv, artifact, calls>>

(* _resolve_started: recover after the deadline or in a newer epoch, refuse
   in an older one, join in the same.                                      *)
ResolveStarted(c) ==
  /\ caller[c].pc = "resolve" /\ caller[c].seen.status = "STARTED"
  /\ IF inv.late \/ caller[c].tok > caller[c].seen.exec THEN GoTo(c, "recover")
     ELSE IF caller[c].tok < caller[c].seen.exec THEN Leave(c)
     ELSE GoTo(c, "wait")
  /\ UNCHANGED <<lease, inv, artifact, calls>>

(* _load_terminal_evidence *)
ResolveTerminal(c) ==
  /\ caller[c].pc = "resolve" /\ caller[c].seen.status \in Terminal
  /\ Return(c, inv.result)
  /\ UNCHANGED <<lease, inv, artifact, calls>>

(* _expire_pending *)
ExpirePending(c) ==
  /\ caller[c].pc = "expire"
  /\ \/ Update(c, "PENDING", "DONE", 0, "expired") /\ Return(c, "expired")
     \/ UpdateRefused(c, "PENDING")
  /\ UNCHANGED <<lease, artifact, calls>>

(* _recover_started *)
RecoverStarted(c) ==
  /\ caller[c].pc = "recover"
  /\ \/ /\ Update(c, "STARTED", "UNKNOWN_OUTCOME", inv.exec, "unknown")
        /\ Return(c, "unknown")
     \/ UpdateRefused(c, "STARTED")
  /\ UNCHANGED <<lease, artifact, calls>>

(* Mutant: the joined attempt is waited for whatever the deadline says. *)
PollWithoutDeadline(c) ==
  /\ caller[c].pc = "wait" /\ inv.status # "STARTED"
  /\ caller' = [caller EXCEPT ![c].seen = Row(inv.status, inv.exec),
                              ![c].pc = "resolve"]
  /\ UNCHANGED <<lease, inv, artifact, calls>>

(* _wait_for_inflight_terminal *)
Poll(c) ==
  /\ caller[c].pc = "wait"
  /\ \/ inv.late /\ GoTo(c, "recover")
     \/ /\ inv.status # "STARTED"
        /\ caller' = [caller EXCEPT ![c].seen = Row(inv.status, inv.exec),
                                    ![c].pc = "resolve"]
  /\ UNCHANGED <<lease, inv, artifact, calls>>

-----------------------------------------------------------------------------
(* _execute_pending: the claim of the execution ... *)
Start(c) ==
  /\ caller[c].pc = "start"
  /\ \/ Update(c, "PENDING", "STARTED", caller[c].tok, "none") /\ GoTo(c, "call")
     \/ UpdateRefused(c, "PENDING")
  /\ UNCHANGED <<lease, artifact, calls>>

(* ... the remote call, unless the deadline has passed ... *)
CallRemote(c) ==
  /\ caller[c].pc = "call"
  /\ IF inv.late
       THEN /\ caller' = [caller EXCEPT ![c].pc = "save", ![c].got = "timeout"]
            /\ UNCHANGED calls
       ELSE GoTo(c, "calling") /\ calls' = calls + 1
  /\ UNCHANGED <<lease, inv, artifact>>

(* ... which answers, raises or times out; a lost lease noticed by the tool
   itself is raised ...                                                    *)
Answer(c) ==
  /\ caller[c].pc = "calling"
  /\ \/ \E e \in Answers :
          caller' = [caller EXCEPT ![c].pc = "save", ![c].got = e]
     \/ ~HoldsLease(c) /\ Leave(c)
  /\ UNCHANGED <<lease, inv, artifact, calls>>

(* ... save_agent_artifact; another content under the same identity is
   refused ...                                                             *)
SaveArtifact(c) ==
  /\ caller[c].pc = "save"
  /\ IF HoldsLease(c) /\ artifact \in {"none", caller[c].got}
       THEN artifact' = caller[c].got /\ GoTo(c, "record")
       ELSE Leave(c) /\ UNCHANGED artifact
  /\ UNCHANGED <<lease, inv, calls>>

(* ... and the terminal status with the evidence. *)
Record(c) ==
  /\ caller[c].pc = "record"
  /\ \/ /\ Update(c, "STARTED", "DONE", inv.exec, caller[c].got)
        /\ Return(c, caller[c].got)
     \/ UpdateRefused(c, "STARTED")
  /\ UNCHANGED <<lease, artifact, calls>>

-----------------------------------------------------------------------------
(* The process stops, or the task is cancelled by its lease guard. *)
CallerCrash(c) ==
  /\ caller[c].pc \notin {"idle", "down", "returned"}
  /\ caller' = [caller EXCEPT ![c] = [Idle EXCEPT !.pc = "down"]]
  /\ UNCHANGED <<lease, inv, artifact, calls>>

CallerRestart(c) ==
  /\ caller[c].pc = "down"
  /\ Leave(c)
  /\ UNCHANGED <<lease, inv, artifact, calls>>

DeadlinePasses ==
  /\ inv.status # "absent" /\ ~inv.late
  /\ inv' = [inv EXCEPT !.late = TRUE]
  /\ UNCHANGED <<lease, artifact, caller, calls>>

EpochEnds ==
  /\ lease.live
  /\ lease' = [lease EXCEPT !.live = FALSE]
  /\ UNCHANGED <<inv, artifact, caller, calls>>

Reclaim ==
  /\ ~lease.live /\ lease.token < MaxEpoch
  /\ lease' = [token |-> lease.token + 1, live |-> TRUE]
  /\ UNCHANGED <<inv, artifact, caller, calls>>

-----------------------------------------------------------------------------
Proceed(c) ==
  \/ Load(c) \/ Create(c)
  \/ ResolvePending(c) \/ ResolveStarted(c) \/ ResolveTerminal(c)
  \/ ExpirePending(c) \/ RecoverStarted(c) \/ Poll(c)
  \/ Start(c) \/ CallRemote(c) \/ Answer(c) \/ SaveArtifact(c) \/ Record(c)

CallNext ==
  \/ \E c \in Callers : Enter(c) \/ Proceed(c) \/ CallerCrash(c) \/ CallerRestart(c)
  \/ DeadlinePasses \/ EpochEnds \/ Reclaim

CallSpec == CallInit /\ [][CallNext]_callVars

(* A caller that neither crashes nor is cancelled runs on (asyncio.timeout
   ends the remote call), and the clock reaches the deadline.              *)
CallFairness == WF_callVars(DeadlinePasses) /\ \A c \in Callers : WF_callVars(Proceed(c))

FairCallSpec == CallSpec /\ CallFairness

-----------------------------------------------------------------------------
Labels ==
  {"load", "create", "resolve", "expire", "recover", "wait", "start", "call",
   "calling", "save", "record"}
Statuses == {"absent", "PENDING", "STARTED"} \cup Terminal

CallTypeOK ==
  /\ lease \in [token : 1 .. MaxEpoch, live : BOOLEAN]
  /\ inv \in [status : Statuses, exec : 0 .. MaxEpoch, late : BOOLEAN,
              result : Results \cup {"none"}]
  /\ artifact \in Answers \cup {"none"}
  /\ caller \in [Callers ->
       [pc : Labels \cup {"idle", "down", "returned"}, tok : 0 .. MaxEpoch,
        seen : [status : Statuses, exec : 0 .. MaxEpoch],
        got : Results \cup {"none"}]]
  /\ calls \in Nat

(* The remote tool is called at most once for one action of the Agent, over
   all callers, epochs, crashes and deadlines (no durable outcome, and no
   attempt in flight, is ever replayed).                                    *)
AtMostOneCall == calls <= 1

(* Every caller that returns evidence returns the durable evidence: the one
   that executed, the ones that joined it, and those of later epochs.       *)
AnswersAgree ==
  \A c \in Callers :
    caller[c].pc = "returned" => caller[c].got # "none" /\ caller[c].got = inv.result

(* The evidence never claims what did not happen: an invocation that expired
   before its dispatch was not executed, one with an answer was.            *)
EvidenceIsTrue ==
  /\ inv.result = "expired" => calls = 0
  /\ inv.result \in {"ok", "failed"} => calls = 1

(* The answer in the invocation row is the content of its raw artifact, which
   is written in an earlier transaction.                                    *)
AnswerHasItsArtifact ==
  inv.result \in Answers => artifact = inv.result

(* A result that was decided stays, also when the executor comes back after
   somebody recovered the invocation.                                       *)
ResultsAreFinal ==
  [][inv.status \in Terminal =>
       inv'.status = inv.status /\ inv'.result = inv.result]_callVars

(* An answer is recorded only while the epoch that executed still holds the
   run; in any later epoch the outcome is unknown.                          *)
AnsweredInItsEpoch ==
  [][inv.status = "STARTED" /\ inv'.result \in Answers =>
       lease.live /\ lease.token = inv.exec]_callVars

(* A caller that still holds the lease is never turned away: whatever the row
   looks like, it joins, recovers or executes until it has evidence.        *)
HolderIsServed ==
  [][\A c \in Callers :
       caller[c].pc \in Labels /\ caller'[c].pc = "idle" => ~HoldsLease(c)]_callVars

(* Every call ends, with evidence, with a lost lease or by a crash. *)
EveryCallEnds ==
  \A c \in Callers : caller[c].pc \in Labels ~> caller[c].pc \notin Labels

AtMostOnce == INSTANCE AtMostOnceCall WITH
  calls <- calls,
  result <- inv.result

ImplementsAtMostOnce == AtMostOnce!Spec
=============================================================================
