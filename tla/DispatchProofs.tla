---------------------------- MODULE DispatchProofs ----------------------------
(***************************************************************************)
(* Proofs about the two ways in which work is handed on: a tool action of  *)
(* a run to its one remote call (OuterDispatch, for every set of callers   *)
(* and every number of lease epochs), and an alert to a worker             *)
(* (DispatchQueue, for every number of alerts, workers and messages).      *)
(*                                                                         *)
(* OuterDispatch.  The executor is the one caller that started the         *)
(* invocation and is still on its way through the remote call.  Inv ties   *)
(* it to the row: a row that nobody started has no executor and no call,   *)
(* there is never a second one, and what it brings back is true of the     *)
(* calls.                                                                  *)
(*                                                                         *)
(* DispatchQueue.  No interleaving of polls, pauses, resumes, restarts and *)
(* acknowledgements forgets a queued alert, whatever the page size of      *)
(* republish_pending_alerts, but one for each alert that leaves while a    *)
(* resume is between two pages: an arrival moves the older alerts away     *)
(* from the pages read, a departure moves them up by one place             *)
(* (RankGrows, RankFalls), so exactly the first of the next page slips.    *)
(* QueuedIsTracked is not inductive: the message that stands for an alert  *)
(* could be one that a worker is about to delete.  Tracked asks for a      *)
(* message in which no worker is past its decision to acknowledge; while   *)
(* the dispatch is enabled that decision is only made for settled alerts,  *)
(* because a message and the worker that has it name one alert (Linked).   *)
(***************************************************************************)
EXTENDS OuterDispatch, DispatchQueue, FiniteSetTheorems, TLAPS

ExecutorAt == {"call", "calling", "save", "record"}
Executing(c) == caller[c].pc \in ExecutorAt

CallerState ==
  [pc : Labels \cup {"idle", "down", "returned"}, tok : Nat,
   seen : [status : Statuses, exec : Nat], got : Results \cup {"none"}]

\* TypeOK without the bound of the tokens.
Typed ==
  /\ lease \in [token : Nat, live : BOOLEAN]
  /\ inv \in [status : Statuses, exec : Nat, late : BOOLEAN,
              result : Results \cup {"none"}]
  /\ artifact \in Answers \cup {"none"}
  /\ caller \in [Callers -> CallerState]
  /\ calls \in Nat

\* A result is there when the row is terminal, and an invocation that was not
\* started, or that expired, has not been called.
RowWellFormed ==
  /\ inv.status \in Terminal <=> inv.result # "none"
  /\ inv.status \in {"absent", "PENDING"} => calls = 0

\* An executor has started the row, is alone, and calls once.
OneExecutor ==
  \A c \in Callers :
    /\ Executing(c) => /\ inv.status \notin {"absent", "PENDING"}
                       /\ inv.result \in {"none", "unknown"}
                       /\ \A d \in Callers : Executing(d) => d = c
    /\ caller[c].pc = "call" => calls = 0

\* What it brings back is an answer, and one that says more than that the
\* deadline passed comes from the remote tool.
AnswersAreReal ==
  \A c \in Callers :
    /\ caller[c].pc = "calling" => calls = 1
    /\ caller[c].pc \in {"save", "record"} =>
         /\ caller[c].got \in Answers
         /\ caller[c].got # "timeout" => calls = 1

\* The answer is stored before it is recorded, and a caller that has seen the
\* end of the invocation, or returns it, has seen the one there is.
EvidenceIsShared ==
  /\ AnswerHasItsArtifact /\ AnswersAgree
  /\ \A c \in Callers :
       /\ caller[c].pc = "record" => artifact = caller[c].got
       /\ caller[c].seen.status \in Terminal => inv.status \in Terminal
       /\ caller[c].pc = "returned" => inv.status \in Terminal

Inv ==
  /\ Typed /\ RowWellFormed /\ OneExecutor /\ AnswersAreReal
  /\ AtMostOneCall /\ EvidenceIsTrue /\ EvidenceIsShared

-----------------------------------------------------------------------------
(* What a step does to the row and to one caller, which becomes s.         *)

\* A caller that does not execute reads, waits, is refused, stops or crashes.
Passes(c, s) ==
  /\ s \in CallerState /\ s.pc \notin ExecutorAt
  /\ caller' = [caller EXCEPT ![c] = s]
  /\ s.seen.status \in Terminal => inv.status \in Terminal
  /\ s.pc = "returned" => inv.status \in Terminal /\ s.got = inv.result
  /\ UNCHANGED <<inv, artifact, calls>>

LEMMA PassesKeeps ==
  ASSUME Inv, NEW c \in Callers, NEW s, Passes(c, s),
         lease' \in [token : Nat, live : BOOLEAN]
  PROVE  Inv'
<1>1. \A d \in Callers : caller'[d] = IF d = c THEN s ELSE caller[d]
  BY DEF Inv, Typed, Passes
<1>2. Typed'
  BY <1>1 DEF Inv, Typed, Passes
<1>3. \A d \in Callers : caller'[d].pc \in ExecutorAt => caller'[d] = caller[d]
  BY <1>1 DEF Passes
<1>4. OneExecutor'
  BY <1>1, <1>3 DEF Inv, OneExecutor, Executing, Passes, ExecutorAt
<1>5. AnswersAreReal'
  BY <1>1, <1>3 DEF Inv, AnswersAreReal, Passes, ExecutorAt
<1>6. EvidenceIsShared'
  BY <1>1, <1>3 DEF Inv, RowWellFormed, EvidenceIsShared, AnswerHasItsArtifact,
                    AnswersAgree, Passes, ExecutorAt
<1>7. QED
  BY <1>2, <1>4, <1>5, <1>6 DEF Inv, RowWellFormed, AtMostOneCall, EvidenceIsTrue, Passes

\* Creating, expiring and recovering write the row; the caller does not
\* execute.
Writes(c, s, status, result) ==
  /\ s \in CallerState /\ s.pc \notin ExecutorAt
  /\ caller' = [caller EXCEPT ![c] = s]
  /\ inv' \in [status : Statuses, exec : Nat, late : BOOLEAN,
               result : Results \cup {"none"}]
  /\ inv'.status = status /\ inv'.result = result
  /\ s.seen.status \notin Terminal
  /\ s.pc = "returned" => status \in Terminal /\ s.got = result
  /\ UNCHANGED <<artifact, calls>>
  /\ \/ inv.status = "absent" /\ status = "PENDING" /\ result = "none"
     \/ inv.status = "PENDING" /\ status = "DONE" /\ result = "expired"
     \/ inv.status = "STARTED" /\ status = "UNKNOWN_OUTCOME" /\ result = "unknown"

LEMMA WritesKeeps ==
  ASSUME Inv, NEW c \in Callers, NEW s, NEW status, NEW result,
         Writes(c, s, status, result), UNCHANGED lease
  PROVE  Inv'
<1>1. \A d \in Callers : caller'[d] = IF d = c THEN s ELSE caller[d]
  BY DEF Inv, Typed, Writes
<1>2. Typed'
  BY <1>1 DEF Inv, Typed, Writes
<1>3. \A d \in Callers : caller'[d].pc \in ExecutorAt => caller'[d] = caller[d]
  BY <1>1 DEF Writes
<1>4. inv.result = "none"
  BY DEF Inv, RowWellFormed, Writes, Terminal
<1>5. RowWellFormed' /\ EvidenceIsTrue' /\ AtMostOneCall'
  BY <1>4 DEF Inv, RowWellFormed, EvidenceIsTrue, AtMostOneCall, Writes, Terminal
<1>6. OneExecutor'
  BY <1>1, <1>3, <1>4 DEF Inv, OneExecutor, Executing, Writes, ExecutorAt
<1>7. AnswersAreReal'
  BY <1>1, <1>3 DEF Inv, AnswersAreReal, Writes, ExecutorAt
<1>8. EvidenceIsShared'
  BY <1>1, <1>3, <1>4 DEF Inv, RowWellFormed, EvidenceIsShared, AnswerHasItsArtifact,
                          AnswersAgree, Writes, ExecutorAt, Answers, Terminal
<1>9. QED
  BY <1>2, <1>5, <1>6, <1>7, <1>8 DEF Inv

\* The executor, which becomes s, takes a step of its own.
Executes(c, s) ==
  /\ s \in CallerState /\ s.seen = caller[c].seen
  /\ caller' = [caller EXCEPT ![c] = s]
  /\ artifact' = IF s.pc = "record" THEN s.got ELSE artifact
  /\ \/ /\ inv.status = "PENDING" /\ s.pc = "call"
        /\ inv' \in [status : Statuses, exec : Nat, late : BOOLEAN,
                     result : Results \cup {"none"}]
        /\ inv'.status = "STARTED" /\ inv'.result = inv.result /\ calls' = calls
     \/ /\ caller[c].pc = "call" /\ s.pc = "save" /\ s.got = "timeout"
        /\ inv' = inv /\ calls' = calls
     \/ /\ caller[c].pc = "call" /\ s.pc = "calling"
        /\ inv' = inv /\ calls' = calls + 1
     \/ /\ caller[c].pc = "calling" /\ s.pc = "save" /\ s.got \in Answers
        /\ inv' = inv /\ calls' = calls
     \/ /\ caller[c].pc = "save" /\ s.pc = "record" /\ s.got = caller[c].got
        /\ inv' = inv /\ calls' = calls
     \/ /\ caller[c].pc = "record" /\ s.pc = "returned" /\ s.got = caller[c].got
        /\ inv.status = "STARTED" /\ inv'.status = "DONE"
        /\ inv' \in [status : Statuses, exec : Nat, late : BOOLEAN,
                     result : Results \cup {"none"}]
        /\ inv'.result = caller[c].got /\ calls' = calls

LEMMA ExecutesKeeps ==
  ASSUME Inv, NEW c \in Callers, NEW s, Executes(c, s), lease' = lease
  PROVE  Inv'
<1>1. \A d \in Callers : caller'[d] = IF d = c THEN s ELSE caller[d]
  BY DEF Inv, Typed, Executes
<1>2. Typed'
  BY <1>1 DEF Inv, Typed, AnswersAreReal, Executes
<1>3. RowWellFormed'
  BY DEF Inv, Typed, RowWellFormed, OneExecutor, AnswersAreReal, Executing, ExecutorAt,
         Executes, Terminal, Answers
<1>4. OneExecutor'
  BY <1>1 DEF Inv, Typed, RowWellFormed, OneExecutor, Executing, ExecutorAt, Executes,
              Terminal
<1>5. AnswersAreReal'
  BY <1>1 DEF Inv, Typed, RowWellFormed, OneExecutor, AnswersAreReal, Executing,
              ExecutorAt, Executes, Answers
<1>6. AtMostOneCall' /\ EvidenceIsTrue'
  BY DEF Inv, Typed, RowWellFormed, OneExecutor, AnswersAreReal, AtMostOneCall,
         EvidenceIsTrue, Executing, ExecutorAt, Executes, Terminal, Answers
<1>7. EvidenceIsShared'
  BY <1>1 DEF Inv, Typed, RowWellFormed, OneExecutor, Executing, AnswersAreReal,
              EvidenceIsShared, AnswerHasItsArtifact, AnswersAgree, ExecutorAt,
              Executes, Answers, Terminal
<1>8. QED
  BY <1>2, <1>3, <1>4, <1>5, <1>6, <1>7 DEF Inv

-----------------------------------------------------------------------------
(* Every action is one of these steps.                                     *)

Step(c) ==
  \E s \in CallerState :
    \/ Passes(c, s)
    \/ \E status, result : Writes(c, s, status, result)
    \/ Executes(c, s)

LEMMA CallerType ==
  ASSUME Typed, NEW c \in Callers
  PROVE  /\ caller[c] \in CallerState
         /\ caller[c].tok \in Nat /\ caller[c].pc \in Labels \cup {"idle", "down", "returned"}
BY DEF Typed, CallerState

LEMMA GotoPasses ==
  ASSUME Inv, NEW c \in Callers, NEW label \in Labels \ ExecutorAt,
         GoTo(c, label), UNCHANGED <<inv, artifact, calls>>
  PROVE  Step(c)
<1> DEFINE s == [caller[c] EXCEPT !.pc = label]
<1>1. s \in CallerState /\ s.pc = label /\ s.seen = caller[c].seen
  BY CallerType DEF CallerState, Inv
<1>2. caller' = [caller EXCEPT ![c] = s]
  BY DEF GoTo
<1> HIDE DEF s
<1>3. Passes(c, s)
  BY <1>1, <1>2 DEF Passes, Labels, Inv, EvidenceIsShared
<1>4. QED
  BY <1>1, <1>3 DEF Step

LEMMA StopPasses ==
  ASSUME Inv, NEW c \in Callers, UNCHANGED <<inv, artifact, calls>>,
         \/ Leave(c)
         \/ caller' = [caller EXCEPT ![c] = [Idle EXCEPT !.pc = "down"]]
  PROVE  Step(c)
<1>1. Idle \in CallerState /\ [Idle EXCEPT !.pc = "down"] \in CallerState
  BY DEF CallerState, Idle, Row, Statuses
<1>2. \/ Passes(c, Idle) \/ Passes(c, [Idle EXCEPT !.pc = "down"])
  BY <1>1 DEF Passes, Leave, Idle, Row, ExecutorAt, Terminal
<1>3. QED
  BY <1>1, <1>2 DEF Step

LEMMA RefusedPasses ==
  ASSUME Inv, NEW c \in Callers, NEW expected, UpdateRefused(c, expected),
         UNCHANGED <<artifact, calls>>
  PROVE  Step(c)
BY GotoPasses, StopPasses DEF UpdateRefused, Labels, ExecutorAt

\* A caller that reads the row, and one that returns evidence.
LEMMA ReadPasses ==
  ASSUME Inv, NEW c \in Callers, NEW label \in {"create", "resolve"},
         UNCHANGED <<inv, artifact, calls>>,
         caller' = [caller EXCEPT ![c].seen = Row(inv.status, inv.exec), ![c].pc = label]
  PROVE  Step(c)
<1> DEFINE s == [caller[c] EXCEPT !.seen = Row(inv.status, inv.exec), !.pc = label]
<1>1. s \in CallerState /\ s.pc = label /\ s.seen.status = inv.status
  BY CallerType DEF CallerState, Inv, Typed, Row, Labels
<1>2. caller' = [caller EXCEPT ![c] = s]
  OBVIOUS
<1> HIDE DEF s
<1>3. Passes(c, s)
  BY <1>1, <1>2 DEF Passes, ExecutorAt
<1>4. QED
  BY <1>1, <1>3 DEF Step

LEMMA ReturnState ==
  ASSUME Inv, NEW c \in Callers, NEW evidence \in Results \cup {"none"},
         Return(c, evidence)
  PROVE  \E s \in CallerState :
           /\ s.pc = "returned" /\ s.got = evidence /\ s.seen = caller[c].seen
           /\ caller' = [caller EXCEPT ![c] = s]
<1> DEFINE s == [caller[c] EXCEPT !.pc = "returned", !.got = evidence]
<1>1. s \in CallerState /\ s.pc = "returned" /\ s.got = evidence
      /\ s.seen = caller[c].seen
  BY CallerType DEF CallerState, Inv
<1>2. QED
  BY <1>1 DEF Return

LEMMA WriteSteps ==
  ASSUME Inv, NEW c \in Callers, Create(c) \/ ExpirePending(c) \/ RecoverStarted(c)
  PROVE  Step(c)
<1> USE DEF Inv
<1>1. ASSUME NEW expected, UpdateRefused(c, expected), UNCHANGED <<artifact, calls>>
      PROVE  Step(c)
  BY <1>1, RefusedPasses
<1>2. inv \in [status : Statuses, exec : Nat, late : BOOLEAN, result : Results \cup {"none"}]
  BY DEF Typed
<1>3. ASSUME NEW s \in CallerState, s.pc \notin ExecutorAt, s.seen.status \notin Terminal,
             caller' = [caller EXCEPT ![c] = s], UNCHANGED <<artifact, calls>>,
             NEW new \in {"PENDING", "DONE", "UNKNOWN_OUTCOME"},
             NEW result \in {"none", "expired", "unknown"}, NEW exec \in Nat,
             inv' = [inv EXCEPT !.status = new, !.exec = exec, !.result = result],
             s.pc = "returned" => new # "PENDING" /\ s.got = result,
             \/ inv.status = "absent" /\ new = "PENDING" /\ result = "none"
             \/ inv.status = "PENDING" /\ new = "DONE" /\ result = "expired"
             \/ inv.status = "STARTED" /\ new = "UNKNOWN_OUTCOME" /\ result = "unknown"
      PROVE  Step(c)
  <2>1. /\ inv' \in [status : Statuses, exec : Nat, late : BOOLEAN,
                     result : Results \cup {"none"}]
        /\ inv'.status = new /\ inv'.result = result
    BY <1>2, <1>3 DEF Statuses, Terminal, Results
  <2>2. Writes(c, s, new, result)
    BY <1>3, <2>1 DEF Writes, Terminal
  <2>3. QED
    BY <1>3, <2>2 DEF Step
<1>4. CASE Create(c)
  <2>1. ASSUME inv.status = "absent", inv' = [inv EXCEPT !.status = "PENDING"],
               caller' = [caller EXCEPT ![c].seen = Row("PENDING", 0), ![c].pc = "resolve"],
               UNCHANGED <<artifact, calls>>
        PROVE  Step(c)
    <3> DEFINE s == [caller[c] EXCEPT !.seen = Row("PENDING", 0), !.pc = "resolve"]
    <3>1. s \in CallerState /\ s.pc = "resolve" /\ s.seen.status = "PENDING"
      BY CallerType DEF CallerState, Row, Statuses, Labels
    <3>2. caller' = [caller EXCEPT ![c] = s]
      BY <2>1
    <3> HIDE DEF s
    <3>3. inv.result = "none"
      BY <1>2, <2>1 DEF RowWellFormed, Terminal
    <3>4. inv' = [inv EXCEPT !.status = "PENDING", !.exec = inv.exec, !.result = "none"]
      BY <1>2, <2>1, <3>3
    <3>5. inv.exec \in Nat
      BY <1>2
    <3>6. QED
      BY <1>3, <2>1, <3>1, <3>2, <3>4, <3>5 DEF ExecutorAt, Terminal
  <2>2. QED
    BY <1>1, <1>4, <2>1 DEF Create
<1>5. CASE ExpirePending(c)
  <2>1. ASSUME Update(c, "PENDING", "DONE", 0, "expired"), Return(c, "expired"),
               UNCHANGED <<artifact, calls>>
        PROVE  Step(c)
    <3>1. PICK s \in CallerState :
            /\ s.pc = "returned" /\ s.got = "expired" /\ s.seen = caller[c].seen
            /\ caller' = [caller EXCEPT ![c] = s]
      BY <2>1, ReturnState DEF Results
    <3>2. s.seen.status \notin Terminal
      BY <2>1, <3>1 DEF Update, EvidenceIsShared, Terminal
    <3>3. QED
      BY <1>3, <2>1, <3>1, <3>2 DEF Update, ExecutorAt
  <2>2. QED
    BY <1>1, <1>5, <2>1 DEF ExpirePending
<1>6. CASE RecoverStarted(c)
  <2>1. ASSUME Update(c, "STARTED", "UNKNOWN_OUTCOME", inv.exec, "unknown"),
               Return(c, "unknown"), UNCHANGED <<artifact, calls>>
        PROVE  Step(c)
    <3>1. PICK s \in CallerState :
            /\ s.pc = "returned" /\ s.got = "unknown" /\ s.seen = caller[c].seen
            /\ caller' = [caller EXCEPT ![c] = s]
      BY <2>1, ReturnState DEF Results
    <3>2. s.seen.status \notin Terminal
      BY <2>1, <3>1 DEF Update, EvidenceIsShared, Terminal
    <3>3. QED
      BY <1>2, <1>3, <2>1, <3>1, <3>2 DEF Update, ExecutorAt
  <2>2. QED
    BY <1>1, <1>6, <2>1 DEF RecoverStarted
<1>7. QED
  BY <1>4, <1>5, <1>6

LEMMA ExecutorSteps ==
  ASSUME Inv, NEW c \in Callers,
         Start(c) \/ CallRemote(c) \/ Answer(c) \/ SaveArtifact(c) \/ Record(c)
  PROVE  Step(c)
<1> USE DEF Inv
<1>1. ASSUME NEW expected, UpdateRefused(c, expected), UNCHANGED <<artifact, calls>>
      PROVE  Step(c)
  BY <1>1, RefusedPasses
<1>2. inv \in [status : Statuses, exec : Nat, late : BOOLEAN, result : Results \cup {"none"}]
  BY DEF Typed
<1>3. \A label \in Labels :
        /\ [caller[c] EXCEPT !.pc = label] \in CallerState
        /\ [caller[c] EXCEPT !.pc = label].pc = label
        /\ [caller[c] EXCEPT !.pc = label].got = caller[c].got
        /\ [caller[c] EXCEPT !.pc = label].seen = caller[c].seen
  BY CallerType DEF CallerState
<1>4. \A e \in Answers :
        /\ [caller[c] EXCEPT !.pc = "save", !.got = e] \in CallerState
        /\ [caller[c] EXCEPT !.pc = "save", !.got = e].pc = "save"
        /\ [caller[c] EXCEPT !.pc = "save", !.got = e].got = e
        /\ [caller[c] EXCEPT !.pc = "save", !.got = e].seen = caller[c].seen
  BY CallerType DEF CallerState, Labels, Results
<1>5. CASE Start(c)
  <2> DEFINE s == [caller[c] EXCEPT !.pc = "call"]
  <2>1. ASSUME Update(c, "PENDING", "STARTED", caller[c].tok, "none"), GoTo(c, "call"),
               UNCHANGED <<artifact, calls>>
        PROVE  Step(c)
    <3>1. inv.status = "PENDING" /\ inv.result = "none"
      BY <2>1 DEF Update, RowWellFormed, Terminal
    <3>2. /\ inv' \in [status : Statuses, exec : Nat, late : BOOLEAN,
                       result : Results \cup {"none"}]
          /\ inv'.status = "STARTED" /\ inv'.result = inv.result
      BY <1>2, <2>1, <3>1, CallerType DEF Update, Statuses
    <3>3. Executes(c, s)
      BY <1>3, <2>1, <3>1, <3>2 DEF Executes, GoTo, Labels
    <3>4. QED
      BY <1>3, <2>1, <3>3 DEF Step, Labels
  <2>2. QED
    BY <1>1, <1>5, <2>1 DEF Start
<1>6. CASE CallRemote(c)
  <2>1. CASE inv.late
    <3>1. Executes(c, [caller[c] EXCEPT !.pc = "save", !.got = "timeout"])
      BY <1>4, <1>6, <2>1 DEF CallRemote, Executes, Answers
    <3>2. QED
      BY <1>4, <1>6, <3>1 DEF CallRemote, Step, Answers
  <2>2. CASE ~inv.late
    <3>1. Executes(c, [caller[c] EXCEPT !.pc = "calling"])
      BY <1>3, <1>6, <2>2 DEF CallRemote, Executes, GoTo, Labels
    <3>2. QED
      BY <1>3, <1>6, <3>1 DEF CallRemote, Step, Labels
  <2>3. QED
    BY <2>1, <2>2
<1>7. CASE Answer(c)
  <2>1. ASSUME NEW e \in Answers, caller' = [caller EXCEPT ![c].pc = "save", ![c].got = e]
        PROVE  Step(c)
    <3>1. Executes(c, [caller[c] EXCEPT !.pc = "save", !.got = e])
      BY <1>4, <1>7, <2>1 DEF Answer, Executes
    <3>2. QED
      BY <1>4, <1>7, <3>1 DEF Answer, Step
  <2>2. CASE Leave(c)
    BY <1>7, <2>2, StopPasses DEF Answer
  <2>3. QED
    BY <1>7, <2>1, <2>2 DEF Answer
<1>8. CASE SaveArtifact(c)
  <2>1. ASSUME artifact' = caller[c].got, GoTo(c, "record") PROVE Step(c)
    <3>1. caller[c].got \in Answers
      BY <1>8 DEF SaveArtifact, AnswersAreReal
    <3>2. Executes(c, [caller[c] EXCEPT !.pc = "record"])
      BY <1>3, <1>8, <2>1 DEF SaveArtifact, Executes, GoTo, Labels
    <3>3. QED
      BY <1>3, <2>1, <3>1, <3>2 DEF Step, Labels
  <2>2. CASE Leave(c) /\ UNCHANGED artifact
    BY <1>8, <2>2, StopPasses DEF SaveArtifact
  <2>3. QED
    BY <1>8, <2>1, <2>2 DEF SaveArtifact
<1>9. CASE Record(c)
  <2>1. ASSUME Update(c, "STARTED", "DONE", inv.exec, caller[c].got),
               Return(c, caller[c].got), UNCHANGED <<artifact, calls>>
        PROVE  Step(c)
    <3>1. caller[c].pc = "record" /\ caller[c].got \in Answers
      BY <1>9 DEF Record, AnswersAreReal
    <3>2. /\ inv.status = "STARTED"
          /\ inv' \in [status : Statuses, exec : Nat, late : BOOLEAN,
                       result : Results \cup {"none"}]
          /\ inv'.status = "DONE" /\ inv'.result = caller[c].got
      BY <1>2, <2>1, <3>1 DEF Update, Statuses, Terminal, Results
    <3>3. PICK s \in CallerState :
            /\ s.pc = "returned" /\ s.got = caller[c].got /\ s.seen = caller[c].seen
            /\ caller' = [caller EXCEPT ![c] = s]
      BY <2>1, <3>1, ReturnState DEF Results
    <3>4. Executes(c, s)
      BY <2>1, <3>1, <3>2, <3>3 DEF Executes
    <3>5. QED
      BY <2>1, <3>4 DEF Step
  <2>2. QED
    BY <1>1, <1>9, <2>1 DEF Record
<1>10. QED
  BY <1>5, <1>6, <1>7, <1>8, <1>9

\* A step of the clock or of the lease leaves the callers and the calls alone.
TimePasses ==
  /\ \/ inv' = inv /\ lease' \in [token : Nat, live : BOOLEAN]
     \/ inv' = [inv EXCEPT !.late = TRUE] /\ lease' = lease
  /\ UNCHANGED <<artifact, caller, calls>>

LEMMA Steps ==
  ASSUME Inv, [CallNext]_callVars
  PROVE  (\E c \in Callers : lease' = lease /\ Step(c)) \/ TimePasses
<1> USE DEF Inv
<1>1. ASSUME NEW c \in Callers, Enter(c) \/ Proceed(c) \/ CallerCrash(c) \/ CallerRestart(c)
      PROVE  lease' = lease /\ Step(c)
  <2>1. CASE Enter(c)
    <3> DEFINE s == [caller[c] EXCEPT !.pc = "load", !.tok = lease.token]
    <3>1. s \in CallerState /\ s.pc = "load" /\ s.seen = caller[c].seen
      BY CallerType DEF CallerState, Typed, Labels
    <3>2. caller' = [caller EXCEPT ![c] = s]
      BY <2>1 DEF Enter
    <3> HIDE DEF s
    <3>3. Passes(c, s)
      BY <2>1, <3>1, <3>2 DEF Enter, Passes, ExecutorAt, EvidenceIsShared
    <3>4. QED
      BY <2>1, <3>1, <3>3 DEF Enter, Step
  <2>2. CASE Load(c)
    BY <2>2, ReadPasses DEF Load
  <2>3. CASE ResolvePending(c) \/ ResolveStarted(c)
    BY <2>3, GotoPasses, StopPasses
       DEF ResolvePending, ResolveStarted, Labels, ExecutorAt
  <2>4. CASE ResolveTerminal(c)
    <3>1. inv.result \in Results \cup {"none"}
      BY DEF Typed
    <3>2. PICK s \in CallerState :
            /\ s.pc = "returned" /\ s.got = inv.result /\ s.seen = caller[c].seen
            /\ caller' = [caller EXCEPT ![c] = s]
      BY <2>4, <3>1, ReturnState DEF ResolveTerminal
    <3>3. Passes(c, s)
      BY <2>4, <3>2 DEF ResolveTerminal, Passes, ExecutorAt, EvidenceIsShared
    <3>4. QED
      BY <2>4, <3>3 DEF ResolveTerminal, Step
  <2>5. CASE Poll(c)
    BY <2>5, GotoPasses, ReadPasses DEF Poll, Labels, ExecutorAt
  <2>6. CASE CallerCrash(c) \/ CallerRestart(c)
    BY <2>6, StopPasses DEF CallerCrash, CallerRestart
  <2>7. CASE Create(c) \/ ExpirePending(c) \/ RecoverStarted(c)
    BY <2>7, WriteSteps DEF Create, ExpirePending, RecoverStarted
  <2>8. CASE Start(c) \/ CallRemote(c) \/ Answer(c) \/ SaveArtifact(c) \/ Record(c)
    BY <2>8, ExecutorSteps DEF Start, CallRemote, Answer, SaveArtifact, Record
  <2>9. QED
    BY <1>1, <2>1, <2>2, <2>3, <2>4, <2>5, <2>6, <2>7, <2>8 DEF Proceed
<1>2. CASE DeadlinePasses \/ EpochEnds \/ Reclaim
  <2>1. lease \in [token : Nat, live : BOOLEAN]
    BY DEF Typed
  <2>2. CASE DeadlinePasses
    BY <2>2 DEF DeadlinePasses, TimePasses
  <2>3. CASE EpochEnds
    BY <2>1, <2>3 DEF EpochEnds, TimePasses
  <2>4. CASE Reclaim
    BY <2>1, <2>4 DEF Reclaim, TimePasses
  <2>5. QED
    BY <1>2, <2>2, <2>3, <2>4
<1>3. CASE UNCHANGED callVars
  BY <1>3 DEF callVars, TimePasses, Typed
<1>4. QED
  BY <1>1, <1>2, <1>3 DEF CallNext

LEMMA TimeKeeps ==
  ASSUME Inv, TimePasses
  PROVE  Inv'
<1>1. Typed' /\ inv'.status = inv.status /\ inv'.result = inv.result
  BY DEF Inv, Typed, TimePasses
<1>2. QED
  BY <1>1 DEF Inv, RowWellFormed, OneExecutor, Executing, AnswersAreReal, AtMostOneCall,
              EvidenceIsTrue, EvidenceIsShared, AnswerHasItsArtifact, AnswersAgree,
              TimePasses

LEMMA InitInv == CallInit => Inv
BY DEF CallInit, Inv, Typed, CallerState, Idle, Row, Statuses, Terminal, RowWellFormed,
       OneExecutor, Executing, ExecutorAt, AnswersAreReal, AtMostOneCall, EvidenceIsTrue,
       EvidenceIsShared, AnswerHasItsArtifact, AnswersAgree, Answers, Results

LEMMA NextInv == Inv /\ [CallNext]_callVars => Inv'
<1> SUFFICES ASSUME Inv, [CallNext]_callVars PROVE Inv'
  OBVIOUS
<1>1. ASSUME NEW c \in Callers, lease' = lease, Step(c)
      PROVE  Inv'
  <2>1. lease' \in [token : Nat, live : BOOLEAN]
    BY <1>1 DEF Inv, Typed
  <2>2. QED
    BY <1>1, <2>1, PassesKeeps, WritesKeeps, ExecutesKeeps DEF Step
<1>2. QED
  BY <1>1, Steps, TimeKeeps

-----------------------------------------------------------------------------
(* Whatever callers of one action and of the resumed runs race, crash and    *)
(* come back late, the invocation row, its executor and the calls fit.       *)
THEOREM SpecInv == CallSpec => []Inv
BY InitInv, NextInv, PTL DEF CallSpec

(* The remote tool is called at most once for one action of a run, for any   *)
(* number of callers, lease epochs, crashes and deadlines.                   *)
THEOREM SpecAtMostOneCall == CallSpec => []AtMostOneCall
<1>1. Inv => AtMostOneCall
  BY DEF Inv
<1>2. QED
  BY <1>1, SpecInv, PTL

(* The evidence never claims what did not happen: an expired invocation was  *)
(* not called, one with an answer was.                                       *)
THEOREM SpecEvidenceIsTrue == CallSpec => []EvidenceIsTrue
<1>1. Inv => EvidenceIsTrue
  BY DEF Inv
<1>2. QED
  BY <1>1, SpecInv, PTL

(* Everybody who gets evidence gets the same: the one that executed, those   *)
(* that joined it and those of later epochs; an answer is that of the raw    *)
(* artifact, which is written in an earlier transaction.                     *)
THEOREM SpecEvidenceIsShared == CallSpec => [](AnswersAgree /\ AnswerHasItsArtifact)
<1>1. Inv => AnswersAgree /\ AnswerHasItsArtifact
  BY DEF Inv, EvidenceIsShared
<1>2. QED
  BY <1>1, SpecInv, PTL

(* A decided result stays, also when the executor answers after somebody     *)
(* recovered its invocation.                                                 *)
THEOREM SpecResultsAreFinal == CallSpec => ResultsAreFinal
<1>1. ASSUME Inv, [CallNext]_callVars, inv.status \in Terminal
      PROVE  inv'.status = inv.status /\ inv'.result = inv.result
  <2>1. CASE TimePasses
    BY <1>1, <2>1 DEF Inv, Typed, TimePasses
  <2>2. ASSUME NEW c \in Callers, NEW s \in CallerState, Passes(c, s) \/ Executes(c, s)
        PROVE  inv'.status = inv.status /\ inv'.result = inv.result
    BY <1>1, <2>2 DEF Passes, Executes, Terminal
  <2>3. ASSUME NEW c \in Callers, NEW s \in CallerState, NEW status, NEW result,
               Writes(c, s, status, result)
        PROVE  FALSE
    BY <1>1, <2>3 DEF Writes, Terminal
  <2>4. QED
    BY <1>1, <2>1, <2>2, <2>3, Steps DEF Step
<1>2. Inv /\ [CallNext]_callVars
        => [inv.status \in Terminal =>
              inv'.status = inv.status /\ inv'.result = inv.result]_callVars
  BY <1>1
<1>3. QED
  BY <1>2, SpecInv, PTL DEF CallSpec, ResultsAreFinal

-----------------------------------------------------------------------------
(* The refinement: the call and the first result are seen, all else stutters. *)

LEMMA StepRefines ==
  ASSUME Inv, NEW c \in Callers, Step(c)
  PROVE  [AtMostOnce!Next]_(AtMostOnce!vars)
<1>1. ASSUME NEW s, Passes(c, s)
      PROVE  UNCHANGED AtMostOnce!vars
  BY <1>1 DEF Passes, AtMostOnce!vars
<1>2. ASSUME NEW s, NEW status, NEW result, Writes(c, s, status, result)
      PROVE  [AtMostOnce!Next]_(AtMostOnce!vars)
  <2>1. inv.result = "none"
    BY <1>2 DEF Inv, RowWellFormed, Writes, Terminal
  <2>2. CASE result = "none"
    BY <1>2, <2>1, <2>2 DEF Writes, AtMostOnce!vars
  <2>3. CASE result \in {"expired", "unknown"}
    <3>1. result = "expired" => calls = 0
      BY <1>2, <2>3 DEF Inv, RowWellFormed, Writes
    <3>2. AtMostOnce!Decide(result)
      BY <1>2, <2>1, <2>3, <3>1 DEF Writes, AtMostOnce!Decide
    <3>3. QED
      BY <2>3, <3>2 DEF AtMostOnce!Next, AtMostOnce!Results
  <2>4. QED
    BY <1>2, <2>2, <2>3 DEF Writes
<1>3. ASSUME NEW s, Executes(c, s)
      PROVE  [AtMostOnce!Next]_(AtMostOnce!vars)
  <2>1. CASE caller[c].pc = "record" /\ inv.status = "STARTED" /\ inv'.result = caller[c].got
             /\ calls' = calls
    <3>1. inv.result = "none" /\ caller[c].got \in Answers
      BY <2>1 DEF Inv, RowWellFormed, AnswersAreReal, Terminal
    <3>2. caller[c].got # "timeout" => calls = 1
      BY <2>1 DEF Inv, AnswersAreReal
    <3>3. AtMostOnce!Decide(caller[c].got)
      BY <2>1, <3>1, <3>2 DEF AtMostOnce!Decide, Answers
    <3>4. QED
      BY <3>1, <3>3 DEF AtMostOnce!Next, AtMostOnce!Results, Answers
  <2>2. CASE caller[c].pc = "call" /\ inv' = inv /\ calls' = calls + 1
    BY <2>2 DEF Inv, OneExecutor, Executing, ExecutorAt, AtMostOnce!Next, AtMostOnce!Call
  <2>3. CASE inv'.result = inv.result /\ calls' = calls
    BY <2>3 DEF AtMostOnce!vars
  <2>4. QED
    BY <1>3, <2>1, <2>2, <2>3 DEF Executes
<1>4. QED
  BY <1>1, <1>2, <1>3 DEF Step

(* The dispatcher, with its invocation row, its artifact, joined callers,    *)
(* recoveries and deadlines, implements a tool that is called at most once   *)
(* and has one result.                                                       *)
THEOREM SpecImplementsAtMostOnce == CallSpec => ImplementsAtMostOnce
<1>1. CallInit => AtMostOnce!Init
  BY DEF CallInit, AtMostOnce!Init
<1>2. Inv /\ [CallNext]_callVars => [AtMostOnce!Next]_(AtMostOnce!vars)
  <2>1. ASSUME Inv, TimePasses PROVE UNCHANGED AtMostOnce!vars
    BY <2>1 DEF Inv, Typed, TimePasses, AtMostOnce!vars
  <2>2. QED
    BY <2>1, Steps, StepRefines
<1>3. QED
  BY <1>1, <1>2, SpecInv, PTL DEF CallSpec, ImplementsAtMostOnce, AtMostOnce!Spec

-----------------------------------------------------------------------------
(* What the holder of the lease gets, and whose answers are recorded.       *)

\* No epoch is ahead of the run's, the executor has the epoch of the row that
\* is STARTED, and nobody else writes the artifact.
Epochs ==
  /\ inv.exec <= lease.token
  /\ inv.status \in {"absent", "PENDING"} => artifact = "none"
  /\ \A c \in Callers :
       /\ caller[c].tok <= lease.token /\ caller[c].seen.exec <= lease.token
       /\ Executing(c) /\ inv.status = "STARTED" => inv.exec = caller[c].tok
       /\ caller[c].pc \in {"call", "calling", "save"} => artifact = "none"

LEMMA InitEpochs == CallInit => Epochs
BY DEF CallInit, Epochs, Executing, ExecutorAt, Idle, Row

LEMMA NextEpochs ==
  ASSUME Inv, Epochs, [CallNext]_callVars
  PROVE  Epochs'
<1>1. /\ lease \in [token : Nat, live : BOOLEAN]
      /\ inv \in [status : Statuses, exec : Nat, late : BOOLEAN,
                  result : Results \cup {"none"}]
      /\ caller \in [Callers -> CallerState]
      /\ \A c \in Callers : /\ caller[c] \in CallerState
                            /\ caller[c].tok \in Nat /\ caller[c].seen.exec \in Nat
  BY DEF Inv, Typed, CallerState
\* The caller moves without taking up the execution, and without a newer epoch.
<1>2. ASSUME NEW c \in Callers, NEW s \in CallerState, lease' = lease,
             caller' = [caller EXCEPT ![c] = s],
             s.tok <= lease.token, s.seen.exec <= lease.token,
             artifact' = artifact, inv'.exec <= lease.token,
             \/ inv' = inv
             \/ inv'.status \in Terminal
             \/ inv.status = "absent" /\ inv'.status = "PENDING",
             s.pc \in ExecutorAt => s.tok = caller[c].tok /\ Executing(c),
             s.pc \in {"call", "calling", "save"} =>
               caller[c].pc \in {"call", "calling", "save"}
      PROVE  Epochs'
  <2>1. \A d \in Callers : caller'[d] = IF d = c THEN s ELSE caller[d]
    BY <1>1, <1>2
  <2>2. inv'.status \in {"absent", "PENDING"} => inv.status \in {"absent", "PENDING"}
    BY <1>2 DEF Terminal
  <2>3. \A d \in Callers : caller'[d].pc \in ExecutorAt /\ inv'.status = "STARTED"
                             => inv' = inv
    BY <1>2 DEF Terminal
  <2>4. QED
    BY <1>2, <2>1, <2>2, <2>3 DEF Epochs, Executing
<1>3. ASSUME NEW c \in Callers, NEW label \in Labels, GoTo(c, label),
             lease' = lease, artifact' = artifact, inv' = inv,
             label \notin ExecutorAt \/ Executing(c),
             label \in {"call", "calling", "save"} =>
               caller[c].pc \in {"call", "calling", "save"}
      PROVE  Epochs'
  <2> DEFINE s == [caller[c] EXCEPT !.pc = label]
  <2>1. s \in CallerState /\ s.pc = label /\ s.seen = caller[c].seen /\ s.tok = caller[c].tok
    BY <1>1 DEF CallerState
  <2>2. caller' = [caller EXCEPT ![c] = s]
    BY <1>3 DEF GoTo
  <2> HIDE DEF s
  <2>3. s.tok <= lease.token /\ s.seen.exec <= lease.token /\ inv'.exec <= lease.token
    BY <1>3, <2>1 DEF Epochs
  <2>4. QED
    BY <1>2, <1>3, <2>1, <2>2, <2>3
<1>4. ASSUME NEW c \in Callers, lease' = lease, artifact' = artifact, inv' = inv,
             \/ Leave(c)
             \/ caller' = [caller EXCEPT ![c] = [Idle EXCEPT !.pc = "down"]]
      PROVE  Epochs'
  <2>1. Idle \in CallerState /\ [Idle EXCEPT !.pc = "down"] \in CallerState
    BY DEF CallerState, Idle, Row, Statuses
  <2>2. PICK s \in CallerState :
          /\ s.pc \in {"idle", "down"} /\ s.tok = 0 /\ s.seen.exec = 0
          /\ caller' = [caller EXCEPT ![c] = s]
    BY <1>4, <2>1 DEF Leave, Idle, Row
  <2>3. inv'.exec <= lease.token /\ 0 <= lease.token
    BY <1>1, <1>4 DEF Epochs
  <2>4. QED
    BY <1>2, <1>4, <2>2, <2>3 DEF ExecutorAt
<1>5. ASSUME NEW c \in Callers, NEW expected, UpdateRefused(c, expected),
             lease' = lease, artifact' = artifact
      PROVE  Epochs'
  BY <1>3, <1>4, <1>5 DEF UpdateRefused, Labels, ExecutorAt
<1>6. ASSUME NEW c \in Callers, NEW evidence \in Results \cup {"none"}, Return(c, evidence),
             lease' = lease, artifact' = artifact, inv'.exec <= lease.token,
             inv' = inv \/ inv'.status \in Terminal
      PROVE  Epochs'
  <2>1. PICK s \in CallerState :
          /\ s.pc = "returned" /\ s.seen = caller[c].seen /\ s.tok = caller[c].tok
          /\ caller' = [caller EXCEPT ![c] = s]
    <3> DEFINE s == [caller[c] EXCEPT !.pc = "returned", !.got = evidence]
    <3>1. s \in CallerState /\ s.pc = "returned" /\ s.seen = caller[c].seen
          /\ s.tok = caller[c].tok
      BY <1>1 DEF CallerState
    <3>2. QED
      BY <1>6, <3>1 DEF Return
  <2>2. s.tok <= lease.token /\ s.seen.exec <= lease.token
    BY <2>1 DEF Epochs
  <2>3. QED
    BY <1>2, <1>6, <2>1, <2>2 DEF ExecutorAt
<1>7. ASSUME NEW c \in Callers, NEW label \in {"load", "create", "resolve"},
             NEW status \in Statuses, NEW exec \in 0 .. lease.token, NEW tok \in 0 .. lease.token,
             \/ caller' = [caller EXCEPT ![c].seen = Row(status, exec), ![c].pc = label]
             \/ caller' = [caller EXCEPT ![c].pc = label, ![c].tok = tok],
             lease' = lease, artifact' = artifact, inv'.exec <= lease.token,
             inv' = inv \/ (inv.status = "absent" /\ inv'.status = "PENDING")
      PROVE  Epochs'
  <2> /\ caller[c].tok <= lease.token /\ caller[c].seen.exec <= lease.token
      /\ tok <= lease.token /\ exec <= lease.token /\ tok \in Nat /\ exec \in Nat
    BY <1>1, <1>7 DEF Epochs
  <2> label \in Labels
    BY <1>7 DEF Labels
  <2>1. CASE caller' = [caller EXCEPT ![c].seen = Row(status, exec), ![c].pc = label]
    <3> DEFINE s == [caller[c] EXCEPT !.seen = Row(status, exec), !.pc = label]
    <3>1. /\ s \in CallerState /\ s.pc = label /\ s.seen.exec = exec
          /\ s.tok = caller[c].tok
      BY <1>1 DEF CallerState, Row
    <3>2. caller' = [caller EXCEPT ![c] = s]
      BY <2>1
    <3> HIDE DEF s
    <3>3. QED
      BY <1>2, <1>7, <3>1, <3>2 DEF ExecutorAt
  <2>2. CASE caller' = [caller EXCEPT ![c].pc = label, ![c].tok = tok]
    <3> DEFINE s == [caller[c] EXCEPT !.pc = label, !.tok = tok]
    <3>1. s \in CallerState /\ s.pc = label /\ s.seen = caller[c].seen /\ s.tok = tok
      BY <1>1 DEF CallerState
    <3>2. caller' = [caller EXCEPT ![c] = s]
      BY <2>2
    <3> HIDE DEF s
    <3>3. QED
      BY <1>2, <1>7, <3>1, <3>2 DEF ExecutorAt
  <2>3. QED
    BY <1>7, <2>1, <2>2
<1>8. ASSUME NEW c \in Callers, Enter(c) \/ Load(c) \/ Create(c)
      PROVE  Epochs'
  <2> /\ inv.exec \in 0 .. lease.token /\ lease.token \in 0 .. lease.token
      /\ 0 \in 0 .. lease.token /\ inv.status \in Statuses /\ inv.exec <= lease.token
    BY <1>1 DEF Epochs
  <2>1. CASE Enter(c)
    BY <1>7, <2>1 DEF Enter
  <2>2. CASE Load(c)
    BY <1>7, <2>2 DEF Load
  <2>3. CASE Create(c)
    <3>1. CASE inv' = [inv EXCEPT !.status = "PENDING"] /\ inv.status = "absent"
               /\ caller' = [caller EXCEPT ![c].seen = Row("PENDING", 0), ![c].pc = "resolve"]
      <4>1. inv'.exec <= lease.token /\ inv'.status = "PENDING"
        BY <1>1, <3>1
      <4>2. "PENDING" \in Statuses
        BY DEF Statuses
      <4>3. QED
        BY <1>7, <2>3, <3>1, <4>1, <4>2 DEF Create
    <3>2. QED
      BY <1>5, <2>3, <3>1 DEF Create
  <2>4. QED
    BY <1>8, <2>1, <2>2, <2>3
<1>9. ASSUME NEW c \in Callers,
             ResolvePending(c) \/ ResolveStarted(c) \/ ResolveTerminal(c) \/ Poll(c)
      PROVE  Epochs'
  <2>1. CASE ResolvePending(c)
    BY <1>3, <2>1 DEF ResolvePending, Labels, ExecutorAt
  <2>2. CASE ResolveStarted(c)
    <3>1. GoTo(c, "recover") \/ GoTo(c, "wait") \/ Leave(c)
      BY <2>2 DEF ResolveStarted
    <3>2. {"recover", "wait"} \subseteq Labels \ ExecutorAt
      BY DEF Labels, ExecutorAt
    <3>3. QED
      BY <1>3, <1>4, <2>2, <3>1, <3>2 DEF ResolveStarted
  <2>3. CASE ResolveTerminal(c)
    <3>1. inv.result \in Results \cup {"none"} /\ inv.exec <= lease.token
      BY <1>1 DEF Epochs
    <3>2. QED
      BY <1>6, <2>3, <3>1 DEF ResolveTerminal
  <2>4. CASE Poll(c)
    <3>1. inv.exec \in 0 .. lease.token /\ inv.status \in Statuses /\ 0 \in 0 .. lease.token
      BY <1>1 DEF Epochs
    <3>2. inv.exec <= lease.token
      BY DEF Epochs
    <3>3. QED
      BY <1>3, <1>7, <2>4, <3>1, <3>2 DEF Poll, Labels, ExecutorAt
  <2>5. QED
    BY <1>9, <2>1, <2>2, <2>3, <2>4
<1>10. ASSUME NEW c \in Callers, ExpirePending(c) \/ RecoverStarted(c) \/ Record(c)
       PROVE  Epochs'
  <2>1. ASSUME NEW expected, NEW status \in Terminal, NEW exec \in {0, inv.exec},
               NEW result \in Results \cup {"none"},
               Update(c, expected, status, exec, result), Return(c, result),
               lease' = lease, artifact' = artifact
        PROVE  Epochs'
    BY <1>1, <1>6, <2>1 DEF Update, Epochs
  <2>2. CASE ExpirePending(c)
    BY <1>5, <2>1, <2>2 DEF ExpirePending, Terminal, Results
  <2>3. CASE RecoverStarted(c)
    BY <1>5, <2>1, <2>3 DEF RecoverStarted, Terminal, Results
  <2>4. CASE Record(c)
    <3>1. caller[c].got \in Results \cup {"none"}
      BY <1>1 DEF CallerState
    <3>2. QED
      BY <1>5, <2>1, <2>4, <3>1 DEF Record, Terminal
  <2>5. QED
    BY <1>10, <2>2, <2>3, <2>4
<1>11. ASSUME NEW c \in Callers, Start(c)
       PROVE  Epochs'
  <2>1. CASE Update(c, "PENDING", "STARTED", caller[c].tok, "none") /\ GoTo(c, "call")
    <3>1. \A d \in Callers : caller'[d] = IF d = c THEN [caller[c] EXCEPT !.pc = "call"]
                                          ELSE caller[d]
      BY <1>1, <2>1 DEF GoTo
    <3>2. \A d \in Callers : ~Executing(d)
      BY <2>1 DEF Inv, OneExecutor, Update
    <3>3. inv'.exec = caller[c].tok /\ inv'.status = "STARTED" /\ inv.status = "PENDING"
      BY <1>1, <2>1 DEF Update
    <3>4. \A d \in Callers : caller'[d].pc \in ExecutorAt => d = c
      BY <3>1, <3>2 DEF Executing
    <3>5. artifact' = "none" /\ lease' = lease
      BY <1>11, <3>3 DEF Start, Epochs
    <3>6. \A d \in Callers : caller'[d].tok = caller[d].tok /\ caller'[d].seen = caller[d].seen
      BY <1>1, <3>1 DEF CallerState
    <3>7. QED
      BY <1>1, <3>3, <3>4, <3>5, <3>6 DEF Epochs, Executing
  <2>2. QED
    BY <1>5, <1>11, <2>1 DEF Start
<1>12. ASSUME NEW c \in Callers, CallRemote(c) \/ Answer(c)
       PROVE  Epochs'
  <2>1. ASSUME NEW got \in Answers, caller[c].pc \in {"call", "calling"},
               caller' = [caller EXCEPT ![c].pc = "save", ![c].got = got],
               lease' = lease, artifact' = artifact, inv' = inv
        PROVE  Epochs'
    <3> DEFINE s == [caller[c] EXCEPT !.pc = "save", !.got = got]
    <3>1. /\ s \in CallerState /\ s.pc = "save" /\ s.seen = caller[c].seen
          /\ s.tok = caller[c].tok
      BY <1>1 DEF CallerState, Labels, Results
    <3>2. caller' = [caller EXCEPT ![c] = s]
      BY <2>1
    <3> HIDE DEF s
    <3>3. s.tok <= lease.token /\ s.seen.exec <= lease.token /\ inv'.exec <= lease.token
      BY <2>1, <3>1 DEF Epochs
    <3>4. QED
      BY <1>2, <2>1, <3>1, <3>2, <3>3 DEF Executing, ExecutorAt
  <2>2. CASE CallRemote(c)
    BY <1>3, <2>1, <2>2 DEF CallRemote, Executing, ExecutorAt, Labels, Answers
  <2>3. CASE Answer(c)
    BY <1>4, <2>1, <2>3 DEF Answer
  <2>4. QED
    BY <1>12, <2>2, <2>3
<1>13. ASSUME NEW c \in Callers, SaveArtifact(c)
       PROVE  Epochs'
  <2>1. CASE artifact' = caller[c].got /\ GoTo(c, "record")
    <3>1. \A d \in Callers : caller'[d] = IF d = c THEN [caller[c] EXCEPT !.pc = "record"]
                                          ELSE caller[d]
      BY <1>1, <2>1 DEF GoTo
    <3>2. Executing(c) /\ \A d \in Callers : Executing(d) => d = c
      BY <1>13 DEF SaveArtifact, Inv, OneExecutor, Executing, ExecutorAt
    <3>3. inv.status \notin {"absent", "PENDING"}
      BY <3>2 DEF Inv, OneExecutor
    <3>4. \A d \in Callers : caller'[d].pc \in {"call", "calling", "save"} => FALSE
      BY <1>1, <3>1, <3>2 DEF Executing, ExecutorAt, CallerState
    <3>5. \A d \in Callers : /\ caller'[d].tok = caller[d].tok
                             /\ caller'[d].seen = caller[d].seen
                             /\ caller'[d].pc \in ExecutorAt => Executing(d)
      BY <1>1, <3>1, <3>2 DEF CallerState, Executing
    <3>6. inv' = inv /\ lease' = lease
      BY <1>13 DEF SaveArtifact
    <3>7. QED
      BY <3>3, <3>4, <3>5, <3>6 DEF Epochs, Executing
  <2>2. QED
    BY <1>4, <1>13, <2>1 DEF SaveArtifact
<1>14. CASE DeadlinePasses \/ EpochEnds \/ Reclaim \/ UNCHANGED callVars
  BY <1>1, <1>14 DEF DeadlinePasses, EpochEnds, Reclaim, callVars, Epochs, Executing
<1>15. ASSUME NEW c \in Callers, CallerCrash(c) \/ CallerRestart(c)
       PROVE  Epochs'
  BY <1>4, <1>15 DEF CallerCrash, CallerRestart
<1>16. QED
  BY <1>8, <1>9, <1>10, <1>11, <1>12, <1>13, <1>14, <1>15 DEF CallNext, Proceed

LEMMA SpecEpochs == CallSpec => []Epochs
BY InitEpochs, NextEpochs, SpecInv, PTL DEF CallSpec

(* An answer is recorded only while the epoch that executed holds the run:   *)
(* an executor that was reclaimed comes back to an unknown outcome.          *)
THEOREM SpecAnsweredInItsEpoch == CallSpec => AnsweredInItsEpoch
<1>1. ASSUME Inv, Epochs, [CallNext]_callVars, inv.status = "STARTED", inv'.result \in Answers
      PROVE  lease.live /\ lease.token = inv.exec
  <2>1. inv.result = "none" /\ inv'.result # inv.result
    BY <1>1 DEF Inv, RowWellFormed, Terminal, Answers
  <2>2. inv \in [status : Statuses, exec : Nat, late : BOOLEAN,
                 result : Results \cup {"none"}]
    BY <1>1 DEF Inv, Typed
  <2>3. ASSUME NEW c \in Callers,
               Enter(c) \/ Proceed(c) \/ CallerCrash(c) \/ CallerRestart(c),
               ~Record(c)
        PROVE  FALSE
    BY <1>1, <2>1, <2>2, <2>3
      DEF Enter, Proceed, CallerCrash, CallerRestart, Load, Create, ResolvePending, ResolveStarted,
          ResolveTerminal, ExpirePending, RecoverStarted, Poll, Start, CallRemote, Answer,
          SaveArtifact, Update, UpdateRefused, Answers
  <2>4. ASSUME NEW c \in Callers, Record(c)
        PROVE  lease.live /\ lease.token = inv.exec
    <3>1. HoldsLease(c)
      BY <2>1, <2>4 DEF Record, Update, UpdateRefused
    <3>2. inv.exec = caller[c].tok
      BY <1>1, <2>4 DEF Epochs, Executing, ExecutorAt, Record
    <3>3. QED
      BY <3>1, <3>2 DEF HoldsLease
  <2>5. ASSUME DeadlinePasses \/ EpochEnds \/ Reclaim \/ UNCHANGED callVars
        PROVE  FALSE
    BY <2>1, <2>2, <2>5 DEF DeadlinePasses, EpochEnds, Reclaim, callVars
  <2>6. QED
    BY <1>1, <2>3, <2>4, <2>5 DEF CallNext
<1>2. Inv /\ Epochs /\ [CallNext]_callVars
        => [inv.status = "STARTED" /\ inv'.result \in Answers =>
              lease.live /\ lease.token = inv.exec]_callVars
  BY <1>1
<1>3. QED
  BY <1>2, SpecInv, SpecEpochs, PTL DEF CallSpec, AnsweredInItsEpoch

(* A caller that holds the lease is never turned away without evidence: it   *)
(* creates, joins, recovers or executes, whatever it finds.                  *)
THEOREM SpecHolderIsServed == CallSpec => HolderIsServed
<1>1. ASSUME Inv, Epochs, [CallNext]_callVars, NEW c \in Callers,
             caller[c].pc \in Labels, caller'[c].pc = "idle"
      PROVE  ~HoldsLease(c)
  <2>1. /\ caller \in [Callers -> CallerState] /\ lease.token \in Nat
        /\ inv.exec \in Nat /\ caller[c].tok \in Nat /\ caller[c].seen.exec \in Nat
    BY <1>1 DEF Inv, Typed, CallerState
  <2>2. ASSUME NEW d \in Callers, d # c,
               Enter(d) \/ Proceed(d) \/ CallerCrash(d) \/ CallerRestart(d)
        PROVE  caller'[c] = caller[c]
    BY <2>1, <2>2
      DEF Enter, Proceed, CallerCrash, CallerRestart, Load, Create, ResolvePending, ResolveStarted,
          ResolveTerminal, ExpirePending, RecoverStarted, Poll, Start, CallRemote, Answer,
          SaveArtifact, Record, Update, UpdateRefused, GoTo, Leave, Return
  <2>3. CASE SaveArtifact(c)
    <3>1. artifact \in {"none", caller[c].got}
      BY <1>1, <2>3 DEF Epochs, SaveArtifact
    <3>2. caller[c].pc = "save" /\ (GoTo(c, "record") \/ ~HoldsLease(c))
      BY <2>3, <3>1 DEF SaveArtifact
    <3>3. QED
      BY <1>1, <2>1, <3>2 DEF GoTo, CallerState
  <2>4. CASE ResolveStarted(c)
    <3>1. HoldsLease(c) => ~(caller[c].tok < caller[c].seen.exec)
      BY <1>1, <2>1 DEF HoldsLease, Epochs
    <3>2. \/ GoTo(c, "recover") \/ GoTo(c, "wait") \/ ~HoldsLease(c)
      BY <2>4, <3>1 DEF ResolveStarted
    <3>3. QED
      BY <1>1, <2>1, <3>2 DEF GoTo, CallerState
  <2>5. CASE \/ Enter(c) \/ CallerCrash(c) \/ CallerRestart(c) \/ Load(c) \/ ResolvePending(c)
             \/ ResolveTerminal(c) \/ Poll(c) \/ CallRemote(c)
    BY <1>1, <2>1, <2>5
      DEF Enter, CallerCrash, CallerRestart, Load, ResolvePending, ResolveTerminal, Poll, CallRemote,
          GoTo, Leave, Return, Idle, Labels, CallerState
  <2>6. CASE \/ Create(c) \/ ExpirePending(c) \/ RecoverStarted(c) \/ Start(c)
             \/ Answer(c) \/ Record(c)
    BY <1>1, <2>1, <2>6
      DEF Create, ExpirePending, RecoverStarted, Start, Answer, Record, UpdateRefused,
          GoTo, Return, CallerState
  <2>7. CASE DeadlinePasses \/ EpochEnds \/ Reclaim \/ UNCHANGED callVars
    BY <1>1, <2>7 DEF DeadlinePasses, EpochEnds, Reclaim, callVars, Labels
  <2>8. QED
    <3>1. ASSUME NEW d \in Callers, Enter(d) \/ Proceed(d) \/ CallerCrash(d) \/ CallerRestart(d)
          PROVE  ~HoldsLease(c)
      <4>1. CASE d # c
        BY <1>1, <2>2, <3>1, <4>1 DEF Labels
      <4>2. CASE d = c
        BY <2>3, <2>4, <2>5, <2>6, <3>1, <4>2 DEF Proceed
      <4>3. QED
        BY <4>1, <4>2
    <3>2. QED
      BY <1>1, <2>7, <3>1 DEF CallNext
<1>2. Inv /\ Epochs /\ [CallNext]_callVars
        => [\A c \in Callers :
              caller[c].pc \in Labels /\ caller'[c].pc = "idle" => ~HoldsLease(c)]_callVars
  BY <1>1
<1>3. QED
  BY <1>2, SpecInv, SpecEpochs, PTL DEF CallSpec, HolderIsServed

EpochBounded == lease.token \in 1 .. MaxEpoch

LEMMA BoundedStays ==
  ASSUME Inv, MaxEpoch \in Nat, EpochBounded, [CallNext]_callVars
  PROVE  EpochBounded'
<1>1. CASE Reclaim
  BY <1>1 DEF Reclaim, EpochBounded
<1>2. CASE UNCHANGED lease.token
  BY <1>2 DEF EpochBounded
<1>3. Reclaim \/ UNCHANGED lease.token
  <2>1. CASE EpochEnds
    BY <2>1 DEF EpochEnds, Inv, Typed
  <2>2. ASSUME NEW c \in Callers, Enter(c) \/ Proceed(c) \/ CallerCrash(c) \/ CallerRestart(c)
        PROVE  UNCHANGED lease
    BY <2>2 DEF Enter, Proceed, CallerCrash, CallerRestart, Load, Create, ResolvePending,
       ResolveStarted, ResolveTerminal, ExpirePending, RecoverStarted, Poll, Start, CallRemote,
       Answer, SaveArtifact, Record
  <2> QED BY <2>1, <2>2 DEF CallNext, DeadlinePasses, callVars
<1> QED BY <1>1, <1>2, <1>3

(* The rows and callers of a dispatch have their types: no fencing token is
   ahead of the epochs of the lease.                                        *)
THEOREM SpecCallTypeOK ==
  ASSUME MaxEpoch \in Nat \ {0}
  PROVE  CallSpec => []CallTypeOK
<1>1. CallInit => EpochBounded
  BY DEF CallInit, EpochBounded
<1>2. Inv /\ EpochBounded /\ [CallNext]_callVars => EpochBounded'
  BY BoundedStays
<1>3. Inv /\ Epochs /\ EpochBounded => CallTypeOK
  <2> SUFFICES ASSUME Inv, Epochs, EpochBounded PROVE CallTypeOK
    OBVIOUS
  <2>1. Typed /\ \A c \in Callers : caller[c] \in CallerState
    BY DEF Inv, Typed
  <2>2. lease \in [token : 1 .. MaxEpoch, live : BOOLEAN]
    BY <2>1 DEF Typed, EpochBounded
  <2>3. inv \in [status : Statuses, exec : 0 .. MaxEpoch, late : BOOLEAN,
                 result : Results \cup {"none"}]
    BY <2>1 DEF Typed, EpochBounded, Epochs
  <2>4. ASSUME NEW c \in Callers
        PROVE  caller[c] \in [pc : Labels \cup {"idle", "down", "returned"}, tok : 0 .. MaxEpoch,
                              seen : [status : Statuses, exec : 0 .. MaxEpoch],
                              got : Results \cup {"none"}]
    <3>1. /\ caller[c].tok \in Nat /\ caller[c].tok <= lease.token
          /\ caller[c].seen.exec \in Nat /\ caller[c].seen.exec <= lease.token
      BY <2>1 DEF CallerState, Epochs
    <3>2. caller[c].tok \in 0 .. MaxEpoch /\ caller[c].seen.exec \in 0 .. MaxEpoch
      BY <3>1 DEF EpochBounded
    <3> QED BY <2>1, <3>2 DEF CallerState
  <2>5. caller \in [Callers -> [pc : Labels \cup {"idle", "down", "returned"}, tok : 0 .. MaxEpoch,
                                seen : [status : Statuses, exec : 0 .. MaxEpoch],
                                got : Results \cup {"none"}]]
    BY <2>1, <2>4 DEF Typed
  <2> QED BY <2>1, <2>2, <2>3, <2>5 DEF CallTypeOK, Typed
<1> QED BY <1>1, <1>2, <1>3, SpecInv, SpecEpochs, PTL DEF CallSpec

-----------------------------------------------------------------------------
(* DispatchQueue.                                                           *)

QueueTyped ==
  /\ alerts \in [AlertIds -> [status : {"absent", "QUEUED", "ANALYZING", "SETTLED"},
                              owner : Workers \cup {Nobody, Api},
                              lease : {"none", "live", "expired"}]]
  /\ gate \in {"ENABLED", "PAUSED"}
  /\ stream \in [Slots -> [alert : 0 .. MaxAlert, state : {"free", "new", "pending"}]]
  /\ worker \in [Workers ->
       [pc : {"idle", "begin", "claim", "run", "ack", "dead", "down"},
        msg : 0 .. MaxMessages, alert : 0 .. MaxAlert, tries : Nat]]
  /\ api \in [up : BOOLEAN, check : SUBSET AlertIds, add : SUBSET AlertIds,
              resume : [pc : {"idle", "list", "republish"}, page : Nat,
                        found : SUBSET AlertIds]]

(* A worker that handles a message knows its alert. *)
Linked ==
  /\ \A s \in Slots : stream[s].alert = 0 <=> stream[s].state = "free"
  /\ \A w \in Workers :
       /\ worker[w].pc \in {"idle", "down"} => worker[w].msg = 0
       /\ worker[w].pc \notin {"idle", "down"} =>
            /\ worker[w].msg \in Slots
            /\ stream[worker[w].msg].alert \in {0, worker[w].alert}

Kept(a) ==
  \E s \in Slots :
    /\ stream[s].alert = a
    /\ \A w \in Workers : worker[w].msg = s => worker[w].pc # "ack"

Tracked ==
  gate = "ENABLED" =>
    \A a \in Having({"QUEUED"}) :
      Kept(a) \/ InHand(a) \/ a \in reported \cup overtaken

QInv == QueueTyped /\ Linked /\ Tracked

(* No run has claimed an alert that waits. *)
Unclaimed ==
  \A a \in AlertIds : alerts[a].status \in {"absent", "QUEUED"} => alerts[a].lease = "none"

-----------------------------------------------------------------------------
LEMMA QueueInitInv ==
  ASSUME MaxAlert \in Nat, MaxMessages \in Nat, QueueInit
  PROVE  QInv
<1>1. QueueTyped
  BY DEF QueueInit, QueueTyped, ApiAt, NoResume, Free, IdleWorker, Slots
<1>2. Linked
  BY DEF QueueInit, Linked, Free, IdleWorker
<1>3. Having({"QUEUED"}) = {}
  BY DEF QueueInit, Having
<1>4. QED
  BY <1>1, <1>2, <1>3 DEF QInv, Tracked

-----------------------------------------------------------------------------
(* The places in the listing of a resume. *)
LEMMA RankType ==
  ASSUME MaxAlert \in Nat, NEW a
  PROVE  /\ IsFiniteSet(Having({"QUEUED"})) /\ Cardinality(Having({"QUEUED"})) \in Nat
         /\ IsFiniteSet({b \in Having({"QUEUED"}) : b > a}) /\ Rank(a) \in Nat
<1>1. IsFiniteSet(AlertIds)
  BY FS_Interval DEF AlertIds
<1>2. Having({"QUEUED"}) \subseteq AlertIds
  BY DEF Having
<1>3. IsFiniteSet(Having({"QUEUED"}))
  BY <1>1, <1>2, FS_Subset
<1>4. IsFiniteSet({b \in Having({"QUEUED"}) : b > a})
  BY <1>3, FS_Subset
<1>5. QED
  BY <1>3, <1>4, FS_CardinalityType DEF Rank

LEMMA SamePlaces ==
  ASSUME UNCHANGED alerts, NEW a
  PROVE  /\ Having({"QUEUED"})' = Having({"QUEUED"}) /\ Rank(a)' = Rank(a)
         /\ UNCHANGED api => (InHand(a)' <=> InHand(a))
<1>1. Having({"QUEUED"})' = Having({"QUEUED"})
  BY DEF Having
<1>2. {b \in Having({"QUEUED"})' : b > a} = {b \in Having({"QUEUED"}) : b > a}
  BY <1>1
<1>3. Rank(a)' = Rank(a)
  BY <1>2 DEF Rank
<1>4. QED
  BY <1>1, <1>3 DEF InHand, Before

LEMMA BeforeType ==
  ASSUME PageSize \in Nat, NEW p \in Nat
  PROVE  Before(p) \in Int /\ Before(1) = 0
BY DEF Before

LEMMA RankPrimed ==
  ASSUME MaxAlert \in Nat, NEW a
  PROVE  Rank(a)' \in Nat
<1>1. IsFiniteSet(AlertIds) /\ {b \in Having({"QUEUED"})' : b > a} \subseteq AlertIds
  BY FS_Interval DEF AlertIds, Having
<1>2. QED
  BY <1>1, FS_Subset, FS_CardinalityType DEF Rank

(* The places are counted from the newest alert on. *)
LEMMA RankBound ==
  ASSUME MaxAlert \in Nat, NEW a \in Having({"QUEUED"})
  PROVE  Rank(a) < Cardinality(Having({"QUEUED"}))
<1> DEFINE Q == Having({"QUEUED"})
           Newer == {b \in Q : b > a}
<1>1. IsFiniteSet(Q) /\ Cardinality(Q) \in Nat
  BY RankType
<1>2. a \in Nat
  BY DEF Having, AlertIds
<1>3. Newer \subseteq Q \ {a}
  BY <1>2
<1>4. IsFiniteSet(Q \ {a}) /\ Cardinality(Q \ {a}) = Cardinality(Q) - 1
  BY <1>1, FS_RemoveElement
<1>5. Cardinality(Newer) <= Cardinality(Q \ {a}) /\ Cardinality(Newer) \in Nat
  BY <1>3, <1>4, FS_Subset, FS_CardinalityType
<1>6. Rank(a) = Cardinality(Newer)
  BY DEF Rank
<1> HIDE DEF Q, Newer
<1>7. Rank(a) < Cardinality(Q)
  BY <1>1, <1>4, <1>5, <1>6
<1>8. QED
  BY <1>7 DEF Q

(* An alert that arrives moves none up ... *)
LEMMA RankGrows ==
  ASSUME MaxAlert \in Nat, Having({"QUEUED"}) \subseteq Having({"QUEUED"})', NEW a
  PROVE  Rank(a) <= Rank(a)'
<1>1. IsFiniteSet(AlertIds) /\ Having({"QUEUED"})' \subseteq AlertIds
  BY FS_Interval DEF AlertIds, Having
<1>2. {b \in Having({"QUEUED"})' : b > a} \subseteq AlertIds
  BY <1>1
<1>3. IsFiniteSet({b \in Having({"QUEUED"})' : b > a})
  BY <1>1, <1>2, FS_Subset
<1>4. {b \in Having({"QUEUED"}) : b > a} \subseteq {b \in Having({"QUEUED"})' : b > a}
  OBVIOUS
<1>5. QED
  BY <1>3, <1>4, FS_Subset DEF Rank

(* ... and one that leaves moves the older ones up by one place. *)
LEMMA RankFalls ==
  ASSUME MaxAlert \in Nat, NEW c \in Having({"QUEUED"}),
         Having({"QUEUED"})' = Having({"QUEUED"}) \ {c}, NEW a \in AlertIds
  PROVE  Rank(a)' = IF a < c THEN Rank(a) - 1 ELSE Rank(a)
<1> DEFINE Newer == {b \in Having({"QUEUED"}) : b > a}
           Left == {b \in Having({"QUEUED"}) \ {c} : b > a}
<1>1. IsFiniteSet(Newer) /\ a \in Nat /\ c \in Nat
  <2>1. IsFiniteSet(Newer)
    BY RankType
  <2>2. QED
    BY <2>1 DEF Having, AlertIds
<1>2. Rank(a) = Cardinality(Newer) /\ Rank(a)' = Cardinality(Left)
  BY DEF Rank
<1>3. CASE a < c
  <2>1. c \in Newer /\ Left = Newer \ {c}
    BY <1>1, <1>3
  <2> HIDE DEF Newer, Left
  <2>2. QED
    BY <1>1, <1>2, <1>3, <2>1, FS_RemoveElement
<1>4. CASE ~(a < c)
  <2>1. Left = Newer
    BY <1>1, <1>4
  <2>2. QED
    BY <1>2, <1>4, <2>1
<1>5. QED
  BY <1>3, <1>4

(* At most one alert ceases to be queued; if a listing is between two pages
   then, the alert that slips past it is on record.                         *)
Departure ==
  /\ overtaken \subseteq overtaken'
  /\ \/ Having({"QUEUED"})' = Having({"QUEUED"})
     \/ \E c \in Having({"QUEUED"}) :
          /\ Having({"QUEUED"})' = Having({"QUEUED"}) \ {c}
          /\ Slipping(c) \subseteq overtaken'

LEMMA HandKept ==
  ASSUME QueueTyped, MaxAlert \in Nat, PageSize \in Nat, UNCHANGED api,
         Departure \/ Having({"QUEUED"}) \subseteq Having({"QUEUED"})',
         NEW a \in Having({"QUEUED"}), a \in Having({"QUEUED"})', InHand(a)
  PROVE  InHand(a)' \/ a \in overtaken'
<1> DEFINE p == api.resume.page
<1>1. SUFFICES ASSUME api.resume.pc = "list", Before(p) <= Rank(a), a \notin api.resume.found
               PROVE  Before(p) <= Rank(a)' \/ a \in overtaken'
  BY DEF InHand, Before
<1>2. /\ p \in Nat /\ Before(p) \in Int /\ Rank(a) \in Nat /\ a \in AlertIds
      /\ Rank(a)' \in Nat
  <2>1. p \in Nat
    BY DEF QueueTyped
  <2>2. QED
    BY <2>1, BeforeType, RankType, RankPrimed DEF Having
<1>3. CASE Having({"QUEUED"}) \subseteq Having({"QUEUED"})'
  <2>1. Rank(a) <= Rank(a)'
    BY <1>3, RankGrows
  <2> HIDE DEF p
  <2>2. QED
    BY <1>1, <1>2, <2>1
<1>4. ASSUME NEW c \in Having({"QUEUED"}),
             Having({"QUEUED"})' = Having({"QUEUED"}) \ {c}, Slipping(c) \subseteq overtaken'
      PROVE  Before(p) <= Rank(a)' \/ a \in overtaken'
  <2>1. Rank(a)' = IF a < c THEN Rank(a) - 1 ELSE Rank(a)
    BY <1>2, <1>4, RankFalls
  <2>2. a < c /\ Rank(a) = Before(p) => a \in Slipping(c)
    BY <1>1 DEF Slipping
  <2> HIDE DEF p
  <2>3. QED
    BY <1>1, <1>2, <1>4, <2>1, <2>2
<1>5. QED
  BY <1>3, <1>4 DEF Departure

-----------------------------------------------------------------------------
(* The stream, the hand-overs of the API and the reports stay as they are, no
   alert is queued anew and the gate is not resumed; one worker may move,
   but to the acknowledgement only if the alert is not queued any more or the
   gate is paused.                                                       *)
Quiet ==
  /\ UNCHANGED <<stream, api, reported>> /\ Departure
  /\ gate' = "ENABLED" => gate = "ENABLED"

Handles(w, pc) ==
  /\ worker[w].pc \notin {"idle", "down"} /\ pc \notin {"idle", "down"}
  /\ \E tries \in Nat :
       worker' = [worker EXCEPT ![w] = [worker[w] EXCEPT !.pc = pc, !.tries = tries]]
  /\ pc = "ack" /\ gate' = "ENABLED" /\ worker[w].alert \in AlertIds
       => alerts'[worker[w].alert].status # "QUEUED"

Drops(w, pc) ==
  /\ pc \in {"idle", "down"}
  /\ worker' = [worker EXCEPT ![w] = [IdleWorker EXCEPT !.pc = pc]]

LEMMA QuietInv ==
  ASSUME QInv, QueueTyped', Quiet, MaxAlert \in Nat, PageSize \in Nat,
         \/ UNCHANGED worker
         \/ \E w \in Workers, pc \in {"begin", "claim", "run", "ack", "dead"} : Handles(w, pc)
         \/ \E w \in Workers, pc \in {"idle", "down"} : Drops(w, pc)
  PROVE  QInv'
<1>1. /\ QueueTyped /\ UNCHANGED <<stream, api, reported>> /\ overtaken \subseteq overtaken'
      /\ \A a \in Having({"QUEUED"})' :
           a \in Having({"QUEUED"}) /\ (InHand(a) => InHand(a)' \/ a \in overtaken')
  <2>1. /\ QueueTyped /\ UNCHANGED <<stream, api, reported>> /\ Departure
        /\ overtaken \subseteq overtaken'
        /\ Having({"QUEUED"})' \subseteq Having({"QUEUED"})
    BY DEF QInv, Quiet, Departure
  <2>2. QED
    BY <2>1, HandKept
<1>2. ASSUME \A v \in Workers : worker'[v].msg # 0 =>
               /\ worker'[v].msg = worker[v].msg
               /\ gate' = "ENABLED" /\ worker'[v].pc = "ack" =>
                    \/ worker[v].pc = "ack"
                    \/ /\ stream[worker[v].msg].alert # 0
                       => stream[worker[v].msg].alert \notin Having({"QUEUED"})'
      PROVE  Tracked'
  <2> SUFFICES ASSUME gate' = "ENABLED", NEW a \in Having({"QUEUED"})'
               PROVE  Kept(a)' \/ InHand(a) \/ a \in reported \cup overtaken
    BY <1>1 DEF Tracked
  <2>1. Kept(a) \/ InHand(a) \/ a \in reported \cup overtaken
    BY <1>1 DEF QInv, Quiet, Tracked
  <2>2. ASSUME NEW s \in Slots, stream[s].alert = a,
               \A w \in Workers : worker[w].msg = s => worker[w].pc # "ack"
        PROVE  Kept(a)'
    <3>1. a # 0 /\ s # 0
      BY DEF Having, AlertIds, Slots
    <3>2. \A w \in Workers : worker'[w].msg = s => worker'[w].pc # "ack"
      BY <1>2, <2>2, <3>1
    <3>3. QED
      BY <1>1, <2>2, <3>2 DEF Kept
  <2>3. QED
    BY <2>1, <2>2 DEF Kept
<1>3. CASE UNCHANGED worker
  <2>1. Linked'
    BY <1>1, <1>3 DEF QInv, Linked
  <2>2. Tracked'
    BY <1>2, <1>3
  <2>3. QED
    BY <1>1, <2>1, <2>2 DEF QInv
<1>4. ASSUME NEW w \in Workers, NEW pc \in {"begin", "claim", "run", "ack", "dead"},
             Handles(w, pc)
      PROVE  QInv'
  <2>1. /\ worker'[w].pc = pc /\ worker'[w].msg = worker[w].msg
        /\ worker'[w].alert = worker[w].alert
        /\ \A v \in Workers : v # w => worker'[v] = worker[v]
        /\ worker[w].pc \notin {"idle", "down"}
    <3>1. PICK tries \in Nat :
            worker' = [worker EXCEPT ![w] = [worker[w] EXCEPT !.pc = pc, !.tries = tries]]
      BY <1>4 DEF Handles
    <3> DEFINE r == [worker[w] EXCEPT !.pc = pc, !.tries = tries]
    <3>2. r.pc = pc /\ r.msg = worker[w].msg /\ r.alert = worker[w].alert
      BY <1>1 DEF QueueTyped
    <3>3. worker' = [worker EXCEPT ![w] = r]
      BY <3>1
    <3> HIDE DEF r
    <3>4. QED
      BY <1>1, <1>4, <3>2, <3>3 DEF Handles, QueueTyped
  <2>2. Linked'
    BY <1>1, <2>1 DEF QInv, Linked
  <2>3. ASSUME gate' = "ENABLED", pc = "ack", stream[worker[w].msg].alert # 0
        PROVE  stream[worker[w].msg].alert \notin Having({"QUEUED"})'
    <3>1. worker[w].alert = stream[worker[w].msg].alert
      BY <2>1, <2>3 DEF QInv, Linked
    <3>2. worker[w].alert \in AlertIds
            => alerts'[worker[w].alert].status # "QUEUED"
      BY <1>4, <2>3 DEF Handles, Quiet
    <3>3. QED
      BY <3>1, <3>2 DEF Having
  <2>4. Tracked'
    BY <1>2, <2>1, <2>3
  <2>5. QED
    BY <1>1, <2>2, <2>4 DEF QInv
<1>5. ASSUME NEW w \in Workers, NEW pc \in {"idle", "down"}, Drops(w, pc)
      PROVE  QInv'
  <2>1. /\ worker'[w].pc = pc /\ worker'[w].msg = 0
        /\ \A v \in Workers : v # w => worker'[v] = worker[v]
    BY <1>1, <1>5 DEF Drops, QueueTyped, IdleWorker
  <2>2. Linked'
    BY <1>1, <2>1 DEF QInv, Linked
  <2>3. Tracked'
    BY <1>2, <2>1
  <2>4. QED
    BY <1>1, <2>2, <2>3 DEF QInv
<1>6. QED
  BY <1>3, <1>4, <1>5

(* The steps of the API process, which moves alerts from hand to hand: what
   it has not in hand or reported afterwards, it had not before.             *)
LEMMA HandInv ==
  ASSUME QInv, QueueTyped', UNCHANGED <<stream, worker>>,
         gate' = "ENABLED" =>
           \A a \in Having({"QUEUED"})' :
             \/ InHand(a)' \/ a \in reported' \cup overtaken'
             \/ /\ gate = "ENABLED" /\ a \in Having({"QUEUED"})
                /\ ~InHand(a) /\ a \notin reported \cup overtaken
  PROVE  QInv'
<1>1. \A a : Kept(a)' <=> Kept(a)
  BY DEF Kept
<1>2. Tracked'
  BY <1>1 DEF QInv, Tracked
<1>3. Linked'
  BY DEF QInv, Linked
<1>4. QED
  BY <1>2, <1>3 DEF QInv

-----------------------------------------------------------------------------
(* A record that a step writes into the function of alerts. *)
LEMMA AlertSet ==
  ASSUME QueueTyped, NEW a \in AlertIds, NEW status \in {"QUEUED", "ANALYZING", "SETTLED"},
         NEW owner \in Workers \cup {Nobody, Api}, NEW held \in {"none", "live", "expired"},
         alerts' = [alerts EXCEPT ![a] = [status |-> status, owner |-> owner, lease |-> held]]
  PROVE  /\ alerts' \in [AlertIds -> [status : {"absent", "QUEUED", "ANALYZING", "SETTLED"},
                                      owner : Workers \cup {Nobody, Api},
                                      lease : {"none", "live", "expired"}]]
         /\ alerts'[a].status = status
         /\ \A b \in AlertIds : b # a => alerts'[b] = alerts[b]
BY DEF QueueTyped

(* The alerts lose an owner or a lease, nothing else. *)
SameStatus ==
  /\ alerts' \in [AlertIds -> [status : {"absent", "QUEUED", "ANALYZING", "SETTLED"},
                               owner : Workers \cup {Nobody, Api},
                               lease : {"none", "live", "expired"}]]
  /\ \A a \in AlertIds : alerts'[a].status = alerts[a].status

LEMMA NoneLeaves ==
  ASSUME SameStatus, UNCHANGED overtaken
  PROVE  Departure
BY DEF SameStatus, Departure, Having

(* A run takes or settles one alert, which was queued at most until then. *)
LEMMA OneLeaves ==
  ASSUME QueueTyped, NEW a \in AlertIds, alerts'[a].status \in {"ANALYZING", "SETTLED"},
         \A b \in AlertIds : b # a => alerts'[b] = alerts[b],
         overtaken \subseteq overtaken',
         alerts[a].status = "QUEUED" => Slipping(a) \subseteq overtaken'
  PROVE  Departure
<1>1. CASE alerts[a].status = "QUEUED"
  <2>1. a \in Having({"QUEUED"}) /\ Having({"QUEUED"})' = Having({"QUEUED"}) \ {a}
    BY <1>1 DEF Having
  <2>2. QED
    BY <1>1, <2>1 DEF Departure
<1>2. CASE alerts[a].status # "QUEUED"
  <2>1. Having({"QUEUED"})' = Having({"QUEUED"})
    BY <1>2 DEF Having
  <2>2. QED
    BY <2>1 DEF Departure
<1>3. QED
  BY <1>1, <1>2

LEMMA Disowned ==
  ASSUME QueueTyped, NEW lost \in SUBSET AlertIds,
         alerts' = [a \in AlertIds |-> IF a \in lost THEN [alerts[a] EXCEPT !.owner = Nobody]
                                      ELSE alerts[a]]
  PROVE  SameStatus
<1> SUFFICES ASSUME NEW a \in AlertIds
             PROVE  /\ [alerts[a] EXCEPT !.owner = Nobody] \in
                         [status : {"absent", "QUEUED", "ANALYZING", "SETTLED"},
                          owner : Workers \cup {Nobody, Api},
                          lease : {"none", "live", "expired"}]
                    /\ [alerts[a] EXCEPT !.owner = Nobody].status = alerts[a].status
  BY DEF SameStatus, QueueTyped
<1>1. alerts[a] \in [status : {"absent", "QUEUED", "ANALYZING", "SETTLED"},
                    owner : Workers \cup {Nobody, Api},
                    lease : {"none", "live", "expired"}]
  BY DEF QueueTyped
<1>2. QED
  BY <1>1

LEMMA Expires ==
  ASSUME QueueTyped, NEW a \in AlertIds, alerts' = [alerts EXCEPT ![a].lease = "expired"]
  PROVE  SameStatus
<1> DEFINE r == [alerts[a] EXCEPT !.lease = "expired"]
<1>1. /\ r \in [status : {"absent", "QUEUED", "ANALYZING", "SETTLED"},
                owner : Workers \cup {Nobody, Api}, lease : {"none", "live", "expired"}]
      /\ r.status = alerts[a].status
  BY DEF QueueTyped
<1>2. alerts' = [alerts EXCEPT ![a] = r]
  BY DEF QueueTyped
<1> HIDE DEF r
<1>3. QED
  BY <1>1, <1>2 DEF SameStatus, QueueTyped

LEMMA WorkerDropped ==
  ASSUME QueueTyped, MaxAlert \in Nat, MaxMessages \in Nat, NEW w \in Workers,
         NEW pc \in {"idle", "down"},
         worker' = [worker EXCEPT ![w] = [IdleWorker EXCEPT !.pc = pc]]
  PROVE  worker' \in [Workers ->
           [pc : {"idle", "begin", "claim", "run", "ack", "dead", "down"},
            msg : 0 .. MaxMessages, alert : 0 .. MaxAlert, tries : Nat]]
BY DEF QueueTyped, IdleWorker

-----------------------------------------------------------------------------
(* The steps of a worker up to its acknowledgement, in steps that keep the
   gate or pause it.                                                    *)
LEMMA HandleInv ==
  ASSUME QInv, Unclaimed, MaxAlert \in Nat, MaxMessages \in Nat, PageSize \in Nat,
         NEW w \in Workers,
         \/ Begin(w) \/ ClaimNothing(w) \/ ClaimRun(w) \/ FailExpired(w)
         \/ Finish(w) \/ LoseLease(w) \/ InfraError(w) \/ WorkerCrash(w) \/ WorkerRestart(w)
  PROVE  QInv'
<1> DEFINE a == worker[w].alert
<1>1. QueueTyped /\ UNCHANGED <<stream, api, reported>> /\ worker[w].tries \in Nat
  BY DEF QInv, QueueTyped, Begin, ClaimNothing, ClaimRun, FailExpired, Finish, LoseLease, InfraError,
         WorkerCrash, WorkerRestart
<1>2. ASSUME NEW pc \in {"begin", "claim", "run", "ack", "dead"}, NEW tries \in Nat,
             worker[w].pc \in {"begin", "claim", "run"},
             \/ worker' = [worker EXCEPT ![w].pc = pc] /\ tries = worker[w].tries
             \/ worker' = [worker EXCEPT ![w].pc = pc, ![w].tries = tries],
             alerts' \in [AlertIds -> [status : {"absent", "QUEUED", "ANALYZING", "SETTLED"},
                                       owner : Workers \cup {Nobody, Api},
                                       lease : {"none", "live", "expired"}]],
             Departure, gate' \in {gate, "PAUSED"},
             pc = "ack" /\ gate' = "ENABLED" /\ a \in AlertIds
               => alerts'[a].status # "QUEUED"
      PROVE  QInv'
  <2> DEFINE r == [worker[w] EXCEPT !.pc = pc, !.tries = tries]
  <2>1. /\ worker' = [worker EXCEPT ![w] = r]
        /\ worker' \in [Workers ->
              [pc : {"idle", "begin", "claim", "run", "ack", "dead", "down"},
               msg : 0 .. MaxMessages, alert : 0 .. MaxAlert, tries : Nat]]
    <3>1. worker[w] \in [pc : {"idle", "begin", "claim", "run", "ack", "dead", "down"},
                         msg : 0 .. MaxMessages, alert : 0 .. MaxAlert, tries : Nat]
      BY <1>1 DEF QueueTyped
    <3>2. r \in [pc : {"idle", "begin", "claim", "run", "ack", "dead", "down"},
                 msg : 0 .. MaxMessages, alert : 0 .. MaxAlert, tries : Nat]
      BY <3>1
    <3>3. CASE worker' = [worker EXCEPT ![w].pc = pc] /\ tries = worker[w].tries
      <4>1. [worker[w] EXCEPT !.pc = pc] = r
        BY <3>1, <3>3
      <4> HIDE DEF r
      <4>2. QED
        BY <1>1, <3>2, <3>3, <4>1 DEF QueueTyped
    <3>4. CASE worker' = [worker EXCEPT ![w].pc = pc, ![w].tries = tries]
      <4>1. worker' = [worker EXCEPT ![w] = r]
        BY <1>1, <3>4 DEF QueueTyped
      <4> HIDE DEF r
      <4>2. QED
        BY <1>1, <3>2, <4>1 DEF QueueTyped
    <3>5. QED
      BY <1>2, <3>3, <3>4
  <2>2. QueueTyped'
    BY <1>1, <1>2, <2>1 DEF QueueTyped
  <2>3. Quiet
    BY <1>1, <1>2 DEF Quiet
  <2>4. Handles(w, pc)
    BY <1>2, <2>1 DEF Handles
  <2>5. QED
    BY <2>2, <2>3, <2>4, QuietInv
<1>3. ASSUME NEW pc \in {"idle", "down"}, SameStatus, UNCHANGED <<gate, overtaken>>,
             worker' = [worker EXCEPT ![w] = [IdleWorker EXCEPT !.pc = pc]]
      PROVE  QInv'
  <2>1. QueueTyped'
    BY <1>1, <1>3, WorkerDropped DEF QueueTyped, SameStatus
  <2>2. Quiet /\ Drops(w, pc)
    BY <1>1, <1>3, NoneLeaves DEF Quiet, Drops
  <2>3. QED
    BY <2>1, <2>2, QuietInv
<1>4. ASSUME NextTry(w), SameStatus, UNCHANGED <<gate, overtaken>>,
             worker[w].pc \in {"begin", "claim", "run"}
      PROVE  QInv'
  <2>1. CASE worker[w].tries < MaxTries
    <3>1. worker[w].tries + 1 \in Nat
      BY <1>1
    <3>2. worker' = [worker EXCEPT ![w].pc = "begin", ![w].tries = worker[w].tries + 1]
      BY <1>1, <1>4, <2>1 DEF NextTry, QueueTyped
    <3>3. QED
      BY <1>2, <1>4, <3>1, <3>2, NoneLeaves DEF SameStatus
  <2>2. CASE ~(worker[w].tries < MaxTries)
    BY <1>1, <1>2, <1>4, <2>2, NoneLeaves DEF NextTry, Proceeds, SameStatus
  <2>3. QED
    BY <2>1, <2>2
<1>5. UNCHANGED alerts => SameStatus
  BY <1>1 DEF SameStatus, QueueTyped
<1>6. CASE Begin(w)
  <2>1. PICK pc \in {"ack", "claim"} :
          /\ worker' = [worker EXCEPT ![w].pc = pc]
          /\ pc = "ack" => alerts[a].status = "SETTLED" \/ gate = "PAUSED"
    BY <1>6 DEF Begin, Proceeds
  <2>2. worker[w].pc = "begin" /\ UNCHANGED <<alerts, gate, overtaken>>
    BY <1>6 DEF Begin
  <2> HIDE DEF a
  <2>3. QED
    BY <1>1, <1>2, <1>5, <2>1, <2>2, NoneLeaves DEF SameStatus
<1>7. CASE ClaimNothing(w)
  <2>1. worker[w].pc = "claim" /\ UNCHANGED <<alerts, gate, overtaken>>
    BY <1>7 DEF ClaimNothing
  <2>2. CASE alerts[a].status = "SETTLED" /\ worker' = [worker EXCEPT ![w].pc = "ack"]
    <3> HIDE DEF a
    <3>1. QED
      BY <1>1, <1>2, <1>5, <2>1, <2>2, NoneLeaves DEF SameStatus
  <2>3. CASE worker' = [worker EXCEPT ![w] = IdleWorker]
    <3>1. IdleWorker = [IdleWorker EXCEPT !.pc = "idle"]
      BY DEF IdleWorker
    <3>2. QED
      BY <1>3, <1>5, <2>1, <2>3, <3>1
  <2>4. QED
    BY <1>7, <2>2, <2>3 DEF ClaimNothing, Proceeds
<1>8. CASE ClaimRun(w)
  <2>1. /\ worker[w].pc = "claim" /\ alerts[a].status \in {"QUEUED", "ANALYZING"}
        /\ alerts' = [alerts EXCEPT ![a] = [status |-> "ANALYZING", owner |-> w, lease |-> "live"]]
        /\ worker' = [worker EXCEPT ![w].pc = "run"] /\ UNCHANGED gate
        /\ overtaken' = overtaken \cup Slipping(a)
    BY <1>8 DEF ClaimRun, Proceeds
  <2>2. a \in AlertIds => 
        /\ alerts' \in [AlertIds -> [status : {"absent", "QUEUED", "ANALYZING", "SETTLED"},
                                     owner : Workers \cup {Nobody, Api},
                                     lease : {"none", "live", "expired"}]]
        /\ alerts'[a].status = "ANALYZING"
        /\ \A b \in AlertIds : b # a => alerts'[b] = alerts[b]
    <3> HIDE DEF a
    <3>1. QED
      BY <1>1, <2>1, AlertSet
  <2>3. a \notin AlertIds => UNCHANGED alerts
    BY <1>1, <2>1 DEF QueueTyped
  <2> HIDE DEF a
  <2>4. CASE a \in AlertIds
    <3>1. Departure
      BY <1>1, <2>1, <2>2, <2>4, OneLeaves
    <3>2. QED
      BY <1>1, <1>2, <2>1, <2>2, <2>4, <3>1
  <2>5. CASE a \notin AlertIds
    <3>1. Having({"QUEUED"})' = Having({"QUEUED"})
      BY <2>3, <2>5 DEF Having
    <3>2. Departure
      BY <2>1, <3>1 DEF Departure
    <3>3. QED
      BY <1>1, <1>2, <1>5, <2>1, <2>3, <2>5, <3>2 DEF SameStatus
  <2>6. QED
    BY <2>4, <2>5
<1>9. ASSUME EndRun(a), UNCHANGED overtaken, worker[w].pc \in {"claim", "run"},
             a \in AlertIds => alerts[a].status # "QUEUED",
             worker' = [worker EXCEPT ![w].pc = "ack"]
      PROVE  QInv'
  <2>1. /\ alerts' = [alerts EXCEPT ![a] = [status |-> "SETTLED", owner |-> Nobody,
                                            lease |-> "none"]]
        /\ gate' \in {gate, "PAUSED"}
    BY <1>9 DEF EndRun
  <2>2. a \in AlertIds =>
        /\ alerts' \in [AlertIds -> [status : {"absent", "QUEUED", "ANALYZING", "SETTLED"},
                                     owner : Workers \cup {Nobody, Api},
                                     lease : {"none", "live", "expired"}]]
        /\ alerts'[a].status = "SETTLED"
        /\ \A b \in AlertIds : b # a => alerts'[b] = alerts[b]
    <3> HIDE DEF a
    <3>1. QED
      BY <1>1, <2>1, AlertSet
  <2>3. a \notin AlertIds => UNCHANGED alerts
    BY <1>1, <2>1 DEF QueueTyped
  <2> HIDE DEF a
  <2>4. CASE a \in AlertIds
    <3>1. Departure
      BY <1>1, <1>9, <2>1, <2>2, <2>4, OneLeaves
    <3>2. QED
      BY <1>1, <1>2, <1>9, <2>1, <2>2, <2>4, <3>1
  <2>5. CASE a \notin AlertIds
    BY <1>1, <1>2, <1>5, <1>9, <2>1, <2>3, <2>5, NoneLeaves DEF SameStatus
  <2>6. QED
    BY <2>4, <2>5
<1>10. CASE FailExpired(w) \/ Finish(w)
  <2>1. a \in AlertIds => alerts[a].status # "QUEUED"
    BY <1>10 DEF FailExpired, Finish, Unclaimed
  <2>2. QED
    BY <1>9, <1>10, <2>1 DEF FailExpired, Finish, Proceeds
<1>11. CASE LoseLease(w)
  BY <1>4, <1>5, <1>11 DEF LoseLease
<1>12. CASE InfraError(w)
  <2> DEFINE lost == {b \in AlertIds : worker[w].pc = "run" /\ alerts[b].owner = w}
  <2>1. alerts' = [b \in AlertIds |-> IF b \in lost THEN [alerts[b] EXCEPT !.owner = Nobody]
                                     ELSE alerts[b]]
    BY <1>12 DEF InfraError
  <2> HIDE DEF lost
  <2>2. lost \in SUBSET AlertIds
    BY DEF lost
  <2>3. SameStatus
    BY <1>1, <2>1, <2>2, Disowned
  <2>4. QED
    BY <1>4, <1>12, <2>3 DEF InfraError
<1>13. CASE WorkerCrash(w)
  <2> DEFINE lost == {b \in AlertIds : alerts[b].owner = w}
  <2>1. alerts' = [b \in AlertIds |-> IF b \in lost THEN [alerts[b] EXCEPT !.owner = Nobody]
                                     ELSE alerts[b]]
    BY <1>13 DEF WorkerCrash
  <2> HIDE DEF lost
  <2>2. lost \in SUBSET AlertIds
    BY DEF lost
  <2>3. SameStatus
    BY <1>1, <2>1, <2>2, Disowned
  <2>4. QED
    BY <1>3, <1>13, <2>3 DEF WorkerCrash
<1>14. CASE WorkerRestart(w)
  <2>1. IdleWorker = [IdleWorker EXCEPT !.pc = "idle"]
    BY DEF IdleWorker
  <2>2. QED
    BY <1>3, <1>5, <1>14, <2>1 DEF WorkerRestart
<1>15. QED
  BY <1>6, <1>7, <1>8, <1>10, <1>11, <1>12, <1>13, <1>14

-----------------------------------------------------------------------------
(* A message is delivered, also one that another worker has. *)
LEMMA TakeInv ==
  ASSUME QInv, NEW w \in Workers, NEW s \in Slots, Take(w, s)
  PROVE  QInv'
<1> DEFINE m == [stream[s] EXCEPT !.state = "pending"]
           r == [pc |-> "begin", msg |-> s, alert |-> stream[s].alert, tries |-> 1]
<1>1. /\ QueueTyped /\ UNCHANGED <<alerts, gate, api, reported, overtaken>>
      /\ worker[w].pc = "idle" /\ worker[w].msg = 0 /\ stream[s].state # "free"
      /\ stream' = [stream EXCEPT ![s] = m] /\ worker' = [worker EXCEPT ![w] = r]
  BY DEF QInv, Take, Linked
<1>2. /\ m \in [alert : 0 .. MaxAlert, state : {"free", "new", "pending"}]
      /\ m.alert = stream[s].alert /\ m.state = "pending"
      /\ stream[s].alert \in 0 .. MaxAlert /\ stream[s].alert # 0
  BY <1>1 DEF QInv, QueueTyped, Linked
<1>3. r \in [pc : {"idle", "begin", "claim", "run", "ack", "dead", "down"},
             msg : 0 .. MaxMessages, alert : 0 .. MaxAlert, tries : Nat]
      /\ r.pc = "begin" /\ r.msg = s /\ r.alert = stream[s].alert
  BY <1>2 DEF Slots
<1> HIDE DEF m, r
<1>4. QueueTyped'
  BY <1>1, <1>2, <1>3 DEF QueueTyped
<1>5. \A q \in Slots : stream'[q].alert = stream[q].alert
  BY <1>1, <1>2 DEF QueueTyped
<1>6. /\ worker'[w] = r /\ \A v \in Workers : v # w => worker'[v] = worker[v]
      /\ stream'[s] = m /\ \A q \in Slots : q # s => stream'[q] = stream[q]
  BY <1>1 DEF QueueTyped
<1>7. Linked'
  BY <1>2, <1>3, <1>5, <1>6 DEF QInv, Linked
<1>8. Tracked'
  <2> SUFFICES ASSUME gate = "ENABLED", NEW a \in Having({"QUEUED"})
               PROVE  Kept(a)' \/ InHand(a)' \/ a \in reported' \cup overtaken'
    BY <1>1 DEF Tracked, Having
  <2>1. Kept(a) \/ InHand(a) \/ a \in reported \cup overtaken
    BY DEF QInv, Tracked
  <2>2. Kept(a) => Kept(a)'
    BY <1>3, <1>5, <1>6 DEF Kept
  <2>3. InHand(a) => InHand(a)'
    BY <1>1, SamePlaces
  <2>4. QED
    BY <1>1, <2>1, <2>2, <2>3
<1>9. QED
  BY <1>4, <1>7, <1>8 DEF QInv

(* The message is deleted, after the decision or with a dead letter. *)
LEMMA DeleteInv ==
  ASSUME QInv, MaxAlert \in Nat, MaxMessages \in Nat, NEW w \in Workers,
         Ack(w) \/ DeadLetter(w)
  PROVE  QInv'
<1> DEFINE s == worker[w].msg
<1>1. /\ QueueTyped /\ UNCHANGED <<alerts, gate, api, overtaken>> /\ reported \subseteq reported'
      /\ stream' = [stream EXCEPT ![s] = Free] /\ worker' = [worker EXCEPT ![w] = IdleWorker]
      /\ worker[w].pc \in {"ack", "dead"}
      /\ worker[w].pc = "dead" => worker[w].alert \in reported'
  BY DEF QInv, Ack, DeadLetter
<1>2. s \in Slots /\ stream[s].alert \in {0, worker[w].alert}
  BY <1>1 DEF QInv, Linked
<1> HIDE DEF s
<1>3. /\ worker'[w] = IdleWorker /\ \A v \in Workers : v # w => worker'[v] = worker[v]
      /\ stream'[s] = Free /\ \A q \in Slots : q # s => stream'[q] = stream[q]
  BY <1>1, <1>2 DEF QueueTyped
<1>4. QueueTyped'
  BY <1>1, <1>2 DEF QueueTyped, Free, IdleWorker
<1>5. Linked'
  BY <1>2, <1>3 DEF QInv, Linked, Free, IdleWorker
<1>6. Tracked'
  <2> SUFFICES ASSUME gate = "ENABLED", NEW a \in Having({"QUEUED"})
               PROVE  Kept(a)' \/ InHand(a)' \/ a \in reported' \cup overtaken'
    BY <1>1 DEF Tracked, Having
  <2>1. Kept(a) \/ InHand(a) \/ a \in reported \cup overtaken
    BY DEF QInv, Tracked
  <2>2. ASSUME NEW q \in Slots, stream[q].alert = a,
               \A v \in Workers : worker[v].msg = q => worker[v].pc # "ack"
        PROVE  Kept(a)' \/ a \in reported'
    <3>1. CASE q = s
      <4>1. worker[w].pc = "dead" /\ a # 0
        BY <1>1, <2>2, <3>1 DEF s, Having, AlertIds
      <4>2. worker[w].alert = a
        BY <1>2, <2>2, <3>1, <4>1
      <4>3. QED
        BY <1>1, <4>1, <4>2
    <3>2. CASE q # s
      <4>1. stream'[q].alert = a
        BY <1>3, <2>2, <3>2
      <4>2. \A v \in Workers : worker'[v].msg = q => worker'[v].pc # "ack"
        BY <1>3, <2>2 DEF IdleWorker
      <4>3. QED
        BY <4>1, <4>2 DEF Kept
    <3>3. QED
      BY <3>1, <3>2
  <2>3. InHand(a) => InHand(a)'
    BY <1>1, SamePlaces
  <2>4. QED
    BY <1>1, <2>1, <2>2, <2>3 DEF Kept
<1>7. QED
  BY <1>4, <1>5, <1>6 DEF QInv

(* A new message is in a slot that no worker knows. *)
LEMMA AddInv ==
  ASSUME QInv, NEW a \in AlertIds, Add(a)
  PROVE  QInv'
<1>1. PICK s \in Slots : Unused(s) /\ stream' = [stream EXCEPT ![s] = [alert |-> a, state |-> "new"]]
  BY DEF Add
<1>2. /\ QueueTyped /\ UNCHANGED <<alerts, gate, worker>> /\ reported' = reported \ {a}
      /\ overtaken' = overtaken \ {a}
      /\ api' = [api EXCEPT !.add = @ \ {a}]
      /\ a \in 0 .. MaxAlert /\ a # 0
  BY DEF QInv, Add, AlertIds
<1>3. /\ stream'[s] = [alert |-> a, state |-> "new"]
      /\ \A q \in Slots : q # s => stream'[q] = stream[q]
      /\ stream[s].alert = 0 /\ \A w \in Workers : worker[w].msg # s
  BY <1>1, <1>2 DEF QueueTyped, Unused, Free
<1>4. /\ api' \in [up : BOOLEAN, check : SUBSET AlertIds, add : SUBSET AlertIds,
                   resume : [pc : {"idle", "list", "republish"}, page : Nat,
                             found : SUBSET AlertIds]]
      /\ api'.up = api.up /\ api'.check = api.check /\ api'.add = api.add \ {a}
      /\ api'.resume = api.resume
  BY <1>2 DEF QueueTyped
<1>5. QueueTyped'
  BY <1>1, <1>2, <1>4 DEF QueueTyped
<1>6. Linked'
  BY <1>2, <1>3 DEF QInv, Linked
<1>7. Tracked'
  <2> SUFFICES ASSUME gate = "ENABLED", NEW b \in Having({"QUEUED"})
               PROVE  Kept(b)' \/ InHand(b)' \/ b \in reported' \cup overtaken'
    BY <1>2 DEF Tracked, Having
  <2>1. Kept(a)'
    BY <1>2, <1>3 DEF Kept
  <2>2. CASE b # a
    <3>1. Kept(b) \/ InHand(b) \/ b \in reported \cup overtaken
      BY DEF QInv, Tracked
    <3>2. b # 0
      BY DEF Having, AlertIds
    <3>3. Kept(b) => Kept(b)'
      BY <1>2, <1>3, <3>2 DEF Kept
    <3>4. InHand(b) => InHand(b)'
      BY <1>2, <1>4, <2>2, SamePlaces DEF InHand
    <3>5. QED
      BY <1>2, <2>2, <3>1, <3>3, <3>4
  <2>3. QED
    BY <2>1, <2>2
<1>8. QED
  BY <1>5, <1>6, <1>7 DEF QInv

-----------------------------------------------------------------------------
(* Runs of the API and leases: no alert is queued by them. *)
LEMMA RunInv ==
  ASSUME QInv, Unclaimed, MaxAlert \in Nat, PageSize \in Nat, NEW a \in AlertIds,
         Reanalyze(a) \/ ApiFinishes(a) \/ OrphanExpires(a) \/ HeldLeaseExpires(a)
  PROVE  QInv'
<1>1. QueueTyped /\ UNCHANGED <<stream, worker, api, reported>> /\ gate' \in {gate, "PAUSED"}
  BY DEF QInv, Reanalyze, ApiFinishes, EndRun, OrphanExpires, HeldLeaseExpires
<1>2. ASSUME alerts' \in [AlertIds -> [status : {"absent", "QUEUED", "ANALYZING", "SETTLED"},
                                       owner : Workers \cup {Nobody, Api},
                                       lease : {"none", "live", "expired"}]],
             Departure
      PROVE  QInv'
  <2>1. QueueTyped' /\ Quiet
    BY <1>1, <1>2 DEF QueueTyped, Quiet
  <2>2. QED
    BY <1>1, <2>1, QuietInv
<1>3. CASE Reanalyze(a) \/ ApiFinishes(a)
  <2>1. PICK status \in {"ANALYZING", "SETTLED"}, owner \in {Nobody, Api},
             held \in {"none", "live"} :
          alerts' = [alerts EXCEPT ![a] = [status |-> status, owner |-> owner, lease |-> held]]
    BY <1>3 DEF Reanalyze, ApiFinishes, EndRun
  <2>2. /\ alerts' \in [AlertIds -> [status : {"absent", "QUEUED", "ANALYZING", "SETTLED"},
                                     owner : Workers \cup {Nobody, Api},
                                     lease : {"none", "live", "expired"}]]
        /\ alerts'[a].status \in {"ANALYZING", "SETTLED"}
        /\ \A b \in AlertIds : b # a => alerts'[b] = alerts[b]
    BY <1>1, <2>1, AlertSet
  <2>3. /\ overtaken \subseteq overtaken'
        /\ alerts[a].status = "QUEUED" => Slipping(a) \subseteq overtaken'
    BY <1>3 DEF Reanalyze, ApiFinishes, Unclaimed
  <2>4. QED
    BY <1>1, <1>2, <2>2, <2>3, OneLeaves
<1>4. CASE OrphanExpires(a) \/ HeldLeaseExpires(a)
  <2>1. SameStatus /\ UNCHANGED overtaken
    BY <1>1, <1>4, Expires DEF OrphanExpires, HeldLeaseExpires
  <2>2. QED
    BY <1>2, <2>1, NoneLeaves DEF SameStatus
<1>5. QED
  BY <1>3, <1>4

LEMMA IngestInv ==
  ASSUME QInv, MaxAlert \in Nat, PageSize \in Nat, NEW a \in AlertIds, Ingest(a)
  PROVE  QInv'
<1> DEFINE r == [alerts[a] EXCEPT !.status = "QUEUED"]
<1>1. /\ QueueTyped /\ UNCHANGED <<gate, stream, worker, reported, overtaken>>
      /\ alerts' = [alerts EXCEPT ![a] = r] /\ api' = [api EXCEPT !.check = @ \cup {a}]
  BY DEF QInv, QueueTyped, Ingest
<1>2. r \in [status : {"absent", "QUEUED", "ANALYZING", "SETTLED"},
             owner : Workers \cup {Nobody, Api}, lease : {"none", "live", "expired"}]
      /\ r.status = "QUEUED"
  BY <1>1 DEF QueueTyped
<1> HIDE DEF r
<1>3. /\ api' \in [up : BOOLEAN, check : SUBSET AlertIds, add : SUBSET AlertIds,
                   resume : [pc : {"idle", "list", "republish"}, page : Nat,
                             found : SUBSET AlertIds]]
      /\ api'.up = api.up /\ api'.check = api.check \cup {a} /\ api'.add = api.add
      /\ api'.resume = api.resume
  BY <1>1 DEF QueueTyped
<1>4. QueueTyped'
  BY <1>1, <1>2, <1>3 DEF QueueTyped
<1>5. /\ \A b \in Having({"QUEUED"})' : b = a \/ b \in Having({"QUEUED"})
      /\ Having({"QUEUED"}) \subseteq Having({"QUEUED"})'
  BY <1>1, <1>2 DEF Having, QueueTyped
<1>6. InHand(a)'
  BY <1>3 DEF InHand
<1>7. ASSUME NEW b \in Having({"QUEUED"}), InHand(b)
      PROVE  InHand(b)'
  <2>1. Rank(b) \in Nat /\ Before(api.resume.page) \in Int /\ Rank(b) <= Rank(b)'
    BY <1>1, <1>5, RankType, RankGrows, BeforeType DEF QueueTyped
  <2>2. Rank(b)' \in Nat
    BY RankPrimed
  <2>3. QED
    BY <1>3, <1>7, <2>1, <2>2 DEF InHand, Before
<1>8. QED
  BY <1>1, <1>4, <1>5, <1>6, <1>7, HandInv

(* An alert is handed on, to the check and to the XADD, or its loss reported;
   while the gate is paused it need not be.                              *)
LEMMA HandOnInv ==
  ASSUME QInv, NEW a \in AlertIds, CheckDispatch(a) \/ AddFails(a)
  PROVE  QInv'
<1>1. QueueTyped /\ UNCHANGED <<alerts, gate, stream, worker, overtaken>>
  BY DEF QInv, CheckDispatch, AddFails
<1>2. /\ api' \in [up : BOOLEAN, check : SUBSET AlertIds, add : SUBSET AlertIds,
                   resume : [pc : {"idle", "list", "republish"}, page : Nat,
                             found : SUBSET AlertIds]]
      /\ api'.up = api.up /\ api'.resume = api.resume
      /\ gate = "ENABLED" =>
           \A b \in (api.check \cup api.add) \ (api'.check \cup api'.add) : b \in reported'
      /\ reported \subseteq reported'
  <2>1. CASE CheckDispatch(a)
    <3>1. CASE gate = "ENABLED"
      BY <1>1, <2>1, <3>1 DEF QueueTyped, CheckDispatch
    <3>2. CASE gate # "ENABLED"
      BY <1>1, <2>1, <3>2 DEF QueueTyped, CheckDispatch
    <3>3. QED
      BY <3>1, <3>2
  <2>2. CASE AddFails(a)
    BY <1>1, <2>2 DEF QueueTyped, AddFails
  <2>3. QED
    BY <2>1, <2>2
<1>3. QueueTyped'
  BY <1>1, <1>2 DEF QueueTyped
<1>4. gate = "ENABLED" => \A b : InHand(b) => InHand(b)' \/ b \in reported'
  BY <1>1, <1>2, SamePlaces DEF InHand, Before
<1>5. Having({"QUEUED"})' = Having({"QUEUED"})
  BY <1>1 DEF Having
<1>6. QED
  BY <1>1, <1>2, <1>3, <1>4, <1>5, HandInv

(* The API process is lost; when it starts it has every queued alert in hand. *)
LEMMA ApiInv ==
  ASSUME QInv, ApiCrash \/ ApiStart
  PROVE  QInv'
<1>1. QueueTyped /\ UNCHANGED <<gate, stream, worker, reported>>
  BY DEF QInv, ApiCrash, ApiStart
<1>2. CASE ApiCrash
  <2> DEFINE lost == {b \in AlertIds : alerts[b].owner = Api}
  <2>1. alerts' = [b \in AlertIds |-> IF b \in lost THEN [alerts[b] EXCEPT !.owner = Nobody]
                                     ELSE alerts[b]]
    BY <1>2 DEF ApiCrash
  <2> HIDE DEF lost
  <2>2. lost \in SUBSET AlertIds
    BY DEF lost
  <2>3. SameStatus
    BY <1>1, <2>1, <2>2, Disowned
  <2>4. QueueTyped' /\ \A a : InHand(a)'
    BY <1>1, <1>2, <2>3 DEF QueueTyped, ApiCrash, ApiAt, NoResume, SameStatus, InHand
  <2>5. QED
    BY <1>1, <2>4, HandInv
<1>3. CASE ApiStart
  <2>1. /\ api'.check = Having({"QUEUED", "ANALYZING"}) /\ UNCHANGED alerts
        /\ Having({"QUEUED", "ANALYZING"}) \in SUBSET AlertIds
        /\ Having({"QUEUED"})' \subseteq Having({"QUEUED", "ANALYZING"})
    BY <1>3 DEF ApiStart, ApiAt, Having
  <2>2. QueueTyped' /\ \A a \in Having({"QUEUED"})' : InHand(a)'
    BY <1>1, <1>3, <2>1 DEF QueueTyped, ApiStart, ApiAt, NoResume, InHand
  <2>3. QED
    BY <1>1, <2>2, HandInv
<1>4. QED
  BY <1>2, <1>3

(* The resume handler: it lists what is queued before it hands it on. *)
LEMMA ResumeInv ==
  ASSUME QInv, MaxAlert \in Nat, PageSize \in Nat,
         Resume \/ ListPage \/ Republish \/ RepublishFails
  PROVE  QInv'
<1>1. QueueTyped /\ UNCHANGED <<alerts, stream, worker>> /\ Having({"QUEUED"})' = Having({"QUEUED"})
  BY DEF QInv, Resume, ListPage, Republish, RepublishFails, Having
<1>2. CASE Resume
  <2> DEFINE r == [pc |-> "list", page |-> 1, found |-> {}]
  <2>1. api' = [api EXCEPT !.resume = r] /\ gate' = "ENABLED" /\ r.pc = "list" /\ r.page = 1
    BY <1>2 DEF Resume
  <2>2. r \in [pc : {"idle", "list", "republish"}, page : Nat, found : SUBSET AlertIds]
    OBVIOUS
  <2> HIDE DEF r
  <2>3. QueueTyped' /\ api'.resume = r
    BY <1>1, <2>1, <2>2 DEF QueueTyped
  <2>4. \A a : InHand(a)'
    <3>1. \A a : Rank(a)' \in Nat /\ Before(1) = 0
      BY RankPrimed, BeforeType
    <3>2. QED
      BY <2>1, <2>3, <3>1 DEF InHand, Before
  <2>5. QED
    BY <1>1, <2>3, <2>4, HandInv
<1>3. CASE ListPage
  <2> DEFINE p == api.resume.page
             found == api.resume.found \cup OnPage(p)
             last == Cardinality(Having({"QUEUED"})) <= Before(p + 1)
             r == IF last THEN [pc |-> "republish", page |-> 0, found |-> found]
                  ELSE [pc |-> "list", page |-> p + 1, found |-> found]
  <2>1. /\ api.resume.pc = "list" /\ UNCHANGED <<gate, reported, overtaken>>
        /\ api' = [api EXCEPT !.resume = r]
    BY <1>3 DEF ListPage
  <2>2. /\ p \in Nat /\ p + 1 \in Nat /\ found \in SUBSET AlertIds
        /\ Before(p) \in Int /\ Before(p + 1) \in Int
    <3>1. p \in Nat /\ p + 1 \in Nat /\ found \in SUBSET AlertIds
      BY <1>1 DEF QueueTyped, OnPage, Having
    <3>2. QED
      BY <3>1, BeforeType
  <2>3. /\ r \in [pc : {"idle", "list", "republish"}, page : Nat, found : SUBSET AlertIds]
        /\ r.found = found /\ r.pc = (IF last THEN "republish" ELSE "list")
        /\ ~last => r.page = p + 1
    <3> HIDE DEF p, found, last
    <3>1. QED
      BY <2>2
  <2> HIDE DEF r
  <2>4. /\ QueueTyped' /\ api'.resume = r /\ api'.check = api.check /\ api'.add = api.add
        /\ api'.up = api.up
    BY <1>1, <2>1, <2>3 DEF QueueTyped
  <2>5. ASSUME NEW a \in Having({"QUEUED"}), InHand(a)
        PROVE  InHand(a)'
    <3>1. /\ Rank(a) \in Nat /\ Rank(a)' = Rank(a) /\ Rank(a) < Cardinality(Having({"QUEUED"}))
          /\ Cardinality(Having({"QUEUED"})) \in Nat
      BY <1>1, RankType, RankBound, SamePlaces
    <3>2. CASE a \in found
      BY <2>3, <2>4, <3>2 DEF InHand
    <3>3. CASE a \notin found /\ Before(p) <= Rank(a)
      <4>1. Before(p + 1) <= Rank(a)
        <5>1. ~(Rank(a) < Before(p + 1))
          BY <3>3 DEF OnPage
        <5> HIDE DEF p
        <5>2. QED
          BY <2>2, <3>1, <5>1
      <4>2. ~last
        <5> HIDE DEF p
        <5>1. QED
          BY <2>2, <3>1, <4>1
      <4> HIDE DEF p, found, last
      <4>3. QED
        BY <2>3, <2>4, <3>1, <4>1, <4>2 DEF InHand, Before
    <3>4. CASE a \in api.check \cup api.add \/ ~api.up
      BY <2>4, <3>4 DEF InHand
    <3>5. QED
      BY <2>5, <3>2, <3>3, <3>4 DEF InHand
  <2>6. QED
    BY <1>1, <2>1, <2>4, <2>5, HandInv
<1>4. CASE Republish
  <2>1. UNCHANGED <<gate, reported, overtaken>> /\ api.resume.pc = "republish"
    BY <1>4 DEF Republish
  <2>2. CASE api.resume.found = {} /\ api' = [api EXCEPT !.resume = NoResume]
    <3>1. QueueTyped'
      BY <1>1, <2>1, <2>2 DEF QueueTyped, NoResume
    <3>2. \A a : InHand(a) => InHand(a)'
      BY <1>1, <2>1, <2>2 DEF QueueTyped, InHand
    <3>3. QED
      BY <1>1, <2>1, <3>1, <3>2, HandInv
  <2>3. ASSUME NEW a \in api.resume.found,
               api' = [api EXCEPT !.check = @ \cup {a}, !.resume.found = @ \ {a}]
        PROVE  QInv'
    <3> DEFINE r == [api.resume EXCEPT !.found = @ \ {a}]
    <3>1. /\ r \in [pc : {"idle", "list", "republish"}, page : Nat, found : SUBSET AlertIds]
          /\ r.pc = "republish" /\ r.found = api.resume.found \ {a} /\ a \in AlertIds
      BY <1>1, <2>1 DEF QueueTyped
    <3>2. api' = [api EXCEPT !.check = @ \cup {a}, !.resume = r]
      BY <1>1, <2>3 DEF QueueTyped
    <3> HIDE DEF r
    <3>3. /\ QueueTyped' /\ api'.check = api.check \cup {a} /\ api'.resume = r
          /\ api'.add = api.add /\ api'.up = api.up
      BY <1>1, <2>1, <3>1, <3>2 DEF QueueTyped
    <3>4. \A b : InHand(b) => InHand(b)'
      BY <2>1, <3>1, <3>3 DEF InHand
    <3>5. QED
      BY <1>1, <2>1, <3>3, <3>4, HandInv
  <2>4. QED
    BY <1>4, <2>2, <2>3 DEF Republish
<1>5. CASE RepublishFails
  <2>1. /\ UNCHANGED <<gate, overtaken>> /\ reported \subseteq reported'
        /\ api' = [api EXCEPT !.resume = NoResume]
        /\ api.resume.pc = "list" => Having({"QUEUED"}) \subseteq reported'
        /\ api.resume.pc # "list" => api.resume.found \subseteq reported'
    BY <1>5 DEF RepublishFails
  <2>2. QueueTyped'
    BY <1>1, <2>1 DEF QueueTyped, NoResume
  <2>3. \A a \in Having({"QUEUED"}) : InHand(a) => InHand(a)' \/ a \in reported'
    BY <1>1, <2>1 DEF QueueTyped, InHand
  <2>4. QED
    BY <1>1, <2>1, <2>2, <2>3, HandInv
<1>6. QED
  BY <1>2, <1>3, <1>4, <1>5

(* A run gives an alert its lease together with its status. *)
LEMMA UnclaimedInv ==
  ASSUME QInv, Unclaimed, [QueueNext]_queueVars
  PROVE  Unclaimed'
<1>1. QueueTyped
  BY DEF QInv
<1>2. CASE UNCHANGED alerts
  BY <1>2 DEF Unclaimed
<1>3. ASSUME SameStatus, NEW lost \in SUBSET AlertIds,
             alerts' = [b \in AlertIds |-> IF b \in lost THEN [alerts[b] EXCEPT !.owner = Nobody]
                                          ELSE alerts[b]]
      PROVE  Unclaimed'
  <2>1. \A b \in AlertIds : alerts'[b].lease = alerts[b].lease
    BY <1>1, <1>3 DEF QueueTyped
  <2>2. QED
    BY <1>3, <2>1 DEF Unclaimed, SameStatus
<1>4. ASSUME NEW a, NEW r, alerts' = [alerts EXCEPT ![a] = r],
             r.status \in {"ANALYZING", "SETTLED"}
      PROVE  Unclaimed'
  BY <1>1, <1>4 DEF Unclaimed, QueueTyped
<1>5. ASSUME NEW a \in AlertIds, Ingest(a)
      PROVE  Unclaimed'
  BY <1>1, <1>5 DEF Unclaimed, QueueTyped, Ingest
<1>6. ASSUME NEW a \in AlertIds, Reanalyze(a) \/ ApiFinishes(a)
      PROVE  Unclaimed'
  BY <1>4, <1>6 DEF Reanalyze, ApiFinishes, EndRun
<1>7. ASSUME NEW a \in AlertIds, OrphanExpires(a) \/ HeldLeaseExpires(a)
      PROVE  Unclaimed'
  <2>1. /\ alerts[a].lease = "live" /\ alerts' = [alerts EXCEPT ![a].lease = "expired"]
        /\ SameStatus
    BY <1>1, <1>7, Expires DEF OrphanExpires, HeldLeaseExpires
  <2>2. \A b \in AlertIds : b # a => alerts'[b] = alerts[b]
    BY <1>1, <2>1 DEF QueueTyped
  <2>3. QED
    BY <2>1, <2>2 DEF Unclaimed, SameStatus
<1>8. ASSUME NEW w \in Workers, ClaimRun(w) \/ FailExpired(w) \/ Finish(w)
      PROVE  Unclaimed'
  BY <1>4, <1>8 DEF ClaimRun, FailExpired, Finish, EndRun
<1>9. ASSUME NEW lost,
             alerts' = [b \in AlertIds |-> IF b \in lost THEN [alerts[b] EXCEPT !.owner = Nobody]
                                          ELSE alerts[b]]
      PROVE  Unclaimed'
  <2> DEFINE L == lost \cap AlertIds
  <2>1. alerts' = [b \in AlertIds |-> IF b \in L THEN [alerts[b] EXCEPT !.owner = Nobody]
                                     ELSE alerts[b]]
    BY <1>9
  <2>2. L \in SUBSET AlertIds
    OBVIOUS
  <2> HIDE DEF L
  <2>3. QED
    BY <1>1, <1>3, <2>1, <2>2, Disowned
<1>10. CASE ApiCrash
  <2> DEFINE L == {b \in AlertIds : alerts[b].owner = Api}
  <2>1. alerts' = [b \in AlertIds |-> IF b \in L THEN [alerts[b] EXCEPT !.owner = Nobody]
                                     ELSE alerts[b]]
    BY <1>10 DEF ApiCrash
  <2> HIDE DEF L
  <2>2. QED
    BY <1>9, <2>1
<1>11. ASSUME NEW w \in Workers, InfraError(w) \/ WorkerCrash(w)
       PROVE  Unclaimed'
  <2>1. CASE InfraError(w)
    <3> DEFINE M == {b \in AlertIds : worker[w].pc = "run" /\ alerts[b].owner = w}
    <3>1. alerts' = [b \in AlertIds |-> IF b \in M THEN [alerts[b] EXCEPT !.owner = Nobody]
                                       ELSE alerts[b]]
      BY <2>1 DEF InfraError
    <3> HIDE DEF M
    <3>2. QED
      BY <1>9, <3>1
  <2>2. CASE WorkerCrash(w)
    <3> DEFINE M == {b \in AlertIds : alerts[b].owner = w}
    <3>1. alerts' = [b \in AlertIds |-> IF b \in M THEN [alerts[b] EXCEPT !.owner = Nobody]
                                       ELSE alerts[b]]
      BY <2>2 DEF WorkerCrash
    <3> HIDE DEF M
    <3>2. QED
      BY <1>9, <3>1
  <2>3. QED
    BY <1>11, <2>1, <2>2
<1>12. QED
  BY <1>2, <1>5, <1>6, <1>7, <1>8, <1>10, <1>11
  DEF QueueNext, queueVars, Enqueue, CheckDispatch, Add, AddFails, Take, Handle, Begin,
      ClaimNothing, LoseLease, Ack, DeadLetter, WorkerRestart, ApiStart, Resume, ListPage,
      Republish, RepublishFails

LEMMA QueueNextInv ==
  ASSUME QInv, Unclaimed, MaxAlert \in Nat, MaxMessages \in Nat, PageSize \in Nat,
         [QueueNext]_queueVars
  PROVE  QInv'
<1>1. CASE UNCHANGED queueVars
  <2>1. QueueTyped' /\ Quiet /\ UNCHANGED worker
    <3>1. Departure
      BY <1>1 DEF queueVars, Departure, Having
    <3>2. QED
      BY <1>1, <3>1 DEF queueVars, QInv, QueueTyped, Quiet
  <2>2. QED
    BY <2>1, QuietInv
<1>2. CASE \E a \in AlertIds :
             \/ Ingest(a) \/ Enqueue(a) \/ AddFails(a)
             \/ Reanalyze(a) \/ ApiFinishes(a) \/ OrphanExpires(a) \/ HeldLeaseExpires(a)
  BY <1>2, IngestInv, HandOnInv, AddInv, RunInv DEF Enqueue
<1>3. CASE \E w \in Workers :
             \/ \E s \in Slots : Take(w, s)
             \/ Handle(w) \/ InfraError(w) \/ WorkerCrash(w) \/ WorkerRestart(w)
  BY <1>3, TakeInv, HandleInv, DeleteInv DEF Handle
<1>4. CASE ApiCrash \/ ApiStart \/ Resume \/ ListPage \/ Republish \/ RepublishFails
  BY <1>4, ApiInv, ResumeInv
<1>5. QED
  BY <1>1, <1>2, <1>3, <1>4 DEF QueueNext

-----------------------------------------------------------------------------
(* While the dispatch is enabled every queued alert has a message, is in the
   hands of the API, or its loss was reported; but one for each alert that
   leaves while a resume is between two pages, whatever the page size.      *)
THEOREM SpecQueuedIsTracked ==
  ASSUME MaxAlert \in Nat, MaxMessages \in Nat, PageSize \in Nat
  PROVE  QueueSpec => []QueuedIsTracked
<1>1. QInv => QueuedIsTracked
  BY DEF QInv, Tracked, Kept, QueuedIsTracked, InStream
<1>2. QueueInit => QInv /\ Unclaimed
  BY QueueInitInv DEF QueueInit, Unclaimed
<1>3. QInv /\ Unclaimed /\ [QueueNext]_queueVars => QInv' /\ Unclaimed'
  BY QueueNextInv, UnclaimedInv
<1>4. QED
  BY <1>1, <1>2, <1>3, PTL DEF QueueSpec

-----------------------------------------------------------------------------
(* The types of the queue: the messages, the workers and the API. *)

AlertState == [status : {"absent", "QUEUED", "ANALYZING", "SETTLED"},
               owner : Workers \cup {Nobody, Api}, lease : {"none", "live", "expired"}]
QueueWorker == [pc : {"idle", "begin", "claim", "run", "ack", "dead", "down"},
                msg : 0 .. MaxMessages, alert : 0 .. MaxAlert, tries : 0 .. MaxTries]

(* A message of the stream, and a worker that has one, names an alert. *)
Message == {m \in [alert : 0 .. MaxAlert, state : {"free", "new", "pending"}] :
              m.state # "free" => m.alert \in AlertIds}
Handler == {r \in QueueWorker :
              r.pc \notin {"idle", "down"} => r.alert \in AlertIds /\ r.msg \in Slots}

QueueRows ==
  /\ alerts \in [AlertIds -> AlertState]
  /\ stream \in [Slots -> Message] /\ worker \in [Workers -> Handler]
QueueRest ==
  /\ gate \in {"ENABLED", "PAUSED"}
  /\ api \in [up : BOOLEAN, check : SUBSET AlertIds, add : SUBSET AlertIds,
              resume : [pc : {"idle", "list", "republish"}, page : Nat,
                        found : SUBSET AlertIds]]
  /\ reported \in SUBSET AlertIds /\ overtaken \in SUBSET AlertIds
  /\ surprises \in 0 .. MaxSurprises

(* One alert of the table changes, or alerts lose their owner. *)
LEMMA AlertsTyped ==
  ASSUME QueueRows,
         \/ UNCHANGED alerts
         \/ \E a \in AlertIds, r \in AlertState : alerts' = [alerts EXCEPT ![a] = r]
         \/ \E a \in AlertIds : alerts' = [alerts EXCEPT ![a].status = "QUEUED"]
         \/ \E a \in AlertIds : alerts' = [alerts EXCEPT ![a].lease = "expired"]
         \/ \E S : alerts' = [a \in AlertIds |->
              IF a \in S THEN [alerts[a] EXCEPT !.owner = Nobody] ELSE alerts[a]]
  PROVE  alerts' \in [AlertIds -> AlertState]
  BY DEF AlertState, QueueRows

LEMMA SentTyped ==
  ASSUME QueueRows, MaxAlert \in Nat,
         \/ UNCHANGED stream
         \/ \E s \in Slots, a \in AlertIds :
              stream' = [stream EXCEPT ![s] = [alert |-> a, state |-> "new"]]
         \/ \E s \in Slots : stream' = [stream EXCEPT ![s] = Free]
         \/ \E s \in Slots : stream[s].state # "free"
                             /\ stream' = [stream EXCEPT ![s].state = "pending"]
  PROVE  stream' \in [Slots -> Message]
<1>1. CASE \E s \in Slots, a \in AlertIds :
             stream' = [stream EXCEPT ![s] = [alert |-> a, state |-> "new"]]
  <2>1. \A a \in AlertIds : [alert |-> a, state |-> "new"] \in Message
    BY DEF Message, AlertIds
  <2> QED BY <1>1, <2>1 DEF QueueRows
<1>2. CASE \E s \in Slots : stream' = [stream EXCEPT ![s] = Free]
  <2>1. Free \in Message
    BY DEF Message, Free
  <2> QED BY <1>2, <2>1 DEF QueueRows
<1>3. CASE \E s \in Slots : stream[s].state # "free"
                             /\ stream' = [stream EXCEPT ![s].state = "pending"]
  <2>1. PICK s \in Slots : stream[s].state # "free"
                             /\ stream' = [stream EXCEPT ![s].state = "pending"]
    BY <1>3
  <2>2. stream[s] \in Message
    BY DEF QueueRows
  <2>3. [stream[s] EXCEPT !.state = "pending"] \in Message
    BY <2>1, <2>2 DEF Message
  <2>4. stream' = [stream EXCEPT ![s] = [stream[s] EXCEPT !.state = "pending"]]
    BY <2>1
  <2> QED BY <2>3, <2>4 DEF QueueRows
<1> QED BY <1>1, <1>2, <1>3 DEF QueueRows

LEMMA HandlerMoves ==
  ASSUME QueueRows, MaxTries \in Nat \ {0}, MaxAlert \in Nat, MaxMessages \in Nat, NEW w \in Workers
  PROVE  /\ \A pc \in {"begin", "claim", "run", "ack", "dead"} :
              worker[w].pc \notin {"idle", "down"} => [worker[w] EXCEPT !.pc = pc] \in Handler
         /\ worker[w].tries < MaxTries /\ worker[w].pc \notin {"idle", "down"} =>
              [worker[w] EXCEPT !.pc = "begin", !.tries = @ + 1] \in Handler
         /\ IdleWorker \in Handler /\ [IdleWorker EXCEPT !.pc = "down"] \in Handler
<1>1. worker[w] \in QueueWorker
      /\ (worker[w].pc \notin {"idle", "down"} => worker[w].alert \in AlertIds /\ worker[w].msg \in Slots)
  BY DEF QueueRows, Handler
<1>2. \A pc \in {"begin", "claim", "run", "ack", "dead"} :
        worker[w].pc \notin {"idle", "down"} => [worker[w] EXCEPT !.pc = pc] \in Handler
  BY <1>1 DEF QueueWorker, Handler
<1>3. ASSUME worker[w].tries < MaxTries, worker[w].pc \notin {"idle", "down"}
      PROVE  [worker[w] EXCEPT !.pc = "begin", !.tries = @ + 1] \in Handler
  <2>1. worker[w].tries + 1 \in 0 .. MaxTries
    BY <1>1, <1>3 DEF QueueWorker
  <2> DEFINE r == [worker[w] EXCEPT !.pc = "begin", !.tries = @ + 1]
  <2>2. r \in QueueWorker /\ r.alert = worker[w].alert /\ r.msg = worker[w].msg
    BY <1>1, <2>1 DEF QueueWorker
  <2> HIDE DEF r
  <2>3. r \in Handler
    BY <1>1, <1>3, <2>2 DEF Handler
  <2> QED BY <2>3 DEF r
<1>4. IdleWorker \in Handler /\ [IdleWorker EXCEPT !.pc = "down"] \in Handler
  BY DEF IdleWorker, QueueWorker, Handler
<1> QED BY <1>2, <1>3, <1>4

LEMMA HandlerTyped ==
  ASSUME QueueRows, MaxTries \in Nat \ {0}, MaxAlert \in Nat, MaxMessages \in Nat, NEW w \in Workers,
         \/ worker[w].pc \notin {"idle", "down"} /\ NextTry(w)
         \/ worker[w].pc \notin {"idle", "down"}
            /\ \E pc \in {"begin", "claim", "run", "ack", "dead"} : Proceeds(w, pc)
         \/ worker' = [worker EXCEPT ![w] = IdleWorker]
         \/ worker' = [worker EXCEPT ![w] = [IdleWorker EXCEPT !.pc = "down"]]
  PROVE  worker' \in [Workers -> Handler]
<1>1. \E r \in Handler : worker' = [worker EXCEPT ![w] = r]
  <2>1. CASE worker[w].pc \notin {"idle", "down"}
             /\ \E pc \in {"begin", "claim", "run", "ack", "dead"} : Proceeds(w, pc)
    BY <2>1, HandlerMoves DEF Proceeds
  <2>2. CASE worker[w].pc \notin {"idle", "down"} /\ worker[w].tries < MaxTries
             /\ worker' = [worker EXCEPT ![w].pc = "begin", ![w].tries = @ + 1]
    <3>1. worker' = [worker EXCEPT ![w] = [worker[w] EXCEPT !.pc = "begin", !.tries = @ + 1]]
      BY <2>2 DEF QueueRows
    <3> QED BY <2>2, <3>1, HandlerMoves
  <2> QED BY <2>1, <2>2, HandlerMoves DEF NextTry
<1> QED BY <1>1 DEF QueueRows

LEMMA ApiTyped ==
  ASSUME QueueRows, QueueRest, MaxAlert \in Nat, MaxSurprises \in Nat, NEW a \in AlertIds,
         \/ Ingest(a) \/ Enqueue(a) \/ AddFails(a)
         \/ Reanalyze(a) \/ ApiFinishes(a) \/ OrphanExpires(a) \/ HeldLeaseExpires(a)
  PROVE  QueueRows' /\ QueueRest'
<1>1. alerts' \in [AlertIds -> AlertState]
  <2>1. [status |-> "ANALYZING", owner |-> Api, lease |-> "live"] \in AlertState
        /\ [status |-> "SETTLED", owner |-> Nobody, lease |-> "none"] \in AlertState
    BY DEF AlertState
  <2> QED BY <2>1, AlertsTyped DEF Ingest, Enqueue, CheckDispatch, Add, AddFails, Reanalyze,
         ApiFinishes, EndRun, OrphanExpires, HeldLeaseExpires
<1>2. stream' \in [Slots -> Message]
  BY SentTyped DEF Ingest, Enqueue, CheckDispatch, Add, AddFails, Reanalyze,
         ApiFinishes, EndRun, OrphanExpires, HeldLeaseExpires
<1>3. UNCHANGED worker
  BY DEF Ingest, Enqueue, CheckDispatch, Add, AddFails, Reanalyze,
         ApiFinishes, EndRun, OrphanExpires, HeldLeaseExpires
<1>4. QueueRest'
  <2>1. CASE Ingest(a)
    BY <2>1 DEF Ingest, QueueRest
  <2>2. CASE CheckDispatch(a)
    BY <2>2 DEF CheckDispatch, QueueRest
  <2>3. CASE Add(a)
    BY <2>3 DEF Add, QueueRest
  <2>4. CASE AddFails(a)
    BY <2>4 DEF AddFails, Surprise, QueueRest
  <2>5. CASE Reanalyze(a) \/ HeldLeaseExpires(a)
    <3>1. Slipping(a) \subseteq AlertIds
      BY DEF Slipping, Having
    <3> QED BY <2>5, <3>1 DEF Reanalyze, HeldLeaseExpires, Surprise, QueueRest
  <2>6. CASE ApiFinishes(a) \/ OrphanExpires(a)
    BY <2>6 DEF ApiFinishes, EndRun, OrphanExpires, QueueRest
  <2> QED BY <2>1, <2>2, <2>3, <2>4, <2>5, <2>6 DEF Enqueue
<1> QED BY <1>1, <1>2, <1>3, <1>4 DEF QueueRows

LEMMA WorkerTyped ==
  ASSUME QueueRows, QueueRest, MaxAlert \in Nat, MaxMessages \in Nat, MaxTries \in Nat \ {0},
         MaxSurprises \in Nat, NEW w \in Workers,
         \/ \E s \in Slots : Take(w, s)
         \/ Handle(w) \/ InfraError(w) \/ WorkerCrash(w) \/ WorkerRestart(w)
  PROVE  QueueRows' /\ QueueRest'
<1>1. worker[w] \in Handler
  BY DEF QueueRows
<1>2. worker[w].pc \notin {"idle", "down"} => worker[w].alert \in AlertIds /\ worker[w].msg \in Slots
  BY <1>1 DEF Handler
<1>3. alerts' \in [AlertIds -> AlertState]
  <2>1. [status |-> "ANALYZING", owner |-> w, lease |-> "live"] \in AlertState
        /\ [status |-> "SETTLED", owner |-> Nobody, lease |-> "none"] \in AlertState
    BY DEF AlertState
  <2>2. CASE ClaimRun(w) \/ FailExpired(w) \/ Finish(w)
    BY <1>2, <2>1, <2>2, AlertsTyped DEF ClaimRun, FailExpired, Finish, EndRun
  <2>3. CASE InfraError(w) \/ WorkerCrash(w)
    <3>1. \E S : alerts' = [a \in AlertIds |->
              IF a \in S THEN [alerts[a] EXCEPT !.owner = Nobody] ELSE alerts[a]]
      <4>1. CASE InfraError(w)
        <5> DEFINE S == {a \in AlertIds : worker[w].pc = "run" /\ alerts[a].owner = w}
        <5>1. alerts' = [a \in AlertIds |->
                IF a \in S THEN [alerts[a] EXCEPT !.owner = Nobody] ELSE alerts[a]]
          BY <4>1 DEF InfraError
        <5> HIDE DEF S
        <5> QED BY <5>1
      <4>2. CASE WorkerCrash(w)
        <5> DEFINE S == {a \in AlertIds : alerts[a].owner = w}
        <5>1. alerts' = [a \in AlertIds |->
                IF a \in S THEN [alerts[a] EXCEPT !.owner = Nobody] ELSE alerts[a]]
          BY <4>2 DEF WorkerCrash
        <5> HIDE DEF S
        <5> QED BY <5>1
      <4> QED BY <2>3, <4>1, <4>2
    <3> QED BY <3>1, AlertsTyped
  <2>4. CASE UNCHANGED alerts
    BY <2>4, AlertsTyped
  <2> QED BY <2>2, <2>3, <2>4 DEF Handle, Take, Begin, ClaimNothing, LoseLease, Ack, DeadLetter,
         WorkerRestart
<1>4. stream' \in [Slots -> Message]
  <2>1. CASE Ack(w) \/ DeadLetter(w)
    BY <1>2, <2>1, SentTyped DEF Ack, DeadLetter
  <2>2. CASE \E s \in Slots : Take(w, s)
    BY <2>2, SentTyped DEF Take
  <2>3. CASE UNCHANGED stream
    BY <2>3 DEF QueueRows
  <2> QED BY <2>1, <2>2, <2>3 DEF Handle, Begin, ClaimNothing, ClaimRun, FailExpired, Finish,
         LoseLease, InfraError, WorkerCrash, WorkerRestart
<1>5. worker' \in [Workers -> Handler]
  <2>1. CASE \E s \in Slots : Take(w, s)
    <3>1. PICK s \in Slots : Take(w, s)
      BY <2>1
    <3> DEFINE r == [pc |-> "begin", msg |-> s, alert |-> stream[s].alert, tries |-> 1]
    <3>2. stream[s] \in Message /\ stream[s].state # "free"
      BY <3>1 DEF QueueRows, Take
    <3>3. r \in Handler
      BY <3>2 DEF Message, Handler, QueueWorker, AlertIds, Slots
    <3>4. worker' = [worker EXCEPT ![w] = r]
      BY <3>1 DEF Take
    <3> HIDE DEF r
    <3> QED BY <3>3, <3>4 DEF QueueRows
  <2>2. CASE Begin(w) \/ ClaimNothing(w) \/ ClaimRun(w) \/ FailExpired(w) \/ Finish(w)
    BY <2>2, HandlerTyped DEF Begin, ClaimNothing, ClaimRun, FailExpired, Finish
  <2>3. CASE LoseLease(w) \/ InfraError(w)
    BY <2>3, HandlerTyped DEF LoseLease, InfraError
  <2>4. CASE Ack(w) \/ DeadLetter(w) \/ WorkerCrash(w) \/ WorkerRestart(w)
    BY <2>4, HandlerTyped DEF Ack, DeadLetter, WorkerCrash, WorkerRestart
  <2> QED BY <2>1, <2>2, <2>3, <2>4 DEF Handle
<1>6. QueueRest'
  <2>1. CASE DeadLetter(w)
    BY <1>2, <2>1 DEF DeadLetter, QueueRest
  <2>2. CASE InfraError(w)
    BY <2>2 DEF InfraError, Surprise, QueueRest
  <2>3. CASE UNCHANGED <<api, reported, overtaken, surprises>> /\ gate' \in {gate, "PAUSED"}
    BY <2>3 DEF QueueRest
  <2>4. CASE ClaimRun(w)
    <3>1. Slipping(worker[w].alert) \subseteq AlertIds
      BY DEF Slipping, Having
    <3> QED BY <2>4, <3>1 DEF ClaimRun, QueueRest
  <2> QED BY <2>1, <2>2, <2>3, <2>4 DEF Handle, Take, Begin, ClaimNothing, ClaimRun, FailExpired, Finish,
         EndRun, LoseLease, Ack, WorkerCrash, WorkerRestart
<1> QED BY <1>3, <1>4, <1>5, <1>6 DEF QueueRows

(* The tables, the messages and the API process have their types, and what a
   worker reports as lost is an alert.                                     *)
THEOREM SpecQueueTypeOK ==
  ASSUME MaxAlert \in Nat, MaxMessages \in Nat, MaxTries \in Nat \ {0}, MaxSurprises \in Nat
  PROVE  QueueSpec => []QueueTypeOK
<1>1. QueueInit => QueueRows /\ QueueRest
  BY DEF QueueInit, QueueRows, QueueRest, ApiAt, NoResume, Free, IdleWorker, AlertState, Message,
         Handler, QueueWorker
<1>2. QueueRows /\ QueueRest /\ [QueueNext]_queueVars => (QueueRows /\ QueueRest)'
  <2> SUFFICES ASSUME QueueRows, QueueRest, [QueueNext]_queueVars
               PROVE  QueueRows' /\ QueueRest'
    OBVIOUS
  <2>1. CASE UNCHANGED queueVars
    BY <2>1 DEF queueVars, QueueRows, QueueRest
  <2>2. CASE ApiCrash
    <3> DEFINE S == {a \in AlertIds : alerts[a].owner = Api}
    <3>1. alerts' = [a \in AlertIds |->
            IF a \in S THEN [alerts[a] EXCEPT !.owner = Nobody] ELSE alerts[a]]
      BY <2>2 DEF ApiCrash
    <3> HIDE DEF S
    <3>2. alerts' \in [AlertIds -> AlertState]
      BY <3>1, AlertsTyped
    <3>3. QueueRest'
      BY <2>2 DEF ApiCrash, ApiAt, NoResume, QueueRest
    <3> QED BY <2>2, <3>2, <3>3 DEF ApiCrash, QueueRows
  <2>3. CASE ApiStart \/ Resume \/ Republish \/ RepublishFails
    <3>1. QueueRest'
      <4>1. CASE ApiStart
        BY <4>1 DEF ApiStart, ApiAt, Having, NoResume, QueueRest
      <4>2. CASE Resume
        BY <4>2 DEF Resume, QueueRest
      <4>3. CASE Republish
        <5>1. CASE api' = [api EXCEPT !.resume = NoResume]
          BY <4>3, <5>1 DEF Republish, NoResume, QueueRest
        <5>2. CASE \E a \in api.resume.found :
                     api' = [api EXCEPT !.check = @ \cup {a}, !.resume.found = @ \ {a}]
          <6>1. PICK a \in api.resume.found :
                     api' = [api EXCEPT !.check = @ \cup {a}, !.resume.found = @ \ {a}]
            BY <5>2
          <6> DEFINE r == [api.resume EXCEPT !.found = @ \ {a}]
          <6>2. /\ r \in [pc : {"idle", "list", "republish"}, page : Nat, found : SUBSET AlertIds]
                /\ a \in AlertIds
            BY DEF QueueRest
          <6>3. api' = [api EXCEPT !.check = @ \cup {a}, !.resume = r]
            BY <6>1
          <6> HIDE DEF r
          <6> QED BY <4>3, <6>2, <6>3 DEF Republish, QueueRest
        <5> QED BY <4>3, <5>1, <5>2 DEF Republish
      <4>4. CASE RepublishFails
        <5>1. Having({"QUEUED"}) \subseteq AlertIds
          BY DEF Having
        <5> QED BY <4>4, <5>1 DEF RepublishFails, Surprise, NoResume, QueueRest
      <4> QED BY <2>3, <4>1, <4>2, <4>3, <4>4
    <3> QED BY <2>3, <3>1 DEF ApiStart, Resume, Republish, RepublishFails, QueueRows
  <2>4. CASE ListPage
    <3>1. OnPage(api.resume.page) \subseteq AlertIds
      BY DEF OnPage, Having
    <3>2. QueueRest'
      BY <2>4, <3>1 DEF ListPage, QueueRest
    <3> QED BY <2>4, <3>2 DEF ListPage, QueueRows
  <2> QED BY <2>1, <2>2, <2>3, <2>4, ApiTyped, WorkerTyped DEF QueueNext
<1>3. QueueRows /\ QueueRest => QueueTypeOK
  BY DEF QueueRows, QueueRest, QueueTypeOK, AlertState, Message, Handler, QueueWorker
<1> QED BY <1>1, <1>2, <1>3, PTL DEF QueueSpec
=============================================================================
