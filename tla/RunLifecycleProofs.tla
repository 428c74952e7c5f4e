------------------------- MODULE RunLifecycleProofs -------------------------
(***************************************************************************)
(* Proofs about RunLifecycle for every set of tasks and generations and    *)
(* every bound.                                                            *)
(*                                                                         *)
(* Every action is first reduced (lemma Steps) to what it does to the rows *)
(* -- nothing, Closes, Touches or Opens -- and to the local state of its   *)
(* task -- nothing, Drops, Moves or Takes.  The inductive invariant Inv,   *)
(* the action properties and the refinement then only look at these.       *)
(***************************************************************************)
EXTENDS RunLifecycle, TLAPS

(* A task that holds a claim holds it on an attempt, and one that is about to
   record the result of the graph has a verdict to record.                  *)
LocalState ==
  {s \in TaskState : /\ s.pc \in Claiming => s.att \in Attempt
                     /\ s.pc = "finalizing" => s.arg \in Verdicts}

RunsTyped == run \in [Attempt -> RunRow]
TasksTyped == task \in [Tasks -> LocalState]

Typed ==
  /\ alert \in AlertStatus
  /\ dispatch \in {"ENABLED", "PAUSED"}
  /\ latest \in 0 .. MaxAttempts
  /\ RunsTyped
  /\ TasksTyped

(* Attempts are numbered without a gap, only the newest runs, and a run that
   is still RUNNING has queued no notification and recorded no failure.     *)
RowsWellFormed ==
  \A a \in Attempt :
    /\ a > latest => run[a] = AbsentRun
    /\ a <= latest => run[a].status # "absent"
    /\ run[a].status = "RUNNING" =>
         a = latest /\ run[a].intents = 0 /\ run[a].error = "none"

(* A claim is on an existing attempt, never ahead of the token of its row, and
   a claim with the token of the row is the owner's.                        *)
ClaimsWellFormed ==
  \A t \in Tasks :
    task[t].pc \in Claiming =>
      /\ task[t].att <= latest
      /\ task[t].tok <= run[task[t].att].token
      /\ task[t].tok = run[task[t].att].token => run[task[t].att].owner = t

Inv ==
  /\ Typed
  /\ RowsWellFormed
  /\ AlertMirrorsLatestRun
  /\ CancellationWins
  /\ OneNotificationPerRun
  /\ ClaimsWellFormed
  /\ ClaimsAreUnique
  /\ RunsUnderFrozenManifest

-----------------------------------------------------------------------------
(* What an action does to the rows. *)

(* The newest run is decided and the alert with it. *)
Closes(row) ==
  /\ Running
  /\ row.status \in Decided
  /\ row.token = run[latest].token /\ row.owner = run[latest].owner
  /\ row.manifest = run[latest].manifest
  /\ row.cancel = run[latest].cancel
  /\ row.cancel => row.status \in {"FAILED", "CANCELLED"}
  /\ run[latest].lease = "expired" => row.lease # "live"
  /\ row.intents <= 1
  /\ row.status = "FAILED" => row.intents = 1
  /\ run' = [run EXCEPT ![latest] = row]
  /\ alert' = row.status
  /\ latest' = latest

(* A RUNNING row changes its lease, its checkpoint, its request or, while the
   dispatch is enabled, its holder.                                         *)
Touches(a, row) ==
  /\ run[a].status = "RUNNING" /\ row.status = "RUNNING"
  /\ row.manifest = run[a].manifest /\ row.intents = run[a].intents
  /\ row.error = run[a].error
  /\ \/ /\ row.token = run[a].token /\ row.owner = run[a].owner
        /\ run[a].lease = "expired" => row.lease # "live"
     \/ row.token > run[a].token /\ dispatch = "ENABLED"
  /\ run' = [run EXCEPT ![a] = row]
  /\ UNCHANGED <<alert, latest>>

(* The next attempt begins; a run it supersedes ends without notification. *)
Opens(t, rows) ==
  /\ dispatch = "ENABLED"
  /\ latest + 1 \in Attempt /\ latest + 1 <= MaxToken
  /\ \/ ~Running /\ rows = run
     \/ /\ Running
        /\ \E row \in RunRow :
             /\ rows = [run EXCEPT ![latest] = row]
             /\ row.status = "FAILED" /\ row.intents = run[latest].intents
             /\ row.token = run[latest].token /\ row.owner = run[latest].owner
             /\ row.manifest = run[latest].manifest
             /\ row.lease = "none"
  /\ run' = [rows EXCEPT ![latest + 1] = FreshRun(t, latest + 1, task[t].gen)]
  /\ latest' = latest + 1
  /\ alert' = "ANALYZING"

RowStep ==
  \/ UNCHANGED <<alert, latest, run>>
  \/ \E row \in RunRow : Closes(row)
  \/ \E a \in Attempt, row \in RunRow : Touches(a, row)
  \/ \E t \in Tasks, rows \in [Attempt -> RunRow] : Opens(t, rows)

(* What it does to the local state of its task t, which becomes s. *)
Drops(t, s) == s.pc \notin Claiming

Frozen == {"claimed", "running", "finalizing", "failing"}

Moves(t, s) ==
  /\ task[t].pc \in Claiming
  /\ s.pc \in Frozen => task[t].pc \in Frozen
  /\ s.att = task[t].att /\ s.tok = task[t].tok /\ s.gen = task[t].gen

Takes(t, s) ==
  /\ s.pc \in {"claimed", "incompatible"}
  /\ s.att = latest' /\ s.att \in Attempt
  /\ s.tok = run'[s.att].token /\ run'[s.att].owner = t
  /\ s.pc = "claimed" => s.gen = run'[s.att].manifest
  /\ latest' = latest => s.tok > run[s.att].token

LocalStep ==
  \/ task' = task
  \/ \E t \in Tasks, s \in LocalState :
       /\ task' = [task EXCEPT ![t] = s]
       /\ Drops(t, s) \/ Moves(t, s) \/ Takes(t, s)

-----------------------------------------------------------------------------
(* The helpers of the actions, seen as such steps. *)

LEMMA RunningRow ==
  ASSUME Inv, Running
  PROVE  /\ latest \in Attempt /\ run[latest] \in RunRow
         /\ run[latest].intents = 0
<1>1. latest \in Attempt
  BY BoundsAssumption DEF Inv, Typed, Running, Attempt
<1>2. run[latest] \in RunRow
  BY <1>1 DEF Inv, Typed, RunsTyped
<1>3. run[latest].intents = 0
  BY <1>1 DEF Inv, RowsWellFormed, Running
<1>4. QED
  BY <1>1, <1>2, <1>3

LEMMA EndsCloses ==
  ASSUME Inv, Running, NEW status, NEW notes,
         \/ status = "FAILED" /\ notes = 1
         \/ status = "CANCELLED" /\ notes = 0,
         NEW why \in RunErrors, EndRunAndAlert(latest, status, why, notes),
         latest' = latest
  PROVE  RowStep
<1> DEFINE row == [run[latest] EXCEPT !.status = status, !.lease = "none",
                                      !.error = why, !.intents = @ + notes]
<1>1. /\ latest \in Attempt /\ run[latest] \in RunRow
      /\ run[latest].intents = 0
  BY RunningRow
<1>2. run[latest].intents + notes = notes /\ notes \in Nat /\ notes <= 1
  BY <1>1
<1>3. row \in RunRow
  BY <1>1, <1>2 DEF RunRow, Decided
<1>4. /\ row.status = status /\ row.lease = "none" /\ row.intents = notes
      /\ row.token = run[latest].token /\ row.owner = run[latest].owner
      /\ row.manifest = run[latest].manifest /\ row.cancel = run[latest].cancel
  BY <1>1, <1>2 DEF RunRow
<1>5. run' = [run EXCEPT ![latest] = row] /\ alert' = status
  BY DEF EndRunAndAlert, Ended
<1> HIDE DEF row
<1>6. Closes(row)
  BY <1>2, <1>4, <1>5 DEF Closes, Decided
<1>7. QED
  BY <1>3, <1>6 DEF RowStep

LEMMA FinalizeCloses ==
  ASSUME Inv, NEW t \in Tasks, NEW v \in Verdicts, NEW why \in RunErrors,
         NEW notes \in {0, 1}, v = "FAILED" => notes = 1,
         NEW pause \in BOOLEAN, FinalizeRun(t, v, why, notes, pause)
  PROVE  RowStep
<1> DEFINE row == [run[latest] EXCEPT !.status = v, !.error = why,
                                      !.intents = @ + notes]
<1>1. /\ Running /\ task[t].att = latest /\ ~run[latest].cancel
      /\ run[latest].lease = "live"
  BY BoundsAssumption
     DEF FinalizeRun, MayFinalize, Fenced, Running, Attempt, Inv, Typed
<1>2. /\ latest \in Attempt /\ run[latest] \in RunRow
      /\ run[latest].intents = 0
  BY <1>1, RunningRow
<1>3. run[latest].intents + notes = notes /\ notes \in Nat /\ notes <= 1
  BY <1>2
<1>4. row \in RunRow
  BY <1>2, <1>3 DEF RunRow, Decided, Verdicts
<1>5. /\ row.status = v /\ row.intents = notes
      /\ row.token = run[latest].token /\ row.owner = run[latest].owner
      /\ row.manifest = run[latest].manifest /\ row.cancel = run[latest].cancel
  BY <1>2, <1>3 DEF RunRow
<1>6. /\ run' = [run EXCEPT ![latest] = row] /\ alert' = v
      /\ latest' = latest
  BY <1>1 DEF FinalizeRun
<1> HIDE DEF row
<1>7. Closes(row)
  BY <1>1, <1>3, <1>5, <1>6 DEF Closes, Decided, Verdicts
<1>8. QED
  BY <1>4, <1>7 DEF RowStep

(* A RUNNING row of a task's claim gets a live lease or a checkpoint. *)
LEMMA FencedTouches ==
  ASSUME Inv, NEW t \in Tasks, Fenced(t), UNCHANGED <<alert, latest>>,
         \/ run' = [run EXCEPT ![task[t].att].lease = "live"]
         \/ run' = [run EXCEPT ![task[t].att].ckpt = TRUE]
  PROVE  RowStep
<1> DEFINE a == task[t].att
           live == [run[a] EXCEPT !.lease = "live"]
           saved == [run[a] EXCEPT !.ckpt = TRUE]
<1>1. /\ a \in Attempt /\ run[a] \in RunRow
      /\ run[a].status = "RUNNING" /\ run[a].lease = "live"
  BY DEF Fenced, Inv, Typed, RunsTyped
<1>2. live \in RunRow /\ saved \in RunRow
  BY <1>1 DEF RunRow
<1>3. \A row \in {live, saved} :
        /\ row.status = "RUNNING" /\ row.intents = run[a].intents
        /\ row.token = run[a].token /\ row.owner = run[a].owner
        /\ row.manifest = run[a].manifest /\ row.error = run[a].error
  BY <1>1 DEF RunRow
<1>4. \/ run' = [run EXCEPT ![a] = live]
      \/ run' = [run EXCEPT ![a] = saved]
  OBVIOUS
<1> HIDE DEF live, saved, a
<1>5. \E row \in {live, saved} : Touches(a, row)
  BY <1>1, <1>3, <1>4 DEF Touches
<1>6. QED
  BY <1>1, <1>2, <1>5 DEF RowStep

(* A run that ends keeps the type of the rows. *)
LEMMA EndedType ==
  ASSUME RunsTyped, NEW a \in Attempt, NEW status \in Decided,
         NEW why \in RunErrors, NEW notes \in Nat
  PROVE  Ended(a, status, why, notes) \in [Attempt -> RunRow]
<1>1. run[a] \in RunRow
  BY DEF RunsTyped
<1>2. run[a].intents + notes \in Nat
  BY <1>1 DEF RunRow
<1>3. [run[a] EXCEPT !.status = status, !.lease = "none", !.error = why,
                     !.intents = @ + notes] \in RunRow
  BY <1>1, <1>2 DEF RunRow
<1>4. QED
  BY <1>3 DEF RunsTyped, Ended

LEMMA FreshRunType ==
  ASSUME NEW t \in Tasks, NEW k \in 0 .. MaxToken,
         NEW g \in Generations \cup {NoGeneration}
  PROVE  FreshRun(t, k, g) \in RunRow
BY DEF FreshRun, RunRow, RunErrors

(* The newest attempt is superseded and the next one opened and claimed. *)
LEMMA InsertOpens ==
  ASSUME Inv, NEW t \in Tasks, dispatch = "ENABLED",
         NEW rows \in {run, Superseded(t)},
         Running => rows = Superseded(t), InsertRun(t, rows)
  PROVE  RowStep
<1>1. /\ latest + 1 \in Attempt /\ latest + 1 <= MaxToken
      /\ run \in [Attempt -> RunRow]
  BY BoundsAssumption DEF InsertRun, AttemptsUsedUp, Attempt, Inv, Typed, RunsTyped
<1>2. CASE ~Running
  <2>1. rows = run
    BY <1>2 DEF Superseded
  <2>2. Opens(t, run)
    BY <1>1, <1>2, <2>1 DEF Opens, InsertRun
  <2>3. QED
    BY <1>1, <2>2 DEF RowStep
<1>3. CASE Running
  <2> DEFINE why == IF run[latest].lease = "live" THEN "superseded" ELSE "expired"
  <2>1. why \in RunErrors
    BY DEF RunErrors
  <2>2. Superseded(t) = Ended(latest, "FAILED", why, 0)
    BY <1>3 DEF Superseded
  <2> HIDE DEF why
  <2> DEFINE row == [run[latest] EXCEPT !.status = "FAILED", !.lease = "none",
                                        !.error = why, !.intents = @ + 0]
  <2>3. /\ latest \in Attempt /\ run[latest] \in RunRow
        /\ run[latest].intents = 0
    BY <1>3, RunningRow
  <2>4. run[latest].intents + 0 = run[latest].intents /\ run[latest].intents \in Nat
    BY <2>3
  <2>5. row \in RunRow
    BY <2>3, <2>1, <2>4 DEF RunRow, Decided
  <2>6. /\ row.status = "FAILED" /\ row.lease = "none"
        /\ row.intents = run[latest].intents
        /\ row.token = run[latest].token /\ row.owner = run[latest].owner
        /\ row.manifest = run[latest].manifest
    BY <2>3, <2>4 DEF RunRow
  <2>7. rows = [run EXCEPT ![latest] = row]
    BY <1>3, <2>2 DEF Ended
  <2> HIDE DEF row
  <2>8. rows \in [Attempt -> RunRow]
    BY <1>1, <2>5, <2>7
  <2>9. Opens(t, rows)
    BY <1>1, <1>3, <2>5, <2>6, <2>7 DEF Opens, InsertRun
  <2>10. QED
    BY <2>8, <2>9 DEF RowStep
<1>4. QED
  BY <1>2, <1>3

(* The local state of a task after the helpers of the actions. *)
LEMMA GotoLocal ==
  ASSUME TasksTyped, NEW t \in Tasks,
         \/ Goto(t, "create")
         \/ /\ task[t].pc \in Frozen
            /\ Goto(t, "running") \/ Goto(t, "cancelling")
         \/ task[t].pc \in Claiming /\ Goto(t, "cancelling")
  PROVE  LocalStep
<1> DEFINE s(label) == [task[t] EXCEPT !.pc = label]
<1>1. task[t] \in LocalState
  BY DEF TasksTyped
<1>2. \A label \in {"create", "running", "cancelling"} :
        /\ s(label) \in TaskState /\ s(label).pc = label
        /\ s(label).att = task[t].att /\ s(label).tok = task[t].tok
        /\ s(label).gen = task[t].gen
  BY <1>1 DEF LocalState, TaskState, Claiming
<1>3. \/ task' = [task EXCEPT ![t] = s("create")]
      \/ task[t].pc \in Frozen /\ task' = [task EXCEPT ![t] = s("running")]
      \/ task[t].pc \in Claiming /\ task' = [task EXCEPT ![t] = s("cancelling")]
  BY DEF Goto, Frozen, Claiming
<1> HIDE DEF s
<1>4. CASE task' = [task EXCEPT ![t] = s("create")]
  <2>1. s("create") \in LocalState /\ Drops(t, s("create"))
    BY <1>2 DEF LocalState, Drops, Claiming
  <2>2. QED
    BY <1>4, <2>1 DEF LocalStep
<1>5. ASSUME NEW label \in {"running", "cancelling"}, task[t].pc \in Claiming,
             label = "running" => task[t].pc \in Frozen,
             task' = [task EXCEPT ![t] = s(label)]
      PROVE  LocalStep
  <2>1. task[t].att \in Attempt
    BY <1>1, <1>5 DEF LocalState
  <2>2. s(label) \in LocalState
    BY <1>2, <1>5, <2>1 DEF LocalState
  <2>3. Moves(t, s(label))
    BY <1>2, <1>5 DEF Moves, Frozen
  <2>4. QED
    BY <1>5, <2>2, <2>3 DEF LocalStep
<1>6. QED
  BY <1>3, <1>4, <1>5 DEF Frozen, Claiming

LEMMA StopLocal ==
  ASSUME TasksTyped, NEW t \in Tasks,
         \/ Stop(t)
         \/ task' = [task EXCEPT ![t] = [IdleTask EXCEPT !.pc = "down"]]
  PROVE  LocalStep
<1>1. /\ IdleTask \in LocalState
      /\ [IdleTask EXCEPT !.pc = "down"] \in LocalState
  BY BoundsAssumption DEF IdleTask, LocalState, TaskState, Claiming
<1>2. Drops(t, IdleTask) /\ Drops(t, [IdleTask EXCEPT !.pc = "down"])
  BY DEF Drops, IdleTask, Claiming
<1>3. QED
  BY <1>1, <1>2 DEF LocalStep, Stop

LEMMA StartLocal ==
  ASSUME TasksTyped, NEW t \in Tasks, NEW g \in Generations,
         NEW force \in {"force", "plain"},
         \/ task' = [task EXCEPT ![t].pc = "reclaim", ![t].gen = g]
         \/ task' = [task EXCEPT ![t].pc = "reanalyze", ![t].gen = g,
                                 ![t].arg = force]
  PROVE  LocalStep
<1> DEFINE s1 == [task[t] EXCEPT !.pc = "reclaim", !.gen = g]
           s2 == [task[t] EXCEPT !.pc = "reanalyze", !.gen = g, !.arg = force]
<1>1. task[t] \in LocalState
  BY DEF TasksTyped
<1>2. s1 \in TaskState /\ s2 \in TaskState
  BY <1>1 DEF LocalState, TaskState
<1>3. s1.pc = "reclaim" /\ s2.pc = "reanalyze"
  BY <1>1 DEF LocalState, TaskState
<1>4. task' = [task EXCEPT ![t] = s1] \/ task' = [task EXCEPT ![t] = s2]
  OBVIOUS
<1> HIDE DEF s1, s2
<1>5. \A s \in {s1, s2} : s \in LocalState /\ Drops(t, s)
  BY <1>2, <1>3 DEF LocalState, Drops, Claiming
<1>6. QED
  BY <1>4, <1>5 DEF LocalStep

LEMMA OutcomeLocal ==
  ASSUME TasksTyped, NEW t \in Tasks, task[t].pc = "running", NEW v \in Verdicts,
         NEW label \in {"finalizing", "failing"},
         task' = [task EXCEPT ![t].pc = label, ![t].arg = v]
  PROVE  LocalStep
<1> DEFINE s == [task[t] EXCEPT !.pc = label, !.arg = v]
<1>1. task[t] \in LocalState
  BY DEF TasksTyped
<1>2. s \in TaskState
  BY <1>1 DEF LocalState, TaskState, Claiming
<1>3. /\ s.pc = label /\ s.arg = v /\ s.att = task[t].att
      /\ s.tok = task[t].tok /\ s.gen = task[t].gen
  BY <1>1 DEF LocalState, TaskState
<1>4. task' = [task EXCEPT ![t] = s]
  OBVIOUS
<1> HIDE DEF s
<1>5. task[t].att \in Attempt
  BY <1>1 DEF LocalState, Claiming
<1>6. s \in LocalState
  BY <1>2, <1>3, <1>5 DEF LocalState
<1>7. Moves(t, s)
  BY <1>3 DEF Moves, Claiming, Frozen
<1>8. QED
  BY <1>4, <1>6, <1>7 DEF LocalStep

LEMMA ClaimLocal ==
  ASSUME TasksTyped, NEW t \in Tasks, NEW a \in Attempt, NEW k \in 0 .. MaxToken,
         NEW label \in {"claimed", "incompatible"}, Claim(t, a, k, label),
         a = latest', k = run'[a].token, run'[a].owner = t,
         label = "claimed" => task[t].gen = run'[a].manifest,
         latest' = latest => k > run[a].token
  PROVE  LocalStep
<1> DEFINE s == [task[t] EXCEPT !.pc = label, !.att = a, !.tok = k]
<1>1. task[t] \in LocalState
  BY DEF TasksTyped
<1>2. a \in 0 .. MaxAttempts
  BY BoundsAssumption DEF Attempt
<1>3. s \in TaskState
  BY <1>1, <1>2 DEF LocalState, TaskState, Claiming
<1>4. /\ s.pc = label /\ s.att = a /\ s.tok = k /\ s.gen = task[t].gen
  BY <1>1 DEF LocalState, TaskState
<1>5. task' = [task EXCEPT ![t] = s]
  BY DEF Claim
<1> HIDE DEF s
<1>6. s \in LocalState
  BY <1>3, <1>4 DEF LocalState
<1>7. Takes(t, s)
  BY <1>4 DEF Takes
<1>8. QED
  BY <1>5, <1>6, <1>7 DEF LocalStep

(* An action that changes neither the rows nor its task. *)
LEMMA Quiet ==
  ASSUME UNCHANGED <<alert, latest, run, task>>
  PROVE  RowStep /\ LocalStep
BY DEF RowStep, LocalStep

-----------------------------------------------------------------------------
(* Every step of the system is a row step and a local step. *)
LEMMA TaskSteps ==
  ASSUME Inv, NEW t \in Tasks, TaskStep(t)
  PROVE  RowStep /\ LocalStep
<1> USE DEF Inv
<1>1. TasksTyped
  BY DEF Typed
<1>2. CASE AnalyzeBegin(t)
  BY <1>1, <1>2, StartLocal DEF AnalyzeBegin, RowStep
<1>3. CASE ReanalyzeBegin(t)
  BY <1>1, <1>3, StartLocal DEF ReanalyzeBegin, RowStep
<1>4. CASE ReclaimNothing(t)
  BY <1>1, <1>4, GotoLocal DEF ReclaimNothing, RowStep
<1>5. CASE ReclaimCancelled(t)
  <2>1. RowStep
    BY <1>5, EndsCloses DEF ReclaimCancelled, RunErrors
  <2>2. QED
    BY <1>1, <1>5, <2>1, GotoLocal DEF ReclaimCancelled
<1>6. CASE ReclaimUnrecoverable(t)
  <2>1. RowStep
    BY <1>6, EndsCloses DEF ReclaimUnrecoverable, ReclaimExpired, RunErrors
  <2>2. QED
    BY <1>1, <1>6, <2>1, GotoLocal DEF ReclaimUnrecoverable
<1>7. CASE ReclaimTakesOver(t)
  <2> DEFINE row == [run[latest] EXCEPT !.owner = t, !.lease = "live", !.token = @ + 1]
             label == IF ManifestCompatible(t) THEN "claimed" ELSE "incompatible"
  <2>1. /\ latest \in Attempt /\ run[latest] \in RunRow
        /\ run[latest].status = "RUNNING"
        /\ run[latest].token < MaxToken /\ run[latest].token \in 0 .. MaxToken
    <3>1. Running
      BY <1>7 DEF ReclaimTakesOver, ReclaimExpired
    <3>2. latest \in Attempt /\ run[latest] \in RunRow
      BY <3>1, RunningRow
    <3>3. run[latest].token \in 0 .. MaxToken
      BY <3>2 DEF RunRow
    <3>4. QED
      BY <1>7, <3>1, <3>2, <3>3, BoundsAssumption
         DEF ReclaimTakesOver, TokensUsedUp, Running
  <2>2. run[latest].token + 1 \in 0 .. MaxToken
    BY <2>1, BoundsAssumption
  <2>3. row \in RunRow
    BY <2>1, <2>2 DEF RunRow
  <2>4. /\ row.status = "RUNNING" /\ row.token = run[latest].token + 1
        /\ row.owner = t /\ row.manifest = run[latest].manifest
        /\ row.intents = run[latest].intents /\ row.error = run[latest].error
    BY <2>1, <2>2 DEF RunRow
  <2>5. /\ run' = [run EXCEPT ![latest] = row] /\ UNCHANGED <<alert, latest>>
        /\ dispatch = "ENABLED" /\ Claim(t, latest, run[latest].token + 1, label)
    BY <1>7 DEF ReclaimTakesOver, ReclaimExpired, TakeOver
  <2>6. run'[latest] = row
    BY <2>1, <2>5 DEF Typed, RunsTyped
  <2> HIDE DEF row
  <2>7. Touches(latest, row)
    BY <2>1, <2>2, <2>4, <2>5 DEF Touches
  <2>8. /\ label \in {"claimed", "incompatible"}
        /\ label = "claimed" => task[t].gen = row.manifest
    BY <2>4 DEF ManifestCompatible
  <2> HIDE DEF label
  <2>9. LocalStep
    BY <1>1, <2>1, <2>2, <2>4, <2>5, <2>6, <2>8, ClaimLocal
  <2>10. QED
    BY <2>1, <2>3, <2>7, <2>9 DEF RowStep
<1>8. CASE CreateRefused(t)
  BY <1>1, <1>8, StopLocal DEF CreateRefused, RowStep
<1>9. CASE CreateMeetsExpired(t)
  <2>1. RowStep
    BY <1>9, EndsCloses DEF CreateMeetsExpired, RunErrors
  <2>2. QED
    BY <1>1, <1>9, <2>1, StopLocal DEF CreateMeetsExpired
<1>10. ASSUME NEW rows \in {run, Superseded(t)}, dispatch = "ENABLED",
              Running => rows = Superseded(t), InsertRun(t, rows)
       PROVE  RowStep /\ LocalStep
  <2>1. RowStep
    BY <1>10, InsertOpens
  <2>2. /\ latest + 1 \in Attempt /\ latest + 1 \in 0 .. MaxToken
        /\ latest' = latest + 1 /\ latest' # latest
    BY <1>10, BoundsAssumption DEF InsertRun, AttemptsUsedUp, Attempt, Typed
  <2>3. rows \in [Attempt -> RunRow]
    <3>1. CASE ~Running
      BY <1>10, <3>1 DEF Superseded, Typed, RunsTyped
    <3>2. CASE Running
      BY <1>10, <3>2, RunningRow, EndedType DEF Superseded, Typed, Decided, RunErrors
    <3>3. QED
      BY <3>1, <3>2
  <2>4. run'[latest + 1] = FreshRun(t, latest + 1, task[t].gen)
    BY <1>10, <2>2, <2>3 DEF InsertRun
  <2>5. /\ run'[latest + 1].token = latest + 1 /\ run'[latest + 1].owner = t
        /\ run'[latest + 1].manifest = task[t].gen
    BY <2>4 DEF FreshRun
  <2>6. Claim(t, latest + 1, latest + 1, "claimed")
    BY <1>10 DEF InsertRun
  <2>7. LocalStep
    BY <1>1, <2>2, <2>5, <2>6, ClaimLocal
  <2>8. QED
    BY <2>1, <2>7
<1>11. CASE CreateRun(t)
  BY <1>10, <1>11 DEF CreateRun
<1>12. CASE ReanalyzeRefused(t)
  BY <1>1, <1>12, StopLocal DEF ReanalyzeRefused, RowStep
<1>13. CASE ReanalyzeCreate(t)
  BY <1>10, <1>13 DEF ReanalyzeCreate
<1>14. CASE ReportClaimed(t)
  BY <1>1, <1>14, GotoLocal, StopLocal DEF ReportClaimed, RowStep, Frozen
<1>15. CASE Heartbeat(t)
  <2>1. CASE Fenced(t)
    BY <1>15, <2>1, FencedTouches DEF Heartbeat, LocalStep
  <2>2. CASE ~Fenced(t)
    BY <1>1, <1>15, <2>2, StopLocal DEF Heartbeat, RowStep
  <2>3. QED
    BY <2>1, <2>2
<1>16. CASE SaveCheckpoint(t)
  <2>1. CASE Fenced(t)
    BY <1>16, <2>1, FencedTouches DEF SaveCheckpoint, LocalStep
  <2>2. CASE ~Fenced(t)
    BY <1>1, <1>16, <2>2, StopLocal DEF SaveCheckpoint, RowStep
  <2>3. QED
    BY <2>1, <2>2
<1>17. CASE SeeCancellation(t)
  BY <1>1, <1>17, GotoLocal DEF SeeCancellation, RowStep, Frozen
<1>18. CASE AgentReturns(t)
  BY <1>1, <1>18, OutcomeLocal DEF AgentReturns, RowStep
<1>19. CASE AgentRaises(t)
  BY <1>1, <1>19, OutcomeLocal DEF AgentRaises, RowStep, Verdicts
<1>20. ASSUME task[t].pc \in Claiming, FinalizeMeetsCancellation(t)
       PROVE  RowStep /\ LocalStep
  BY <1>1, <1>20, GotoLocal DEF FinalizeMeetsCancellation, RowStep
<1>21. ASSUME FinalizeLosesLease(t)
       PROVE  RowStep /\ LocalStep
  BY <1>1, <1>21, StopLocal DEF FinalizeLosesLease, RowStep
<1>22. ASSUME NEW v \in Verdicts, NEW why \in RunErrors, NEW notes \in {0, 1},
              v = "FAILED" => notes = 1, NEW pause \in BOOLEAN,
              FinalizeRun(t, v, why, notes, pause)
       PROVE  RowStep /\ LocalStep
  <2>1. RowStep
    BY <1>22, FinalizeCloses
  <2>2. QED
    BY <1>1, <1>22, <2>1, StopLocal DEF FinalizeRun
<1>23. CASE Finalize(t)
  <2>1. task[t].arg \in Verdicts /\ task[t].pc \in Claiming
    BY <1>1, <1>23 DEF Finalize, TasksTyped, LocalState, Claiming
  <2>2. (IF task[t].arg = "FAILED" THEN "reported" ELSE "none") \in RunErrors
    BY DEF RunErrors
  <2>3. QED
    BY <1>20, <1>21, <1>22, <1>23, <2>1, <2>2 DEF Finalize
<1>24. CASE FailRun(t)
  <2>1. CASE \E pause \in BOOLEAN : FinalizeRun(t, "FAILED", "reported", 1, pause)
    BY <1>22, <2>1 DEF Verdicts, RunErrors
  <2>2. CASE Stop(t) /\ UNCHANGED <<alert, dispatch, latest, run>>
    BY <1>1, <2>2, StopLocal DEF RowStep
  <2>3. QED
    BY <1>21, <1>24, <2>1, <2>2 DEF FailRun
<1>25. CASE FailIncompatible(t)
  <2>1. task[t].pc \in Claiming
    BY <1>25 DEF FailIncompatible, Claiming
  <2>2. CASE FinalizeRun(t, "FAILED", "incompatible", 1, FALSE)
    BY <1>22, <2>2 DEF Verdicts, RunErrors
  <2>3. QED
    BY <1>20, <1>21, <1>25, <2>1, <2>2 DEF FailIncompatible
<1>26. CASE FinalizeCancellation(t)
  <2> DEFINE a == task[t].att
  <2>1. LocalStep
    BY <1>1, <1>26, StopLocal DEF FinalizeCancellation
  <2>2. a \in Attempt
    BY <1>1, <1>26 DEF FinalizeCancellation, TasksTyped, LocalState, Claiming
  <2>3. CASE run[a].status = "RUNNING" /\ run[a].cancel /\ a = latest
    <3>1. Running
      BY <2>2, <2>3 DEF Running, Attempt
    <3>2. EndRunAndAlert(latest, "CANCELLED", "none", 0) /\ latest' = latest
      BY <1>26, <2>3 DEF FinalizeCancellation
    <3>3. QED
      BY <2>1, <3>1, <3>2, EndsCloses DEF RunErrors
  <2>4. CASE ~(run[a].status = "RUNNING" /\ run[a].cancel /\ a = latest)
    BY <1>26, <2>1, <2>4 DEF FinalizeCancellation, RowStep
  <2>5. QED
    BY <2>3, <2>4
<1>27. CASE Crash(t)
  BY <1>1, <1>27, StopLocal DEF Crash, RowStep
<1>28. CASE Restart(t)
  BY <1>1, <1>28, StopLocal DEF Restart, RowStep
<1>29. QED
  BY <1>2, <1>3, <1>4, <1>5, <1>6, <1>7, <1>8, <1>9, <1>11, <1>12, <1>13,
     <1>14, <1>15, <1>16, <1>17, <1>18, <1>19, <1>23, <1>24, <1>25, <1>26,
     <1>27, <1>28
     DEF TaskStep, Advance

LEMMA Steps ==
  ASSUME Inv, [Next]_vars
  PROVE  RowStep /\ LocalStep
<1>1. CASE \E t \in Tasks : TaskStep(t)
  BY <1>1, TaskSteps
<1>2. ASSUME NEW a \in Attempt, LeaseExpires(a) \/ RequestCancellation(a)
      PROVE  RowStep /\ LocalStep
  <2> DEFINE expired == [run[a] EXCEPT !.lease = "expired"]
             requested == [run[a] EXCEPT !.cancel = TRUE]
  <2>1. run[a] \in RunRow /\ run[a].status = "RUNNING"
    BY <1>2 DEF Inv, Typed, RunsTyped, LeaseExpires, RequestCancellation
  <2>2. expired \in RunRow /\ requested \in RunRow
    BY <2>1 DEF RunRow
  <2>3. \A row \in {expired, requested} :
          /\ row.status = "RUNNING" /\ row.intents = run[a].intents
          /\ row.token = run[a].token /\ row.owner = run[a].owner
          /\ row.manifest = run[a].manifest /\ row.error = run[a].error
    BY <2>1 DEF RunRow
  <2>4. /\ expired.lease = "expired" /\ requested.lease = run[a].lease
        /\ \/ run' = [run EXCEPT ![a] = expired]
           \/ run' = [run EXCEPT ![a] = requested]
        /\ UNCHANGED <<alert, latest, task>>
    BY <1>2, <2>1 DEF LeaseExpires, RequestCancellation, RunRow
  <2> HIDE DEF expired, requested
  <2>5. \E row \in {expired, requested} : Touches(a, row)
    BY <2>1, <2>3, <2>4 DEF Touches
  <2>6. QED
    BY <2>2, <2>4, <2>5 DEF RowStep, LocalStep
<1>3. CASE ResumeDispatch \/ OtherAlertPauses
  BY <1>3, Quiet DEF ResumeDispatch, OtherAlertPauses
<1>4. CASE UNCHANGED vars
  BY <1>4, Quiet DEF vars
<1>5. QED
  BY <1>1, <1>2, <1>3, <1>4 DEF Next

LEMMA InitInv == Init => Inv
<1> SUFFICES ASSUME Init
             PROVE  Inv
  OBVIOUS
<1>1. AbsentRun \in RunRow
  BY BoundsAssumption DEF AbsentRun, RunRow, RunErrors
<1>2. IdleTask \in LocalState
  BY BoundsAssumption DEF IdleTask, LocalState, TaskState, Claiming
<1>3. Typed
  BY <1>1, <1>2, BoundsAssumption
     DEF Init, Typed, AlertStatus, RunsTyped, TasksTyped
<1>4. \A a \in Attempt : run[a] = AbsentRun
  BY DEF Init
<1>5. \A a \in Attempt : /\ run[a].status = "absent" /\ run[a].intents = 0
                         /\ ~run[a].cancel /\ a > latest
  BY <1>4 DEF AbsentRun, Init, Attempt
<1>6. \A t \in Tasks : task[t].pc = "idle"
  BY DEF Init, IdleTask
<1>7. ClaimsWellFormed /\ ClaimsAreUnique /\ RunsUnderFrozenManifest
  BY <1>6 DEF ClaimsWellFormed, ClaimsAreUnique, RunsUnderFrozenManifest, Claiming
<1>8. RowsWellFormed /\ CancellationWins
  BY <1>4, <1>5 DEF RowsWellFormed, CancellationWins, Attempt, Init
<1>9. OneNotificationPerRun /\ AlertMirrorsLatestRun
  BY <1>5 DEF OneNotificationPerRun, AlertMirrorsLatestRun, Init
<1>10. QED
  BY <1>3, <1>7, <1>8, <1>9 DEF Inv
-----------------------------------------------------------------------------
(* The part of Inv that is about the rows, and the part about the tasks. *)
RowsInv ==
  /\ alert \in AlertStatus /\ latest \in 0 .. MaxAttempts /\ RunsTyped
  /\ RowsWellFormed /\ AlertMirrorsLatestRun
  /\ CancellationWins /\ OneNotificationPerRun

TasksInv ==
  /\ TasksTyped
  /\ ClaimsWellFormed /\ ClaimsAreUnique /\ RunsUnderFrozenManifest

LEMMA RowsPreserved ==
  ASSUME Inv, RowStep
  PROVE  RowsInv'
<1> USE DEF Inv, Typed, RunsTyped, RowsInv
<1>1. CASE UNCHANGED <<alert, latest, run>>
  BY <1>1 DEF RowsWellFormed, AlertMirrorsLatestRun, CancellationWins,
              OneNotificationPerRun, Running
<1>2. ASSUME NEW row \in RunRow, Closes(row)
      PROVE  RowsInv'
  <2>1. /\ latest \in Attempt /\ latest' = latest /\ alert' = row.status
        /\ run' = [run EXCEPT ![latest] = row] /\ row.status \in Decided
    BY <1>2, RunningRow DEF Closes
  <2>2. /\ run'[latest] = row
        /\ \A a \in Attempt : a # latest => run'[a] = run[a]
    BY <2>1
  <2>3. alert' \in AlertStatus /\ latest' \in 0 .. MaxAttempts /\ RunsTyped'
    BY <2>1 DEF AlertStatus
  <2>4. RowsWellFormed'
    BY <2>1, <2>2 DEF RowsWellFormed, Decided, Attempt
  <2>5. AlertMirrorsLatestRun'
    BY <2>1, <2>2 DEF AlertMirrorsLatestRun, Running, Decided, Attempt
  <2>6. CancellationWins'
    BY <1>2, <2>1, <2>2 DEF CancellationWins, Closes
  <2>7. OneNotificationPerRun'
    BY <1>2, <2>1, <2>2 DEF OneNotificationPerRun, Closes
  <2>8. QED
    BY <2>3, <2>4, <2>5, <2>6, <2>7
<1>3. ASSUME NEW a \in Attempt, NEW row \in RunRow, Touches(a, row)
      PROVE  RowsInv'
  <2>1. /\ a = latest /\ latest' = latest /\ alert' = alert
        /\ run[latest].status = "RUNNING" /\ run[latest].intents = 0
        /\ row.status = "RUNNING" /\ row.intents = 0 /\ row.error = "none"
        /\ run' = [run EXCEPT ![latest] = row]
    BY <1>3 DEF Touches, RowsWellFormed
  <2>2. /\ run'[latest] = row
        /\ \A b \in Attempt : b # latest => run'[b] = run[b]
    BY <1>3, <2>1
  <2>3. alert' \in AlertStatus /\ latest' \in 0 .. MaxAttempts /\ RunsTyped'
    BY <1>3, <2>1
  <2>4. alert = "ANALYZING"
    BY <2>1 DEF AlertMirrorsLatestRun, Running, Attempt
  <2>5. RowsWellFormed'
    BY <1>3, <2>1, <2>2 DEF RowsWellFormed, Attempt
  <2>6. AlertMirrorsLatestRun'
    BY <1>3, <2>1, <2>2 DEF AlertMirrorsLatestRun, Running, Attempt
  <2>7. CancellationWins' /\ OneNotificationPerRun'
    BY <2>1, <2>2, <2>4 DEF CancellationWins, OneNotificationPerRun
  <2>8. QED
    BY <2>3, <2>5, <2>6, <2>7
<1>4. ASSUME NEW t \in Tasks, NEW rows \in [Attempt -> RunRow], Opens(t, rows)
      PROVE  RowsInv'
  <2> DEFINE fresh == FreshRun(t, latest + 1, task[t].gen)
  <2>1. /\ latest + 1 \in Attempt /\ latest + 1 \in 0 .. MaxToken
        /\ latest + 1 \in 0 .. MaxAttempts
        /\ latest' = latest + 1 /\ alert' = "ANALYZING"
        /\ run' = [rows EXCEPT ![latest + 1] = fresh]
    BY <1>4, BoundsAssumption DEF Opens, Attempt
  <2>2. task[t].gen \in Generations \cup {NoGeneration}
    BY DEF TasksTyped, LocalState, TaskState
  <2>3. /\ fresh \in RunRow /\ fresh.status = "RUNNING" /\ fresh.intents = 0
        /\ ~fresh.cancel /\ fresh.error = "none"
    BY <2>1, <2>2, FreshRunType DEF FreshRun
  <2> HIDE DEF fresh
  <2>4. /\ run'[latest + 1] = fresh
        /\ \A a \in Attempt : a # latest + 1 => run'[a] = rows[a]
    BY <2>1
  <2>5. \A a \in Attempt : a # latest => rows[a] = run[a]
    BY <1>4 DEF Opens
  <2>6. latest \in Attempt =>
          \/ rows[latest] = run[latest] /\ ~Running
          \/ rows[latest].status = "FAILED" /\ rows[latest].intents = 0
    <3>1. CASE ~Running
      BY <1>4, <3>1 DEF Opens
    <3>2. CASE Running
      BY <1>4, <3>2, RunningRow DEF Opens
    <3>3. QED
      BY <3>1, <3>2
  <2>7. alert' \in AlertStatus /\ latest' \in 0 .. MaxAttempts /\ RunsTyped'
    BY <2>1, <2>3 DEF AlertStatus
  <2>8. RowsWellFormed'
    BY <2>1, <2>3, <2>4, <2>5, <2>6 DEF RowsWellFormed, Attempt, Running
  <2>9. AlertMirrorsLatestRun'
    BY <2>1, <2>3, <2>4 DEF AlertMirrorsLatestRun, Running, Attempt
  <2>10. CancellationWins'
    BY <2>1, <2>3, <2>4, <2>5, <2>6 DEF CancellationWins
  <2>11. OneNotificationPerRun'
    BY <2>1, <2>3, <2>4, <2>5, <2>6 DEF OneNotificationPerRun
  <2>12. QED
    BY <2>7, <2>8, <2>9, <2>10, <2>11
<1>5. QED
  BY <1>1, <1>2, <1>3, <1>4 DEF RowStep

(* The tasks after a step: the row of a claim keeps its manifest, and its
   holder as long as it keeps its token.                                    *)
Kept(a) ==
  /\ run'[a].manifest = run[a].manifest
  /\ \/ run'[a].token = run[a].token /\ run'[a].owner = run[a].owner
     \/ run'[a].token > run[a].token

LEMMA RowsKeep ==
  ASSUME Inv, RowStep
  PROVE  /\ latest' \in {latest, latest + 1}
         /\ \A a \in Attempt : a <= latest => Kept(a)
<1> USE DEF Inv, Typed, RunsTyped
<1>1. CASE UNCHANGED <<alert, latest, run>>
  BY <1>1 DEF Kept
<1>2. CASE \E row \in RunRow : Closes(row)
  <2>1. latest \in Attempt
    BY <1>2, RunningRow DEF Closes
  <2>2. QED
    BY <1>2, <2>1 DEF Closes, Kept
<1>3. CASE \E a \in Attempt, row \in RunRow : Touches(a, row)
  BY <1>3 DEF Touches, Kept
<1>4. ASSUME NEW t \in Tasks, NEW rows \in [Attempt -> RunRow], Opens(t, rows)
      PROVE  /\ latest' = latest + 1
             /\ \A a \in Attempt : a <= latest => Kept(a)
  <2>1. \A a \in Attempt : a <= latest => run'[a] = rows[a]
    BY <1>4 DEF Opens, Attempt
  <2>2. \A a \in Attempt : /\ rows[a].manifest = run[a].manifest
                           /\ rows[a].token = run[a].token
                           /\ rows[a].owner = run[a].owner
    BY <1>4 DEF Opens
  <2>3. QED
    BY <1>4, <2>1, <2>2 DEF Opens, Kept
<1>5. QED
  BY <1>1, <1>2, <1>3, <1>4 DEF RowStep

LEMMA TasksPreserved ==
  ASSUME Inv, RowStep, LocalStep, RunsTyped'
  PROVE  TasksInv'
<1> USE DEF TasksInv
<1>1. /\ latest \in Nat /\ latest' \in {latest, latest + 1}
      /\ \A a \in Attempt : a <= latest => Kept(a)
      /\ \A a \in Attempt : /\ a \in Nat /\ run[a].token \in Nat
                            /\ run'[a].token \in Nat
  <2>1. \A a \in Attempt : run[a] \in RunRow /\ run'[a] \in RunRow
    BY DEF Inv, Typed, RunsTyped
  <2>2. \A row \in RunRow : row.token \in Nat
    BY BoundsAssumption DEF RunRow
  <2>3. QED
    BY <2>1, <2>2, RowsKeep, BoundsAssumption DEF Inv, Typed, Attempt
<1>2. /\ TasksTyped
      /\ \A u \in Tasks : /\ task[u].tok \in Nat
                          /\ task[u].pc \in Claiming => task[u].att \in Attempt
  <2>1. \A u \in Tasks : task[u] \in LocalState
    BY DEF Inv, Typed, TasksTyped
  <2>2. \A s \in LocalState : s.tok \in Nat /\ (s.pc \in Claiming => s.att \in Attempt)
    BY BoundsAssumption DEF LocalState, TaskState
  <2>3. QED
    BY <2>1, <2>2 DEF Inv, Typed
(* A claim that is kept stays well formed, unique and under its manifest. *)
<1>3. \A u \in Tasks :
        task[u].pc \in Claiming =>
          /\ task[u].att <= latest'
          /\ task[u].tok <= run'[task[u].att].token
          /\ task[u].tok = run'[task[u].att].token => run'[task[u].att].owner = u
          /\ run'[task[u].att].manifest = run[task[u].att].manifest
  <2> SUFFICES ASSUME NEW u \in Tasks, task[u].pc \in Claiming
               PROVE  /\ task[u].att <= latest'
                      /\ task[u].tok <= run'[task[u].att].token
                      /\ task[u].tok = run'[task[u].att].token
                           => run'[task[u].att].owner = u
                      /\ run'[task[u].att].manifest = run[task[u].att].manifest
    OBVIOUS
  <2> DEFINE a == task[u].att
  <2>1. /\ a \in Attempt /\ a <= latest /\ task[u].tok \in Nat
        /\ task[u].tok <= run[a].token
        /\ task[u].tok = run[a].token => run[a].owner = u
    BY <1>2 DEF Inv, ClaimsWellFormed
  <2> HIDE DEF a
  <2>2. Kept(a)
    BY <1>1, <2>1
  <2>3. /\ a <= latest' /\ task[u].tok <= run'[a].token
        /\ task[u].tok = run'[a].token => run'[a].owner = u
        /\ run'[a].manifest = run[a].manifest
    BY <1>1, <2>1, <2>2 DEF Kept
  <2>4. QED
    BY <2>3 DEF a
<1>4. CASE task' = task
  <2>1. TasksTyped' /\ ClaimsAreUnique'
    BY <1>2, <1>4 DEF TasksTyped, Inv, ClaimsAreUnique
  <2>2. ClaimsWellFormed'
    BY <1>3, <1>4 DEF ClaimsWellFormed
  <2>3. RunsUnderFrozenManifest'
    BY <1>3, <1>4 DEF Inv, RunsUnderFrozenManifest, Claiming
  <2>4. QED
    BY <2>1, <2>2, <2>3
<1>5. ASSUME NEW t \in Tasks, NEW s \in LocalState,
             task' = [task EXCEPT ![t] = s],
             Drops(t, s) \/ Moves(t, s) \/ Takes(t, s)
      PROVE  TasksInv'
  <2>1. /\ task'[t] = s
        /\ \A u \in Tasks : u # t => task'[u] = task[u]
    BY <1>2, <1>5 DEF TasksTyped
  <2>2. TasksTyped'
    BY <1>2, <1>5 DEF TasksTyped
  <2>3. s.pc \in Claiming =>
          /\ s.att <= latest' /\ s.tok <= run'[s.att].token
          /\ s.tok = run'[s.att].token => run'[s.att].owner = t
    BY <1>1, <1>3, <1>5 DEF Drops, Moves, Takes
  <2>4. ClaimsWellFormed'
    BY <1>3, <2>1, <2>3 DEF ClaimsWellFormed
  <2>5. s.pc \in Frozen => s.gen = run'[s.att].manifest
    BY <1>3, <1>5 DEF Drops, Moves, Takes, Frozen, Claiming,
                      Inv, RunsUnderFrozenManifest
  <2>6. RunsUnderFrozenManifest'
    BY <1>3, <2>1, <2>5 DEF Inv, RunsUnderFrozenManifest, Frozen, Claiming
  <2>7. ASSUME NEW u \in Tasks, u # t, task[u].pc \in Claiming, s.pc \in Claiming
        PROVE  task[u].att # s.att \/ task[u].tok # s.tok
    <3>1. CASE Moves(t, s)
      BY <2>7, <3>1 DEF Moves, Inv, ClaimsAreUnique
    <3>2. CASE Takes(t, s)
      BY <1>1, <1>2, <2>7, <3>2 DEF Takes, Inv, ClaimsWellFormed
    <3>3. QED
      BY <1>5, <2>7, <3>1, <3>2 DEF Drops
  <2>8. ClaimsAreUnique'
    BY <2>1, <2>7 DEF Inv, ClaimsAreUnique
  <2>9. QED
    BY <2>2, <2>4, <2>6, <2>8
<1>6. QED
  BY <1>4, <1>5 DEF LocalStep

LEMMA DispatchPreserved ==
  ASSUME Inv, [Next]_vars
  PROVE  dispatch' \in {"ENABLED", "PAUSED"}
<1>1. dispatch \in {"ENABLED", "PAUSED"}
  BY DEF Inv, Typed
<1>2. ASSUME NEW t \in Tasks, Advance(t)
      PROVE  dispatch' \in {"ENABLED", "PAUSED"}
  BY <1>1, <1>2
     DEF Advance, ReclaimNothing, ReclaimCancelled, ReclaimUnrecoverable,
         ReclaimTakesOver, CreateRefused, CreateMeetsExpired, CreateRun,
         ReanalyzeRefused, ReanalyzeCreate, InsertRun, ReportClaimed,
         SeeCancellation, AgentReturns, AgentRaises, Finalize, FailRun,
         FailIncompatible, FinalizeRun, FinalizeMeetsCancellation,
         FinalizeLosesLease, FinalizeCancellation
<1>3. ASSUME NEW t \in Tasks, TaskStep(t)
      PROVE  dispatch' \in {"ENABLED", "PAUSED"}
  BY <1>1, <1>2, <1>3
     DEF TaskStep, AnalyzeBegin, ReanalyzeBegin, Heartbeat, SaveCheckpoint,
         Crash, Restart
<1>4. QED
  BY <1>1, <1>3 DEF Next, LeaseExpires, RequestCancellation, ResumeDispatch,
                    OtherAlertPauses, vars

LEMMA NextInv == Inv /\ [Next]_vars => Inv'
<1> SUFFICES ASSUME Inv, [Next]_vars
             PROVE  Inv'
  OBVIOUS
<1>1. RowStep /\ LocalStep
  BY Steps
<1>2. RowsInv'
  BY <1>1, RowsPreserved
<1>3. TasksInv'
  BY <1>1, <1>2, TasksPreserved DEF RowsInv
<1>4. dispatch' \in {"ENABLED", "PAUSED"}
  BY DispatchPreserved
<1>5. QED
  BY <1>2, <1>3, <1>4 DEF Inv, Typed, RowsInv, TasksInv
-----------------------------------------------------------------------------
(* Inv holds in every reachable state, for all tasks, generations and bounds:
   whatever the interleaving of claims, reclaims, reanalyses, cancellations,
   pauses and crashes that the transactions of SqlAlertRepository allow.     *)
THEOREM SpecInv == Spec => []Inv
<1>1. Init => Inv
  BY InitInv
<1>2. Inv /\ [Next]_vars => Inv'
  BY NextInv
<1>3. QED
  BY <1>1, <1>2, PTL DEF Spec

(* The rows and the local states of the tasks always have their types; in
   particular no fencing token passes its bound and no field mixes the status
   vocabularies of the alert row and the run row.                            *)
THEOREM SpecTypeOK == Spec => []TypeOK
<1>1. Inv => TypeOK
  <2>1. LocalState \subseteq TaskState
    BY DEF LocalState
  <2>2. QED
    BY <2>1 DEF Inv, Typed, RunsTyped, TasksTyped, TypeOK
<1>2. QED
  BY <1>1, SpecInv, PTL

(* Only the newest attempt of an alert is ever RUNNING (create_run and
   create_run_for_reanalyze, under any race of the two).                     *)
THEOREM SpecOnlyLatestRuns == Spec => []OnlyLatestRuns
<1>1. Inv => OnlyLatestRuns
  BY DEF Inv, RowsWellFormed, OnlyLatestRuns
<1>2. QED
  BY <1>1, SpecInv, PTL

(* The alert row and its newest run row never disagree on whether and how the
   investigation ended.                                                      *)
THEOREM SpecAlertMirrorsLatestRun == Spec => []AlertMirrorsLatestRun
<1>1. Inv => AlertMirrorsLatestRun
  BY DEF Inv
<1>2. QED
  BY <1>1, SpecInv, PTL

(* A fencing token of a run is held by at most one task, for any number of
   workers and any number of reclaims.                                       *)
THEOREM SpecClaimsAreUnique == Spec => []ClaimsAreUnique
<1>1. Inv => ClaimsAreUnique
  BY DEF Inv
<1>2. QED
  BY <1>1, SpecInv, PTL

(* A graph runs and is finalized only under the frozen manifest of its run,
   also after the run changed hands.                                         *)
THEOREM SpecRunsUnderFrozenManifest == Spec => []RunsUnderFrozenManifest
<1>1. Inv => RunsUnderFrozenManifest
  BY DEF Inv
<1>2. QED
  BY <1>1, SpecInv, PTL

(* An accepted cancellation is never overtaken by a result. *)
THEOREM SpecCancellationWins == Spec => []CancellationWins
<1>1. Inv => CancellationWins
  BY DEF Inv
<1>2. QED
  BY <1>1, SpecInv, PTL

(* No run queues a second notification, and a FAILED alert has queued one. *)
THEOREM SpecOneNotificationPerRun == Spec => []OneNotificationPerRun
<1>1. Inv => OneNotificationPerRun
  BY DEF Inv
<1>2. QED
  BY <1>1, SpecInv, PTL

-----------------------------------------------------------------------------
(* A decided run row is never written again, by no task and no transaction. *)
THEOREM SpecDecidedRunsAreFinal == Spec => DecidedRunsAreFinal
<1>1. ASSUME Inv, [Next]_vars, NEW a \in Attempt, run[a].status \in Decided
      PROVE  run'[a] = run[a]
  <2>1. RowStep
    BY <1>1, Steps
  <2>2. ~(Running /\ a = latest)
    BY <1>1 DEF Running, Decided
  <2>3. CASE \E row \in RunRow : Closes(row)
    BY <1>1, <2>2, <2>3 DEF Closes, Inv, Typed, RunsTyped
  <2>4. CASE \E b \in Attempt, row \in RunRow : Touches(b, row)
    BY <1>1, <2>4 DEF Touches, Decided, Inv, Typed, RunsTyped
  <2>5. ASSUME NEW t \in Tasks, NEW rows \in [Attempt -> RunRow], Opens(t, rows)
        PROVE  run'[a] = run[a]
    <3>1. a <= latest
      BY <1>1 DEF Inv, Typed, RowsWellFormed, AbsentRun, Decided, Attempt
    <3>2. a # latest + 1
      <4>1. latest \in 0 .. MaxAttempts
        BY <1>1 DEF Inv, Typed
      <4>2. QED
        BY <3>1, <4>1, BoundsAssumption DEF Attempt
    <3>3. rows[a] = run[a]
      BY <2>2, <2>5 DEF Opens, Inv, Typed, RunsTyped
    <3>4. QED
      BY <2>5, <3>2, <3>3 DEF Opens
  <2>6. QED
    BY <2>1, <2>3, <2>4, <2>5 DEF RowStep
<1>2. Inv /\ [Next]_vars
        => [\A a \in Attempt : run[a].status \in Decided => run'[a] = run[a]]_vars
  BY <1>1
<1>3. QED
  BY <1>2, SpecInv, PTL DEF Spec, DecidedRunsAreFinal

-----------------------------------------------------------------------------
(* Who records what: a step either records nothing on a RUNNING row, or it is
   finalize_run of the holder of a live lease.                              *)

Recorded(row) ==
  row.status \in {"COMPLETED", "INCONCLUSIVE"} \/ row.error \in {"reported", "incompatible"}

Silent == \A a \in Attempt : run[a].status = "RUNNING" => ~Recorded(run'[a])

RecordedBy(t) ==
  /\ task[t].pc \in {"finalizing", "failing", "incompatible"}
  /\ task'[t] = IdleTask
  /\ task[t].att \in Attempt
  /\ run[task[t].att].lease = "live"
  /\ task[t].tok = run[task[t].att].token
  /\ \A a \in Attempt :
       a # task[t].att /\ run[a].status = "RUNNING" => ~Recorded(run'[a])

LEMMA SameRowsAreSilent ==
  ASSUME Inv, \A a \in Attempt : /\ run'[a].status = run[a].status
                                 /\ run'[a].error = run[a].error
  PROVE  Silent
BY DEF Inv, RowsWellFormed, Silent, Recorded

LEMMA EndedIsSilent ==
  ASSUME Inv, NEW b \in Attempt, NEW status \in {"FAILED", "CANCELLED"},
         NEW why \in RunErrors \ {"reported", "incompatible"}, NEW notes,
         NEW rows, rows = Ended(b, status, why, notes)
  PROVE  \A a \in Attempt : run[a].status = "RUNNING" => ~Recorded(rows[a])
<1>1. run[b] \in RunRow /\ run \in [Attempt -> RunRow]
  BY DEF Inv, Typed, RunsTyped
<1>2. /\ rows[b].status = status /\ rows[b].error = why
      /\ \A a \in Attempt : a # b => rows[a] = run[a]
  BY <1>1 DEF Ended, RunRow
<1>3. QED
  BY <1>2 DEF Recorded, Inv, RowsWellFormed

LEMMA InsertIsSilent ==
  ASSUME Inv, NEW t \in Tasks, NEW rows \in {run, Superseded(t)}, InsertRun(t, rows)
  PROVE  Silent
<1> DEFINE n == latest + 1
<1>1. n \in Attempt /\ run \in [Attempt -> RunRow]
  BY BoundsAssumption DEF InsertRun, AttemptsUsedUp, Attempt, Inv, Typed, RunsTyped
<1>2. run[n].status # "RUNNING"
  BY <1>1 DEF Inv, Typed, RowsWellFormed, Attempt
<1>3. \A a \in Attempt : run[a].status = "RUNNING" => ~Recorded(rows[a])
  <2>1. CASE rows = run
    BY <2>1 DEF Inv, RowsWellFormed, Recorded
  <2>2. CASE rows = Superseded(t) /\ Running
    <3> DEFINE why == IF run[latest].lease = "live" THEN "superseded" ELSE "expired"
    <3>1. why \in RunErrors \ {"reported", "incompatible"}
      BY DEF RunErrors
    <3>2. rows = Ended(latest, "FAILED", why, 0)
      BY <2>2 DEF Superseded
    <3> HIDE DEF why
    <3>3. QED
      BY <2>2, <3>1, <3>2, EndedIsSilent, RunningRow
  <2>3. CASE rows = Superseded(t) /\ ~Running
    BY <2>3 DEF Superseded, Inv, RowsWellFormed, Recorded
  <2>4. QED
    BY <2>1, <2>2, <2>3
<1>4. \A a \in Attempt : a # n => run'[a] = rows[a]
  BY DEF InsertRun, Superseded, Ended
<1>5. QED
  BY <1>2, <1>3, <1>4 DEF Silent

LEMMA FinalizeIsRecordedBy ==
  ASSUME Inv, NEW t \in Tasks, NEW v, NEW why, NEW notes, NEW pause \in BOOLEAN,
         task[t].pc \in {"finalizing", "failing", "incompatible"},
         FinalizeRun(t, v, why, notes, pause)
  PROVE  RecordedBy(t)
<1>1. /\ task \in [Tasks -> LocalState] /\ run \in [Attempt -> RunRow]
  BY DEF Inv, Typed, RunsTyped, TasksTyped
<1>2. /\ task[t].att \in Attempt /\ run[task[t].att].lease = "live"
      /\ task[t].tok = run[task[t].att].token
  BY DEF FinalizeRun, MayFinalize, Fenced
<1>3. task'[t] = IdleTask
  BY <1>1 DEF FinalizeRun, Stop
<1>4. \A a \in Attempt : a # task[t].att => run'[a] = run[a]
  BY <1>1 DEF FinalizeRun
<1>5. QED
  BY <1>2, <1>3, <1>4 DEF RecordedBy, Recorded, Inv, RowsWellFormed

LEMMA TaskRecords ==
  ASSUME Inv, NEW t \in Tasks, TaskStep(t)
  PROVE  Silent \/ RecordedBy(t)
<1>1. /\ run \in [Attempt -> RunRow]
      /\ UNCHANGED run => Silent
  BY SameRowsAreSilent DEF Inv, Typed, RunsTyped
<1>2. ASSUME Running, NEW status \in {"FAILED", "CANCELLED"},
             NEW why \in RunErrors \ {"reported", "incompatible"}, NEW notes,
             EndRunAndAlert(latest, status, why, notes)
      PROVE  Silent
  BY <1>2, RunningRow, EndedIsSilent DEF EndRunAndAlert, Silent
<1>3. CASE ReclaimCancelled(t)
  BY <1>2, <1>3 DEF ReclaimCancelled, RunErrors
<1>4. CASE ReclaimUnrecoverable(t)
  BY <1>2, <1>4 DEF ReclaimUnrecoverable, ReclaimExpired, RunErrors
<1>5. CASE CreateMeetsExpired(t)
  BY <1>2, <1>5 DEF CreateMeetsExpired, RunErrors
<1>6. CASE FinalizeCancellation(t)
  <2>1. task[t].att \in Attempt
    BY <1>6 DEF FinalizeCancellation, Claiming, Inv, Typed, TasksTyped, LocalState
  <2>2. CASE run[task[t].att].status = "RUNNING" /\ run[task[t].att].cancel
             /\ task[t].att = latest
    <3>1. Running
      BY <2>1, <2>2 DEF Running, Attempt
    <3>2. QED
      BY <1>2, <1>6, <2>2, <3>1 DEF FinalizeCancellation, RunErrors
  <2>3. QED
    BY <1>1, <1>6, <2>2 DEF FinalizeCancellation
<1>7. CASE ReclaimTakesOver(t)
  <2>1. \A a \in Attempt : run'[a].status = run[a].status /\ run'[a].error = run[a].error
    BY <1>1, <1>7 DEF ReclaimTakesOver, TakeOver, RunRow
  <2>2. QED
    BY <2>1, SameRowsAreSilent
<1>8. CASE Heartbeat(t) \/ SaveCheckpoint(t)
  <2>1. \A a \in Attempt : run'[a].status = run[a].status /\ run'[a].error = run[a].error
    BY <1>1, <1>8 DEF Heartbeat, SaveCheckpoint, RunRow
  <2>2. QED
    BY <2>1, SameRowsAreSilent
<1>9. CASE CreateRun(t) \/ ReanalyzeCreate(t)
  BY <1>9, InsertIsSilent DEF CreateRun, ReanalyzeCreate
<1>10. CASE Finalize(t)
  BY <1>1, <1>10, FinalizeIsRecordedBy
     DEF Finalize, FinalizeMeetsCancellation, FinalizeLosesLease
<1>11. CASE FailRun(t)
  BY <1>1, <1>11, FinalizeIsRecordedBy DEF FailRun, FinalizeLosesLease
<1>12. CASE FailIncompatible(t)
  <2>1. CASE FinalizeRun(t, "FAILED", "incompatible", 1, FALSE)
    <3>1. task[t].pc \in {"finalizing", "failing", "incompatible"}
      BY <1>12 DEF FailIncompatible
    <3>2. QED
      BY <2>1, <3>1, FinalizeIsRecordedBy
  <2>2. QED
    BY <1>1, <1>12, <2>1
       DEF FailIncompatible, FinalizeMeetsCancellation, FinalizeLosesLease
<1>13. QED
  BY <1>1, <1>3, <1>4, <1>5, <1>6, <1>7, <1>8, <1>9, <1>10, <1>11, <1>12
     DEF TaskStep, Advance, AnalyzeBegin, ReanalyzeBegin, ReclaimNothing,
         CreateRefused, ReanalyzeRefused, ReportClaimed, SeeCancellation,
         AgentReturns, AgentRaises, Crash, Restart

(* The verdict of a graph, or its failure, is recorded on a RUNNING run by
   nobody but the task that holds the newest token of a live lease.          *)
THEOREM SpecOnlyHolderRecordsVerdict == Spec => OnlyHolderRecordsVerdict
<1> DEFINE Holds(a) ==
             /\ run[a].lease = "live"
             /\ \E t \in Tasks :
                  /\ task[t].pc \in {"finalizing", "failing", "incompatible"}
                  /\ task[t].att = a /\ task[t].tok = run[a].token
                  /\ task'[t] = IdleTask
<1>1. ASSUME Inv, Next, NEW a \in Attempt, run[a].status = "RUNNING",
             Recorded(run'[a])
      PROVE  Holds(a)
  <2>1. CASE \E t \in Tasks : TaskStep(t)
    <3>1. PICK t \in Tasks : RecordedBy(t)
      BY <1>1, <2>1, TaskRecords DEF Silent
    <3>2. QED
      BY <1>1, <3>1 DEF RecordedBy
  <2>2. CASE \E b \in Attempt : LeaseExpires(b) \/ RequestCancellation(b)
    <3>1. \A b \in Attempt : run'[b].status = run[b].status /\ run'[b].error = run[b].error
      BY <1>1, <2>2 DEF LeaseExpires, RequestCancellation, Inv, Typed, RunsTyped, RunRow
    <3>2. QED
      BY <1>1, <3>1, SameRowsAreSilent DEF Silent
  <2>3. CASE ResumeDispatch \/ OtherAlertPauses
    BY <1>1, <2>3, SameRowsAreSilent DEF ResumeDispatch, OtherAlertPauses, Silent
  <2>4. QED
    BY <1>1, <2>1, <2>2, <2>3 DEF Next
<1>2. Inv /\ [Next]_vars
        => [\A a \in Attempt :
              /\ run[a].status = "RUNNING"
              /\ \/ run'[a].status \in {"COMPLETED", "INCONCLUSIVE"}
                 \/ run'[a].error \in {"reported", "incompatible"}
              => Holds(a)]_vars
  BY <1>1 DEF Recorded
<1>3. QED
  BY <1>2, SpecInv, PTL DEF Spec, OnlyHolderRecordsVerdict

(* A lease that expired is only ever live again under a higher token. *)
THEOREM SpecExpiredLeaseNeedsNewToken == Spec => ExpiredLeaseNeedsNewToken
<1>1. ASSUME Inv, [Next]_vars, NEW a \in Attempt,
             run[a].lease = "expired", run'[a].lease = "live"
      PROVE  run'[a].token > run[a].token
  <2>1. RowStep /\ run \in [Attempt -> RunRow]
    BY <1>1, Steps DEF Inv, Typed, RunsTyped
  <2>2. CASE UNCHANGED <<alert, latest, run>>
    BY <1>1, <2>2
  <2>3. CASE \E row \in RunRow : Closes(row)
    BY <1>1, <2>1, <2>3 DEF Closes
  <2>4. CASE \E b \in Attempt, row \in RunRow : Touches(b, row)
    BY <1>1, <2>1, <2>4 DEF Touches
  <2>5. ASSUME NEW t \in Tasks, NEW rows \in [Attempt -> RunRow], Opens(t, rows)
        PROVE  FALSE
    <3>1. a <= latest
      BY <1>1 DEF Inv, Typed, RowsWellFormed, AbsentRun, Attempt
    <3>2. a # latest + 1
      <4>1. latest \in 0 .. MaxAttempts
        BY <1>1 DEF Inv, Typed
      <4>2. QED
        BY <3>1, <4>1, BoundsAssumption DEF Attempt
    <3>3. rows[a] = run[a] \/ rows[a].lease = "none"
      BY <2>1, <2>5 DEF Opens
    <3>4. QED
      BY <1>1, <2>5, <3>2, <3>3 DEF Opens
  <2>6. QED
    BY <2>1, <2>2, <2>3, <2>4, <2>5 DEF RowStep
<1>2. Inv /\ [Next]_vars
        => [\A a \in Attempt :
              run[a].lease = "expired" /\ run'[a].lease = "live"
                => run'[a].token > run[a].token]_vars
  BY <1>1
<1>3. QED
  BY <1>2, SpecInv, PTL DEF Spec, ExpiredLeaseNeedsNewToken

(* While the dispatch is paused no attempt is opened and none changes hands,
   although tasks that saw it enabled are still on their way.                *)
THEOREM SpecPausedClaimsNothing == Spec => PausedClaimsNothing
<1>1. ASSUME Inv, [Next]_vars, dispatch = "PAUSED"
      PROVE  /\ latest' = latest
             /\ \A a \in Attempt : run'[a].token = run[a].token
  <2>1. RowStep /\ run \in [Attempt -> RunRow]
    BY <1>1, Steps DEF Inv, Typed, RunsTyped
  <2>2. CASE \E row \in RunRow : Closes(row)
    BY <2>1, <2>2 DEF Closes
  <2>3. CASE \E a \in Attempt, row \in RunRow : Touches(a, row)
    BY <1>1, <2>1, <2>3 DEF Touches
  <2>4. QED
    BY <1>1, <2>1, <2>2, <2>3 DEF RowStep, Opens
<1>2. Inv /\ [Next]_vars
        => [dispatch = "PAUSED" =>
              /\ latest' = latest
              /\ \A a \in Attempt : run'[a].token = run[a].token]_vars
  BY <1>1
<1>3. QED
  BY <1>2, SpecInv, PTL DEF Spec, PausedClaimsNothing

(* An alert that has its result gets a new attempt only from a reanalysis,
   never from a task that read the alert before it was decided.              *)
THEOREM SpecOnlyReanalysisReopens == Spec => OnlyReanalysisReopens
<1>1. ASSUME Inv, [Next]_vars, alert \notin {"QUEUED", "ANALYZING"}, latest' # latest
      PROVE  \E t \in Tasks : task[t].pc = "reanalyze" /\ task'[t].att = latest'
  <2>1. ASSUME NEW t \in Tasks, ReanalyzeCreate(t)
        PROVE  task[t].pc = "reanalyze" /\ task'[t].att = latest'
    <3>1. task[t].pc = "reanalyze" /\ latest' = latest + 1
          /\ Claim(t, latest + 1, latest + 1, "claimed")
      BY <2>1 DEF ReanalyzeCreate, InsertRun
    <3>2. task \in [Tasks -> LocalState]
      BY <1>1 DEF Inv, Typed, TasksTyped
    <3>3. QED
      BY <3>1, <3>2 DEF Claim, LocalState, TaskState
  <2>2. ASSUME NEW t \in Tasks, Advance(t), ~ReanalyzeCreate(t)
        PROVE  FALSE
    BY <1>1, <2>2
       DEF Advance, ReclaimNothing, ReclaimCancelled, ReclaimUnrecoverable,
           ReclaimTakesOver, CreateRefused, CreateMeetsExpired, CreateRun,
           ReanalyzeRefused, ReportClaimed, SeeCancellation, AgentReturns, AgentRaises,
           Finalize, FailRun, FailIncompatible, FinalizeRun, FinalizeMeetsCancellation,
           FinalizeLosesLease, FinalizeCancellation
  <2>3. ASSUME NEW t \in Tasks, TaskStep(t), ~Advance(t)
        PROVE  FALSE
    BY <1>1, <2>3
       DEF TaskStep, AnalyzeBegin, ReanalyzeBegin, Heartbeat, SaveCheckpoint, Crash, Restart
  <2>4. QED
    BY <1>1, <2>1, <2>2, <2>3
      DEF Next, LeaseExpires, RequestCancellation, ResumeDispatch, OtherAlertPauses, vars
<1>2. Inv /\ [Next]_vars
        => [alert \notin {"QUEUED", "ANALYZING"} /\ latest' # latest =>
              \E t \in Tasks : task[t].pc = "reanalyze" /\ task'[t].att = latest']_vars
  BY <1>1
<1>3. QED
  BY <1>2, SpecInv, PTL DEF Spec, OnlyReanalysisReopens

-----------------------------------------------------------------------------
(* The refinement: Closes decides the newest attempt, Opens opens the next
   one, and Touches is invisible.                                            *)

LEMMA ContractInit == Init => Contract!Init
BY DEF Init, AbsentRun, Contract!Init, Contract!Attempt, Attempt

LEMMA ContractStep ==
  ASSUME Inv, RowStep
  PROVE  Contract!Next \/ UNCHANGED Contract!vars
<1>1. run \in [Attempt -> RunRow] /\ latest \in 0 .. MaxAttempts
  BY DEF Inv, Typed, RunsTyped
<1>2. CASE UNCHANGED <<alert, latest, run>>
  BY <1>2 DEF Contract!vars
<1>3. ASSUME NEW row \in RunRow, Closes(row)
      PROVE  Contract!Next
  <2>1. latest \in Attempt /\ run[latest].status = "RUNNING"
    BY <1>3, RunningRow DEF Closes, Running
  <2>2. Contract!Decide(latest, row.status)
    BY <1>1, <1>3, <2>1 DEF Closes, Decided, Contract!Decide
  <2>3. QED
    BY <1>3, <2>1, <2>2
       DEF Closes, Decided, Attempt, Contract!Next, Contract!Attempt, Contract!Decisions
<1>4. ASSUME NEW a \in Attempt, NEW row \in RunRow, Touches(a, row)
      PROVE  UNCHANGED Contract!vars
  <2>1. \A b \in Attempt : \/ run'[b] = run[b]
                          \/ run'[b].status = run[b].status
    BY <1>1, <1>4 DEF Touches
  <2>2. QED
    BY <1>4, <2>1 DEF Touches, Contract!vars
<1>5. ASSUME NEW t \in Tasks, NEW rows \in [Attempt -> RunRow], Opens(t, rows)
      PROVE  Contract!Next
  <2>1. PICK new \in Attempt : new = latest + 1
    BY <1>5 DEF Opens
  <2>2. /\ run[new].status = "absent"
        /\ \A b \in Attempt : b < new => run[b].status # "absent"
    BY <1>1, <2>1, BoundsAssumption DEF Inv, RowsWellFormed, AbsentRun, Attempt
  <2>3. run'[new].status = "RUNNING"
    BY <1>5, <2>1 DEF Opens, FreshRun
  <2>4. ASSUME NEW b \in Attempt, b # new
        PROVE  run'[b].status = IF run[b].status = "RUNNING" THEN "FAILED"
                                ELSE run[b].status
    <3>1. run'[b] = rows[b]
      BY <1>5, <2>1, <2>4 DEF Opens
    <3>2. run[b].status = "RUNNING" => Running /\ b = latest
      BY <1>1 DEF Inv, RowsWellFormed, Running, Attempt
    <3>3. QED
      BY <1>1, <1>5, <3>1, <3>2 DEF Opens, Running
  <2> DEFINE Seen(status) == IF status = "RUNNING" THEN "open" ELSE status
             before == [a \in Attempt |-> Seen(run[a].status)]
             after == [a \in Attempt |-> Seen(run'[a].status)]
  <2>5. after = [b \in Attempt |->
                   IF b = new THEN "open"
                   ELSE IF before[b] = "open" THEN "FAILED" ELSE before[b]]
    <3>1. after[new] = "open"
      BY <2>3
    <3>2. ASSUME NEW b \in Attempt, b # new
          PROVE  after[b] = IF before[b] = "open" THEN "FAILED" ELSE before[b]
      <4>1. run[b].status # "open"
        BY <1>1 DEF RunRow, Decided
      <4>2. QED
        BY <2>4, <3>2, <4>1
    <3>3. QED
      BY <3>1, <3>2
  <2>6. before[new] = "absent" /\ \A b \in Attempt : b < new => before[b] # "absent"
    BY <2>2
  <2>7. Contract!Open(new)
    BY <1>5, <2>5, <2>6 DEF Opens, Contract!Open, Contract!Attempt, Attempt
  <2>8. QED
    BY <2>7 DEF Contract!Next, Contract!Attempt, Attempt
<1>6. QED
  BY <1>2, <1>3, <1>4, <1>5 DEF RowStep

(* The runs of an alert, with all their leases, tokens, crashes and races,
   implement the contract of the API: attempts open one after the other and
   each is decided once.                                                     *)
THEOREM SpecImplementsContract == Spec => ImplementsContract
<1>1. Init => Contract!Init
  BY ContractInit
<1>2. Inv /\ [Next]_vars => [Contract!Next]_(Contract!vars)
  BY Steps, ContractStep
<1>3. QED
  BY <1>1, <1>2, SpecInv, PTL DEF Spec, ImplementsContract, Contract!Spec
=============================================================================
