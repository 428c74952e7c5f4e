------------------------------ MODULE AlertIntake ------------------------------
(***************************************************************************)
(* How alerts come in and go out: the FlashDuty poller, which reads a      *)
(* window of the server's alerts page by page and stores what it fetched,  *)
(* an administrator's manual poll beside it, the switch that starts and    *)
(* stops the poller's task, and the weekly retention.                      *)
(*                                                                         *)
(* The server keeps the alerts in the order it created them, which is the  *)
(* order of its cursor; an alert may be created later than it occurred.    *)
(* An analysis is abstracted to the step that settles the alert.           *)
(***************************************************************************)
EXTENDS Absence, Naturals, FiniteSets, Sequences

CONSTANTS
  Alerts,
  Background, Manual,     \* the two polls
  Lookback,               \* flashduty_poll_lookback_seconds
  Retention,              \* alert_retention_days
  PageSize,               \* limit of /alert/list
  PollTime,               \* bound on the time a poll takes
  MaxTime,                \* bound on the clock
  MaxSwitches             \* bound on changes of flashduty_polling_enabled

ASSUME IntakeAssumption ==
  /\ Lookback \in Nat /\ Retention \in Nat /\ PollTime \in Nat
  /\ PageSize \in Nat \ {0} /\ MaxTime \in Nat /\ MaxSwitches \in Nat
  /\ "no" \notin Alerts

Polls == {Background, Manual}

VARIABLES
  now,
  feed,        \* FlashDuty: <<alert, time it occurred>> in the order of creation
  row,         \* AlertRow, per alert
  created,     \* how often a row was inserted for the alert
  poll,        \* per poll, where it is and what it has fetched
  lock,        \* _poll_lock
  state,       \* FlashDutyPollStateRow.status
  enabled,     \* polling_enabled in the poller's settings
  task,        \* _task of the poller: "none", "running" or "cancelled"
  sync         \* a sync_settings waiting for the task to stop; switches made

intakeVars == <<now, feed, row, created, poll, lock, state, enabled, task, sync>>

NoRow == [status |-> "absent", at |-> 0]
NoPoll == [pc |-> "idle", from |-> 0, to |-> 0, cursor |-> 0, fetched |-> {}, total |-> 0,
           found |-> "no", failed |-> FALSE, owed |-> {}]

IntakeInit ==
  /\ now = 0 /\ feed = <<>>
  /\ row = [a \in Alerts |-> NoRow] /\ created = [a \in Alerts |-> 0]
  /\ poll = [p \in Polls |-> NoPoll] /\ lock = None /\ state = "NEVER"
  /\ enabled = TRUE /\ task = "running" /\ sync = [stopping |-> FALSE, switches |-> 0]

-----------------------------------------------------------------------------
(* The world: time passes, but no poll takes longer than PollTime. *)
Tick ==
  /\ now < MaxTime /\ now' = now + 1
  /\ \A p \in Polls : poll[p].pc # "idle" => now' <= poll[p].to + PollTime
  /\ UNCHANGED <<feed, row, created, poll, lock, state, enabled, task, sync>>

Fed == {feed[i][1] : i \in 1 .. Len(feed)}

(* FlashDuty creates an alert that occurred now or a little earlier. *)
Occurs(a, time) ==
  /\ a \notin Fed /\ time \in {now, now - 1} \cap Nat
  /\ feed' = Append(feed, <<a, time>>)
  /\ UNCHANGED <<now, row, created, poll, lock, state, enabled, task, sync>>

(* Its run ends, or the severity filter keeps it from having one. *)
Settles(a) ==
  /\ row[a].status = "QUEUED"
  /\ row' = [row EXCEPT ![a].status = "SETTLED"]
  /\ UNCHANGED <<now, feed, created, poll, lock, state, enabled, task, sync>>

(* cleanup_expired_alerts *)
Expired(a) == row[a].status = "SETTLED" /\ row[a].at + Retention < now

Clean ==
  /\ \E a \in Alerts : Expired(a)
  /\ row' = [a \in Alerts |-> IF Expired(a) THEN NoRow ELSE row[a]]
  /\ UNCHANGED <<now, feed, created, poll, lock, state, enabled, task, sync>>

-----------------------------------------------------------------------------
(* poll_window records the start of its window and waits for the lock. *)
Start(p) ==
  /\ poll[p].pc = "idle" /\ (p = Background => task = "running")
  /\ poll' = [poll EXCEPT ![p] =
                [NoPoll EXCEPT !.pc = "waiting", !.to = now,
                               !.from = IF now < Lookback THEN 0 ELSE now - Lookback]]
  /\ UNCHANGED <<now, feed, row, created, lock, state, enabled, task, sync>>

Acquire(p) ==
  /\ poll[p].pc = "waiting" /\ lock = None
  /\ lock' = p
  /\ poll' = [poll EXCEPT ![p].pc = "fetching"]
  /\ UNCHANGED <<now, feed, row, created, state, enabled, task, sync>>

InWindow(p, i) == feed[i][2] >= poll[p].from /\ feed[i][2] <= poll[p].to
Window(p) == {i \in 1 .. Len(feed) : InWindow(p, i)}

(* The server's page after the cursor, oldest first. *)
Page(p) ==
  {i \in Window(p) :
     /\ i > poll[p].cursor
     /\ Cardinality({j \in Window(p) : j > poll[p].cursor /\ j < i}) < PageSize}

Most(m, n) == IF m >= n THEN m ELSE n

Fails(p) ==
  /\ lock' = None /\ state' = "FAILED"
  /\ poll' = [poll EXCEPT ![p] = NoPoll]

(* Mutant: the fetched alerts are not counted against the total. *)
AllPagesIgnoringTotal(fetched, total) == TRUE

(* The pages are complete if they hold as many alerts as were announced. *)
AllPages(fetched, total) == Cardinality(fetched) >= total

(* _fetch_complete_window, one page.  The server may say too early that there
   is no further page.                                                     *)
FetchPage(p) ==
  /\ poll[p].pc = "fetching"
  /\ LET page == Page(p)
         fetched == poll[p].fetched \cup {feed[i][1] : i \in page}
         total == Most(poll[p].total, Cardinality(Window(p)))
         more == \E i \in Window(p) : i > poll[p].cursor /\ i \notin page
     IN \E hasNext \in {more, FALSE} :
          IF hasNext
            THEN /\ poll' = [poll EXCEPT ![p].cursor = CHOOSE i \in page : \A j \in page : j <= i,
                                         ![p].fetched = fetched, ![p].total = total]
                 /\ UNCHANGED <<lock, state>>
          ELSE IF AllPages(fetched, total)
            THEN /\ poll' = [poll EXCEPT ![p].pc = "storing", ![p].fetched = fetched,
                                         ![p].owed = {feed[i][1] : i \in Window(p)}]
                 /\ UNCHANGED <<lock, state>>
          ELSE Fails(p)
  /\ UNCHANGED <<now, feed, row, created, enabled, task, sync>>

(* list_alerts gives up after its retries, or a page is malformed. *)
FetchFails(p) ==
  /\ poll[p].pc = "fetching" /\ Fails(p)
  /\ UNCHANGED <<now, feed, row, created, enabled, task, sync>>

-----------------------------------------------------------------------------
Inserted(a) ==
  /\ row' = [row EXCEPT ![a] = [status |-> "QUEUED", at |-> now]]
  /\ created' = [created EXCEPT ![a] = @ + 1]

Stored(p, a) == poll' = [poll EXCEPT ![p].fetched = @ \ {a}, ![p].found = "no"]

(* create_or_get looks the identity up, *)
Find(p, a) ==
  /\ poll[p].pc = "storing" /\ a \in poll[p].fetched /\ poll[p].found = "no"
  /\ IF row[a] # NoRow THEN Stored(p, a)
                       ELSE poll' = [poll EXCEPT ![p].found = a]
  /\ UNCHANGED <<now, feed, row, created, lock, state, enabled, task, sync>>

(* Mutant: without the unique identity the row is inserted a second time. *)
InsertAnyway(p, a) ==
  /\ poll[p].found = a
  /\ Inserted(a)
  /\ Stored(p, a)
  /\ UNCHANGED <<now, feed, lock, state, enabled, task, sync>>

(* and inserts a row, unless another ingestion was faster. *)
Insert(p, a) ==
  /\ poll[p].found = a
  /\ IF row[a] # NoRow THEN UNCHANGED <<row, created>> ELSE Inserted(a)
  /\ Stored(p, a)
  /\ UNCHANGED <<now, feed, lock, state, enabled, task, sync>>

(* Any error of one alert is noted, and the others are stored. *)
StoreFails(p, a) ==
  /\ poll[p].pc = "storing" /\ a \in poll[p].fetched /\ poll[p].found \in {"no", a}
  /\ poll' = [poll EXCEPT ![p].fetched = @ \ {a}, ![p].found = "no", ![p].failed = TRUE]
  /\ UNCHANGED <<now, feed, row, created, lock, state, enabled, task, sync>>

(* The API process that is being replaced stores the alert from its own poll,
   which the lock of this process does not hold back.                      *)
StoredElsewhere(a) ==
  /\ a \in Fed /\ row[a] = NoRow /\ created[a] = 0
  /\ Inserted(a)
  /\ UNCHANGED <<now, feed, poll, lock, state, enabled, task, sync>>

Finish(p) ==
  /\ poll[p].pc = "storing" /\ poll[p].fetched = {}
  /\ lock' = None
  /\ state' = IF poll[p].failed THEN "FAILED" ELSE "SUCCESS"
  /\ poll' = [poll EXCEPT ![p] = NoPoll]
  /\ UNCHANGED <<now, feed, row, created, enabled, task, sync>>

-----------------------------------------------------------------------------
(* sync_settings: the transition starts the task, or cancels it and waits. *)
Switch ==
  /\ sync.switches < MaxSwitches
  /\ enabled' = ~enabled
  /\ task' = IF enabled' /\ task = "none" THEN "running"
             ELSE IF ~enabled' /\ task = "running" THEN "cancelled" ELSE task
  /\ sync' = [stopping |-> sync.stopping \/ (~enabled' /\ task # "none"),
              switches |-> sync.switches + 1]
  /\ UNCHANGED <<now, feed, row, created, poll, lock, state>>

(* The cancelled poll unwinds, releases the lock, and stop() returns. *)
Stopped ==
  /\ sync.stopping
  /\ task' = "none"
  /\ sync' = [sync EXCEPT !.stopping = FALSE]
  /\ poll' = [poll EXCEPT ![Background] = NoPoll]
  /\ lock' = IF lock = Background THEN None ELSE lock
  /\ UNCHANGED <<now, feed, row, created, state, enabled>>

(* The administrator's request is given up. *)
Disconnect ==
  /\ poll[Manual].pc # "idle"
  /\ poll' = [poll EXCEPT ![Manual] = NoPoll]
  /\ lock' = IF lock = Manual THEN None ELSE lock
  /\ UNCHANGED <<now, feed, row, created, state, enabled, task, sync>>

-----------------------------------------------------------------------------
IntakeNext ==
  \/ Tick \/ Clean \/ Switch \/ Stopped \/ Disconnect
  \/ \E a \in Alerts : Settles(a) \/ StoredElsewhere(a) \/ \E time \in 0 .. MaxTime : Occurs(a, time)
  \/ \E p \in Polls :
       \/ Start(p) \/ Acquire(p) \/ FetchPage(p) \/ FetchFails(p) \/ Finish(p)
       \/ \E a \in Alerts : Find(p, a) \/ Insert(p, a) \/ StoreFails(p, a)

IntakeSpec == IntakeInit /\ [][IntakeNext]_intakeVars

-----------------------------------------------------------------------------
(* docs/flashduty-polling/README.md:152-154.  A poll that reports success has
   stored every alert of its window that FlashDuty had when the last page was
   read, whatever the server said of its pages and whatever failed.         *)
SuccessIsComplete ==
  [][\A p \in Polls :
       Finish(p) /\ state' = "SUCCESS" => \A a \in poll[p].owed : created[a] > 0]_intakeVars

(* docs/flashduty-polling/README.md:115-128.  However often windows overlap,
   polls run beside each other, in this process or another, an alert is stored
   once.  It needs an alert to be kept for longer than a poll looks back,
   Lookback + PollTime <= Retention: README, section 7.                     *)
StoredOnce == \A a \in Alerts : created[a] <= 1

(* scheduler.py:149 "A polling_enabled transition starts or stops the
   background task": once it is through, the task is there if enabled.  Two
   that overlap break it: README, section 4.                                *)
TaskFollowsTheSetting == ~sync.stopping => (enabled <=> task = "running")
=============================================================================
