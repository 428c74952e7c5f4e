------------------------ MODULE InvestigationContract ------------------------
(***************************************************************************)
(* What the investigation of one alert promises to a reader of the API,    *)
(* with no processes, leases, tokens or checkpoints: attempts are opened   *)
(* one after the other, at most one is open, an open attempt is decided    *)
(* exactly once, and the alert shows the state of its newest attempt.      *)
(* RunLifecycle is shown to implement this module.                         *)
(***************************************************************************)
EXTENDS Naturals

CONSTANT MaxAttempts        \* bound on the attempts of the alert

VARIABLES
  verdict,                  \* [Attempt -> Verdict], the attempts of the alert
  shown                     \* the alert status the API returns

vars == <<verdict, shown>>

Attempt == 1 .. MaxAttempts
Decisions == {"COMPLETED", "INCONCLUSIVE", "FAILED", "CANCELLED"}

Init ==
  /\ verdict = [a \in Attempt |-> "absent"]
  /\ shown \in {"QUEUED", "FILTERED"}

(* A new attempt is opened right after the newest one; an attempt that is
   still open is superseded, which the reader sees as FAILED.             *)
Open(a) ==
  /\ verdict[a] = "absent"
  /\ \A b \in Attempt : b < a => verdict[b] # "absent"
  /\ verdict' = [b \in Attempt |->
                   IF b = a THEN "open"
                   ELSE IF verdict[b] = "open" THEN "FAILED" ELSE verdict[b]]
  /\ shown' = "ANALYZING"

Decide(a, d) ==
  /\ verdict[a] = "open"
  /\ verdict' = [verdict EXCEPT ![a] = d]
  /\ shown' = d

Next == \E a \in Attempt : Open(a) \/ \E d \in Decisions : Decide(a, d)

Spec == Init /\ [][Next]_vars
=============================================================================
