--------------------------- MODULE AtMostOnceCall ---------------------------
(***************************************************************************)
(* What the durable dispatcher promises about one tool action of a run:    *)
(* the remote tool is called at most once, one result is decided, and the  *)
(* result never claims more than what happened.  OuterDispatch is shown to *)
(* implement this module.                                                  *)
(***************************************************************************)

EXTENDS Naturals

VARIABLES
  calls,        \* remote calls begun
  result        \* the evidence every reader sees, "none" until decided

vars == <<calls, result>>

Results == {"ok", "failed", "timeout", "expired", "unknown"}

Init == calls = 0 /\ result = "none"

(* A call may still go out after its outcome was given up as unknown. *)
Call ==
  /\ calls = 0 /\ result \in {"none", "unknown"}
  /\ calls' = 1
  /\ UNCHANGED result

(* An answer needs a call; "expired" states that there was none. *)
Decide(r) ==
  /\ result = "none"
  /\ r \in {"ok", "failed"} => calls = 1
  /\ r = "expired" => calls = 0
  /\ result' = r
  /\ UNCHANGED calls

Next == Call \/ \E r \in Results : Decide(r)

Spec == Init /\ [][Next]_vars
=============================================================================
