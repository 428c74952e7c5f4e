-------------------------- MODULE MCAdministration --------------------------
(***************************************************************************)
(* Components that run beside one another, for one run of TLC: the runtime *)
(* settings, the intake of alerts, the requests to the model, the metrics  *)
(* and the declared investigation, what their results are worth, the       *)
(* conclusion, and the notification outbox.  A behaviour is one of the     *)
(* component that "part" names, while the others rest in their initial     *)
(* states.                                                                 *)
(***************************************************************************)
EXTENDS RuntimeSettings, AlertIntake, PrometheusInvestigation, GenericInvestigation,
        EvidenceUnits, Conclusion, ModelClient, NotificationOutbox, TLC

VARIABLE part

MCInit ==
  /\ part \in {"report", "settings", "intake", "metrics", "declared", "client", "units", "outbox"}
  /\ IF part = "report" THEN ConclusionInit
     ELSE evidence = None /\ analysis = None /\ judged = "none"
  /\ IF part = "client" THEN ClientInit
     ELSE request = [at |-> "resting"] /\ reply = None /\ heard = None /\ outcome = None
  /\ IF part = "units" THEN UnitsInit
     ELSE source = None /\ work = None /\ failures = None /\ record = None
  /\ Init /\ IntakeInit /\ MetricsInit /\ GenericInit /\ OutboxInit

MCNext ==
  \/ /\ part = "report" /\ ConclusionNext
     /\ UNCHANGED <<part, intakeVars, settingsVars, metricVars, genericVars, clientVars, unitVars, outboxVars>>
  \/ /\ part = "intake" /\ IntakeNext
     /\ UNCHANGED <<part, conclusionVars, settingsVars, metricVars, genericVars, clientVars, unitVars, outboxVars>>
  \/ /\ part = "settings" /\ Next
     /\ UNCHANGED <<part, conclusionVars, intakeVars, metricVars, genericVars, clientVars, unitVars, outboxVars>>
  \/ /\ part = "metrics" /\ MetricsNext
     /\ UNCHANGED <<part, conclusionVars, intakeVars, settingsVars, genericVars, clientVars, unitVars, outboxVars>>
  \/ /\ part = "declared" /\ GenericNext
     /\ UNCHANGED <<part, conclusionVars, intakeVars, settingsVars, metricVars, clientVars, unitVars, outboxVars>>
  \/ /\ part = "client" /\ ClientNext
     /\ UNCHANGED <<part, conclusionVars, intakeVars, settingsVars, metricVars, genericVars, unitVars, outboxVars>>
  \/ /\ part = "units" /\ UnitsNext
     /\ UNCHANGED <<part, conclusionVars, intakeVars, settingsVars, metricVars, genericVars, clientVars, outboxVars>>
  \/ /\ part = "outbox" /\ OutboxNext
     /\ UNCHANGED <<part, conclusionVars, intakeVars, settingsVars, metricVars, genericVars, clientVars, unitVars>>

MCSpec ==
  MCInit /\ [][MCNext]_<<part, conclusionVars, intakeVars, settingsVars, metricVars,
                         genericVars, clientVars, unitVars, outboxVars>>

\* Histories of a row, of two rows with one id, and of two rows.
Entry(id, sample) == [id |-> id, sample |-> sample]
MCHistories ==
  { <<Entry(1, "full")>>, <<Entry(1, "cut")>>, <<Entry(1, "none")>>,
    <<Entry(1, "full"), Entry(1, "cut")>>, <<Entry(1, "full"), Entry(2, "full")>> }

\* The alerts of the intake and the cycles of the outbox are interchangeable.
Symmetry == Permutations(Alerts) \cup Permutations(Workers)

=============================================================================
