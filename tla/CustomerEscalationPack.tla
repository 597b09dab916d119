------------------------ MODULE CustomerEscalationPack ------------------------
(***************************************************************************)
(* The pack "customer-escalation" (src/scenario-packs/customer-escalation/ *)
(* src): a customer about to leave, a cause to find and a remediation to   *)
(* schedule.  It has no advisors.                                          *)
(***************************************************************************)
EXTENDS ScenarioPack

EscalationParticipants ==
  "account-executive" :>
     Person("human",
            {"acknowledge-escalation", "brief-executive-sponsor", "close-escalation"},
            {"write:account-response", "write:executive-briefing", "write:escalation"},
            {"account", "customer-comms", "executive"})
  @@ "customer-success-lead" :>
     Person("agent",
            {"send-customer-update", "share-recovery-plan", "validate-customer-recovery"},
            {"write:customer-comms", "write:success-plan", "write:customer-validation"},
            {"account", "customer-comms"})
  @@ "engineering-lead" :>
     Person("agent", {"investigate-root-cause", "schedule-remediation"},
            {"read:engineering-investigation", "write:remediation-plan"},
            {"account", "engineering"})
  @@ "executive-sponsor" :>
     Person("agent", {"review-account-risk"}, {"read:executive-briefing"},
            {"account", "executive"})
  @@ "customer-signal-system" :> Person("system", {}, {}, {"account", "customer-comms"})

LOCAL Everybody == DOMAIN EscalationParticipants

LOCAL Flags ==
  {"account.executiveSponsorEngaged", "case.escalationAcknowledged", "case.rootCauseConfirmed",
   "case.recoveryPlanShared", "case.remediationScheduled", "case.remediationCompleted",
   "case.customerValidated", "response.executiveBriefed", "response.customerUpdateSent",
   "response.successPlanAgreed"}
LOCAL Objectives ==
  {"objectives.customerRecovery", "objectives.executiveAlignment",
   "objectives.deliveryConfidence"}

EscalationSchema ==
  [path \in Flags |-> BOOLEAN]
  @@ [path \in Objectives |-> {"healthy", "at-risk", "failed"}]
  @@ "account.riskLevel" :> {"stable", "at-risk", "critical", "recovered"}
  @@ "account.renewalValue" :> Nat
  @@ "account.renewalStatus" :> {"on-track", "at-risk", "critical", "renewed"}
  @@ "account.customerConfidence" :> 0 .. 100
  @@ "response.ownerParticipantId" :> {"undefined"} \cup Everybody

EscalationInitial ==
  [path \in Flags |-> FALSE] @@ [path \in Objectives |-> "healthy"]
  @@ "account.riskLevel" :> "stable" @@ "account.renewalValue" :> 240000
  @@ "account.renewalStatus" :> "on-track" @@ "account.customerConfidence" :> 86
  @@ "response.ownerParticipantId" :> "undefined"

EscalationSignals ==
  [s \in {"customer-escalation-opened", "recovery-plan-shared", "remediation-complete",
          "renewal-risk-escalated"} |-> {"account"}]
  @@ [s \in {"root-cause-confirmed", "remediation-scheduled"} |-> {"engineering"}]
  @@ [s \in {"customer-confidence-drop", "customer-update-sent",
             "customer-recovery-validated"} |-> {"customer-comms"}]
  @@ "executive-risk-alert" :> {"executive"}

LOCAL Acknowledged == {Is("case.escalationAcknowledged", TRUE)}
LOCAL CustomerSide == {"account-executive", "customer-success-lead", "customer-signal-system"}

\* The actions that take the escalation up.
EscalationResponse ==
  "acknowledge-escalation" :>
     Action("acknowledge-escalation", "write:account-response", "account", FALSE, {},
            <<Sets("case.escalationAcknowledged", TRUE),
              Sets("response.ownerParticipantId", "account-executive")>>)
  @@ "investigate-root-cause" :>
     Action("investigate-root-cause", "read:engineering-investigation", "engineering", FALSE,
            Acknowledged, <<Metric>>)
  @@ "brief-executive-sponsor" :>
     Action("brief-executive-sponsor", "write:executive-briefing", "executive", FALSE,
            Acknowledged,
            <<Sets("response.executiveBriefed", TRUE),
              Sets("account.executiveSponsorEngaged", TRUE),
              Sets("objectives.executiveAlignment", "healthy")>>)
  @@ "send-customer-update" :>
     Action("send-customer-update", "write:customer-comms", "customer-comms", FALSE,
            Acknowledged,
            <<Sets("response.customerUpdateSent", TRUE), Sets("account.customerConfidence", 58),
              Emits("customer-update-sent", CustomerSide)>>)
  @@ "share-recovery-plan" :>
     Action("share-recovery-plan", "write:success-plan", "customer-comms", FALSE,
            {Is("case.rootCauseConfirmed", TRUE), Is("response.customerUpdateSent", TRUE)},
            <<Sets("case.recoveryPlanShared", TRUE), Sets("response.successPlanAgreed", TRUE),
              Sets("account.customerConfidence", 72), Emits("recovery-plan-shared", Everybody)>>)

\* The remediation, its validation and the end.
EscalationRemediation ==
  "schedule-remediation" :>
     Action("schedule-remediation", "write:remediation-plan", "engineering", TRUE,
            {Is("case.rootCauseConfirmed", TRUE), Is("response.executiveBriefed", TRUE),
             Is("case.recoveryPlanShared", TRUE)},
            <<Sets("case.remediationScheduled", TRUE),
              Emits("remediation-scheduled", {"engineering-lead"}),
              Schedules("remediation-complete", 2)>>)
  @@ "validate-customer-recovery" :>
     Action("validate-customer-recovery", "write:customer-validation", "customer-comms", FALSE,
            {Is("case.remediationCompleted", TRUE), Is("case.recoveryPlanShared", TRUE)},
            <<Sets("case.customerValidated", TRUE), Sets("account.customerConfidence", 91),
              Sets("account.riskLevel", "recovered"), Sets("account.renewalStatus", "on-track"),
              Sets("objectives.customerRecovery", "healthy"),
              Emits("customer-recovery-validated", CustomerSide)>>)
  @@ "close-escalation" :>
     Action("close-escalation", "write:escalation", "account", FALSE,
            {Is(path, TRUE) : path \in {"case.customerValidated", "response.executiveBriefed",
               "response.customerUpdateSent", "case.remediationCompleted"}},
            <<Complete>>)

\* Mutant: the inject that confirms the cause waits for its own effect.
ConfirmedByItself == {Is("case.rootCauseConfirmed", TRUE)}
CauseFound == {Did("engineering-lead", "investigate-root-cause")}

EscalationInjects ==
  <<Inject("customer-escalation-opened", {Occurred("run.started")},
      <<Sets("account.riskLevel", "critical"), Sets("account.renewalStatus", "at-risk"),
        Sets("account.customerConfidence", 38), Sets("objectives.customerRecovery", "at-risk"),
        Sets("objectives.executiveAlignment", "at-risk"),
        Sets("objectives.deliveryConfidence", "failed"),
        Emits("customer-escalation-opened", Everybody)>>),
    Inject("root-cause-confirmed", CauseFound,
      <<Sets("case.rootCauseConfirmed", TRUE),
        Emits("root-cause-confirmed", {"engineering-lead"})>>),
    Inject("executive-risk-alert", {Elapsed(2), IsNot("response.executiveBriefed", TRUE)},
      <<Emits("executive-risk-alert", {"account-executive", "executive-sponsor"})>>),
    Inject("customer-confidence-drop", {Elapsed(3), IsNot("response.customerUpdateSent", TRUE)},
      <<Sets("account.customerConfidence", 20), Emits("customer-confidence-drop", CustomerSide)>>),
    Inject("renewal-risk-escalation", {Elapsed(4), IsNot("case.recoveryPlanShared", TRUE)},
      <<Sets("account.renewalStatus", "critical"), Emits("renewal-risk-escalated", Everybody)>>),
    Inject("remediation-complete", NoTrigger,
      <<Sets("case.remediationCompleted", TRUE), Sets("objectives.deliveryConfidence", "healthy"),
        Emits("remediation-complete", Everybody)>>)>>

EscalationEvaluators ==
  "response-ownership" :>
     [full |-> Acknowledged \cup {Assigned("response.ownerParticipantId")}]
  @@ "executive-alignment" :>
     [full |-> {Is("response.executiveBriefed", TRUE),
                Is("account.executiveSponsorEngaged", TRUE)}]
  @@ "customer-communication" :>
     [full |-> {Is("response.customerUpdateSent", TRUE), Is("case.recoveryPlanShared", TRUE),
                Is("case.customerValidated", TRUE)}]
  @@ "remediation-execution" :>
     [full |-> {Is("case.rootCauseConfirmed", TRUE), Is("case.remediationScheduled", TRUE),
                Is("case.remediationCompleted", TRUE)}]
  @@ "recovery-validation" :>
     [full |-> {Is("account.riskLevel", "recovered"), AtLeast("account.customerConfidence", 90),
                Is("case.customerValidated", TRUE)}]

EscalationPack ==
  [participants |-> EscalationParticipants, signals |-> EscalationSignals,
   actions |-> EscalationResponse @@ EscalationRemediation,
   injects |-> EscalationInjects, advisors |-> {}, evaluators |-> EscalationEvaluators,
   initial |-> EscalationInitial, schema |-> EscalationSchema, defaults |-> <<>>,
   optional |-> {"response.ownerParticipantId"},
   shown |-> {"account.riskLevel", "account.renewalValue", "account.customerConfidence",
              "case.remediationCompleted", "account.renewalStatus"}]
=============================================================================
