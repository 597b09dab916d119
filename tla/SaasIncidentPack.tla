--------------------------- MODULE SaasIncidentPack ---------------------------
(***************************************************************************)
(* The pack "saas-incident" (src/scenario-packs/saas-incident/src): a      *)
(* payment service fails, retries and duplicate charges follow, and three  *)
(* teams bring it back.  Rates are in thousandths.                         *)
(***************************************************************************)
EXTENDS ScenarioPack

SaasParticipants ==
  "incident-commander" :>
     Person("human",
            {"declare-incident", "coordinate-response", "brief-executives", "close-incident"},
            {"write:incident", "write:status-page", "write:executive-briefing"},
            {"incident", "metrics", "customer-impact"})
  @@ "on-call-engineer" :>
     Person("agent",
            {"inspect-metrics", "mitigate-service", "freeze-payment-retries",
             "start-rollback", "contact-provider", "verify-recovery"},
            {"read:metrics", "write:payment-writes", "write:payment-retries",
             "write:deployment", "write:provider-ticket"},
            {"incident", "metrics", "provider"})
  @@ "customer-support-lead" :>
     Person("agent",
            {"publish-status", "notify-customers", "reconcile-duplicate-charges"},
            {"write:status-page", "write:customer-comms", "write:financial-remediation"},
            {"incident", "customer-impact"})
  @@ "executive-stakeholder" :>
     Person("agent", {"review-impact"}, {"read:incident"}, {"incident", "customer-impact"})
  @@ "monitoring-system" :> Person("system", {}, {}, {"metrics", "incident"})
  @@ "payment-provider" :>
     Person("agent", {"provide-provider-update"}, {"read:provider"}, {"provider", "incident"})

LOCAL Flags ==
  {"service.writesDisabled", "service.retryTrafficFrozen", "service.rollbackStarted",
   "service.providerIncidentConfirmed", "service.recovered", "impact.duplicateChargesDetected",
   "response.incidentDeclared", "response.statusPagePublished", "response.customerCommsSent",
   "response.providerContacted", "response.executiveBriefed", "response.reconciliationStarted",
   "response.reconciliationCompleted", "response.recoveryVerified"}
LOCAL Level == {"healthy", "at-risk", "failed"}
LOCAL Rate == 0 .. 1000

SaasSchema ==
  [path \in Flags |-> BOOLEAN]
  @@ [path \in {"service.latencyP95Ms", "impact.affectedCustomers",
                "impact.estimatedRevenueLoss", "impact.duplicateChargeCount",
                "impact.supportQueueDepth"} |-> Nat]
  @@ [path \in {"objectives.serviceAvailability", "objectives.customerTrust",
                "objectives.financialIntegrity"} |-> Level]
  @@ [path \in {"service.paymentSuccessRate", "service.errorRate"} |-> Rate]
  @@ "service.providerStatus" :> {"unknown", "degraded", "recovering", "healthy"}
  @@ "response.severity" :> {"unknown", "sev3", "sev2", "sev1"}
  @@ "response.ownerParticipantId" :> {"null"} \cup DOMAIN SaasParticipants

\* The owner is null and not undefined, so that JSON keeps its path.
SaasInitial ==
  [path \in Flags |-> FALSE]
  @@ [path \in {"impact.affectedCustomers", "impact.estimatedRevenueLoss",
                "impact.duplicateChargeCount", "impact.supportQueueDepth"} |-> 0]
  @@ [path \in {"objectives.serviceAvailability", "objectives.customerTrust",
                "objectives.financialIntegrity"} |-> "healthy"]
  @@ "service.paymentSuccessRate" :> 998 @@ "service.errorRate" :> 2
  @@ "service.latencyP95Ms" :> 280 @@ "service.providerStatus" :> "unknown"
  @@ "response.severity" :> "unknown" @@ "response.ownerParticipantId" :> "null"

SaasSignals ==
  [s \in {"payment-service-outage", "retry-traffic-surge", "payment-writes-disabled",
          "payment-retries-frozen", "recovery-verified"} |-> {"incident"}]
  @@ [s \in {"provider-response-delayed", "provider-contacted",
             "provider-recovery-update"} |-> {"provider"}]
  @@ [s \in {"support-queue-spike", "duplicate-charge-risk", "executive-escalation",
             "reconciliation-started"} |-> {"customer-impact"}]
  @@ "monitoring-confirmed" :> {"metrics"}

SaasAdvisors ==
  {[advisor |-> "on-call-engineer",
    events |-> {"run.started", "inject.triggered", "signal.emitted", "action.executed",
                "action.rejected", "action.approved", "action.denied",
                "action.approval_expired", "clock.advanced"},
    injects |-> {}, signals |-> {},
    permissions |-> {<<"incident-commander", "declare-incident">>}
      \cup {"on-call-engineer"} \X {"inspect-metrics", "freeze-payment-retries",
              "disable-payment-writes", "contact-provider", "start-rollback",
              "verify-recovery"}],
   [advisor |-> "customer-support-lead",
    events |-> {"run.started", "inject.triggered", "signal.emitted", "action.executed",
                "action.approved", "action.denied", "action.approval_expired"},
    injects |-> {}, signals |-> {},
    permissions |-> {"customer-support-lead"} \X {"publish-status", "notify-customers",
                      "start-duplicate-charge-reconciliation"}],
   [advisor |-> "executive-stakeholder",
    events |-> {"run.started", "inject.triggered", "signal.emitted", "action.approved",
                "action.denied", "clock.advanced"},
    injects |-> {}, signals |-> {},
    permissions |-> {<<"incident-commander", "brief-executives">>}],
   [advisor |-> "payment-provider",
    events |-> {"signal.emitted", "inject.triggered"},
    injects |-> {"provider-status-update"},
    signals |-> {"provider-contacted", "provider-recovery-update"},
    permissions |-> {<<"on-call-engineer", "verify-recovery">>}]}

LOCAL Declared == Is("response.incidentDeclared", TRUE)

\* The actions that contain the incident.
SaasContainment ==
  "declare-incident" :>
     Action("declare-incident", "write:incident", "incident", FALSE, {},
            <<Sets("response.incidentDeclared", TRUE), Sets("response.severity", "sev1"),
              Sets("response.ownerParticipantId", "incident-commander")>>)
  @@ "inspect-metrics" :>
     Action("inspect-metrics", "read:metrics", "metrics", FALSE,
            {IsNot("service.providerIncidentConfirmed", TRUE)}, <<Metric>>)
  @@ "freeze-payment-retries" :>
     Action("freeze-payment-retries", "write:payment-retries", "incident", TRUE, {Declared},
            <<Sets("service.retryTrafficFrozen", TRUE),
              Emits("payment-retries-frozen", {"incident-commander", "customer-support-lead"})>>)
  @@ "disable-payment-writes" :>
     Action("mitigate-service", "write:payment-writes", "incident", TRUE, {Declared},
            <<Sets("service.writesDisabled", TRUE),
              Emits("payment-writes-disabled",
                    {"incident-commander", "customer-support-lead", "executive-stakeholder"})>>)
  @@ "start-rollback" :>
     Action("start-rollback", "write:deployment", "incident", TRUE,
            {Declared, Is("service.writesDisabled", TRUE)},
            <<Sets("service.rollbackStarted", TRUE),
              Sets("service.providerStatus", "recovering"),
              Schedules("recovery-complete", 2)>>)
  @@ "contact-provider" :>
     Action("contact-provider", "write:provider-ticket", "provider", FALSE, {Declared},
            <<Sets("response.providerContacted", TRUE),
              Emits("provider-contacted", {"on-call-engineer", "payment-provider"}),
              Schedules("provider-status-update", 1)>>)

\* Mutant: the incident closes without a word to the customers.
ClosesInSilence ==
  {Is(path, TRUE) : path \in {"service.recovered", "response.recoveryVerified",
     "response.statusPagePublished", "response.executiveBriefed",
     "response.reconciliationCompleted"}}
\* What the incident waits for before it can be closed.
SaasClosing ==
  {Is(path, TRUE) : path \in {"service.recovered", "response.recoveryVerified",
     "response.statusPagePublished", "response.customerCommsSent",
     "response.executiveBriefed", "response.reconciliationCompleted"}}

\* The actions that inform, repair and close.
SaasRecovery ==
  "publish-status" :>
     Action("publish-status", "write:status-page", "incident", FALSE, {Declared},
            <<Sets("response.statusPagePublished", TRUE)>>)
  @@ "notify-customers" :>
     Action("notify-customers", "write:customer-comms", "customer-impact", FALSE,
            {Is("response.statusPagePublished", TRUE), AtLeast("impact.affectedCustomers", 4800)},
            <<Sets("response.customerCommsSent", TRUE)>>)
  @@ "brief-executives" :>
     Action("brief-executives", "write:executive-briefing", "customer-impact", FALSE, {Declared},
            <<Sets("response.executiveBriefed", TRUE)>>)
  @@ "start-duplicate-charge-reconciliation" :>
     Action("reconcile-duplicate-charges", "write:financial-remediation", "customer-impact",
            FALSE, {Is("impact.duplicateChargesDetected", TRUE)},
            <<Sets("response.reconciliationStarted", TRUE),
              Emits("reconciliation-started", {"incident-commander", "executive-stakeholder"}),
              Schedules("reconciliation-complete", 1)>>)
  @@ "verify-recovery" :>
     Action("verify-recovery", "read:metrics", "metrics", FALSE, {Is("service.recovered", TRUE)},
            <<Sets("response.recoveryVerified", TRUE),
              Emits("recovery-verified", {"incident-commander"}),
              Sets("objectives.serviceAvailability", "healthy")>>)
  @@ "close-incident" :>
     Action("close-incident", "write:incident", "incident", FALSE,
            SaasClosing, <<Complete>>)

\* The injects of the first minutes: the outage and what grows while it lasts.
SaasEscalation ==
  <<Inject("payment-service-outage", {Occurred("run.started")},
      <<Sets("service.paymentSuccessRate", 530), Sets("service.errorRate", 470),
        Sets("service.latencyP95Ms", 5800), Sets("service.providerStatus", "degraded"),
        Sets("impact.affectedCustomers", 4800), Sets("impact.estimatedRevenueLoss", 38000),
        Sets("objectives.serviceAvailability", "failed"),
        Sets("objectives.customerTrust", "at-risk"),
        Emits("payment-service-outage", {"incident-commander", "on-call-engineer",
              "customer-support-lead", "executive-stakeholder"})>>),
    Inject("monitoring-confirmation", {Did("on-call-engineer", "inspect-metrics")},
      <<Sets("service.providerIncidentConfirmed", TRUE),
        Emits("monitoring-confirmed", {"incident-commander", "on-call-engineer"})>>),
    Inject("retry-traffic-surge", {Elapsed(2), IsNot("service.retryTrafficFrozen", TRUE)},
      <<Adds("impact.affectedCustomers", 1200), Adds("impact.estimatedRevenueLoss", 14000),
        Emits("retry-traffic-surge", {"incident-commander", "on-call-engineer"})>>),
    Inject("provider-response-delay", {Elapsed(3), IsNot("response.providerContacted", TRUE)},
      <<Adds("impact.estimatedRevenueLoss", 9000),
        Emits("provider-response-delayed", {"on-call-engineer"})>>),
    Inject("support-queue-spike", {Elapsed(4)},
      <<Sets("impact.supportQueueDepth", 640),
        Emits("support-queue-spike", {"customer-support-lead", "incident-commander"})>>)>>

\* Mutant: the rate of success is given in percent, out of the schema's range.
RecoversInPercent ==
  <<Sets("service.paymentSuccessRate", 99900), Sets("service.recovered", TRUE)>>
ServiceRecovers ==
  <<Sets("service.paymentSuccessRate", 999), Sets("service.errorRate", 1),
    Sets("service.latencyP95Ms", 310), Sets("service.providerStatus", "healthy"),
    Sets("service.recovered", TRUE)>>

\* The injects of the later minutes and those that only a schedule fires.
SaasResolution ==
  <<Inject("duplicate-charge-escalation", {Elapsed(5)},
      <<Sets("impact.duplicateChargesDetected", TRUE), Sets("impact.duplicateChargeCount", 87),
        Sets("objectives.financialIntegrity", "at-risk"),
        Emits("duplicate-charge-risk",
              {"incident-commander", "customer-support-lead", "executive-stakeholder"})>>),
    Inject("executive-escalation", {Elapsed(6), IsNot("response.executiveBriefed", TRUE)},
      <<Emits("executive-escalation", {"incident-commander", "executive-stakeholder"})>>),
    Inject("provider-status-update", NoTrigger,
      <<Sets("service.providerStatus", "recovering"),
        Emits("provider-recovery-update", {"on-call-engineer"})>>),
    Inject("recovery-complete", NoTrigger,
      ServiceRecovers),
    Inject("reconciliation-complete", NoTrigger,
      <<Sets("response.reconciliationCompleted", TRUE),
        Sets("objectives.financialIntegrity", "healthy")>>)>>

SaasEvaluators ==
  "detection-speed" :>
     [full |-> {Declared, Is("service.providerIncidentConfirmed", TRUE)}]
  @@ "escalation-quality" :>
     [full |-> {Is("response.statusPagePublished", TRUE), Is("response.executiveBriefed", TRUE)}]
  @@ "decision-leadership" :>
     [full |-> {Assigned("response.ownerParticipantId"), Is("service.retryTrafficFrozen", TRUE),
                Is("service.writesDisabled", TRUE)}]
  @@ "mitigation-speed" :>
     [full |-> {Is("service.writesDisabled", TRUE), Is("service.rollbackStarted", TRUE),
                Is("service.recovered", TRUE)}]
  @@ "customer-communication" :>
     [full |-> {Is("response.statusPagePublished", TRUE), Is("response.customerCommsSent", TRUE),
                Is("response.reconciliationStarted", TRUE)}]
  @@ "recovery-verification" :>
     [full |-> {Is("service.recovered", TRUE), Is("response.recoveryVerified", TRUE),
                Is("response.reconciliationCompleted", TRUE)}]

SaasShown ==
  {"service.paymentSuccessRate", "service.providerStatus", "impact.affectedCustomers",
   "impact.supportQueueDepth", "response.severity"}

SaasPack ==
  [participants |-> SaasParticipants, signals |-> SaasSignals,
   actions |-> SaasContainment @@ SaasRecovery,
   injects |-> SaasEscalation \o SaasResolution,
   advisors |-> SaasAdvisors, evaluators |-> SaasEvaluators,
   initial |-> SaasInitial, schema |-> SaasSchema,
   defaults |-> "response.ownerParticipantId" :> "null", optional |-> {},
   shown |-> SaasShown]
=============================================================================
