---------------------------- MODULE MCScenarioRun ----------------------------
EXTENDS ScenarioRun, SaasIncidentPack, CustomerEscalationPack

MCPacks == "saas" :> SaasPack @@ "escalation" :> EscalationPack
MCKey == "saas" :> {"incident-commander", "on-call-engineer", "customer-support-lead"}
      @@ "escalation" :> {"account-executive", "customer-success-lead", "engineering-lead"}
MCDueOrder ==
  <<"provider-status-update", "reconciliation-complete", "recovery-complete",
    "remediation-complete">>

Draft(name, chosen, json) == [pack |-> name, chosen |-> chosen, json |-> json]

\* The controllers that the pack itself gives to the participants in S.
AsDeclared(name, S) == [p \in S |-> MCPacks[name].participants[p].controller]
Everyone(name) == DOMAIN MCPacks[name].participants

MCRehearsed ==
  {Draft("saas", AsDeclared("saas", Everyone("saas")), TRUE),
   Draft("escalation", AsDeclared("escalation", Everyone("escalation")), FALSE)}
  \cup {Draft("escalation", AsDeclared("escalation", Everyone("escalation") \ {p}), FALSE) :
          p \in Everyone("escalation") \ {"account-executive"}}

\* Every choice of participants and controllers with at least one human.
MCDrafts ==
  MCRehearsed \cup UNION {
    {Draft(name, c, TRUE) :
       c \in {d \in UNION {[S -> {"human", "agent", "system"}] : S \in SUBSET Everyone(name)} :
                \E p \in DOMAIN d : d[p] = "human"}} :
    name \in DOMAIN MCPacks}

\* The outage or the escalation before the run starts, and what only a schedule
\* or a finding would bring, too early.
MCDirectable ==
  {"payment-service-outage", "recovery-complete", "customer-escalation-opened",
   "root-cause-confirmed", "remediation-complete"}

MCStored ==
  {Draft("escalation", AsDeclared("escalation", Everyone("escalation")), TRUE)}
=============================================================================
