----------------------------- MODULE ScenarioPack -----------------------------
(***************************************************************************)
(* What a scenario pack is made of, what the kernel and the scenario SDK   *)
(* demand of one, and how a version's choice of participants turns a pack  *)
(* into the pack of a run.  A pack is a record of                          *)
(*                                                                         *)
(*   participants  id |-> [controller, capabilities, permissions, scopes]  *)
(*   signals       key |-> the knowledge scopes it requires                *)
(*   actions       key |-> [capabilities, permissions, scopes, high,       *)
(*                          approval, precondition, effects]               *)
(*   injects       the injects [key, trigger, effects] in their order      *)
(*   advisors      the advisors of the agent policy                        *)
(*   evaluators    key |-> [full], the conditions that earn a score of 100 *)
(*   initial       state path |-> initial value                            *)
(*   schema        state path |-> the values the state schema accepts      *)
(*   defaults      state path |-> the value the schema puts in for it      *)
(*   optional      paths that the schema lets be `undefined`, a value that *)
(*                 JSON drops together with its path                       *)
(*   shown         paths of the UI contributions and runtime bindings      *)
(*                                                                         *)
(* Ids and keys are the same strings here.  The triggers of both packs are *)
(* conjunctions of conditions, some of them negated: a trigger is a set of *)
(* conditions, the empty one always holds, and NoTrigger is that of an     *)
(* inject that only a schedule or a director fires.                        *)
(***************************************************************************)
EXTENDS Integers, Sequences, FiniteSets, SequencesExt

Person(controller, capabilities, permissions, scopes) ==
  [controller |-> controller, capabilities |-> capabilities,
   permissions |-> permissions, scopes |-> scopes]

\* Only the actions of high risk need an approval in both packs.
Action(capability, permission, scope, high, precondition, effects) ==
  [capabilities |-> {capability}, permissions |-> {permission}, scopes |-> {scope},
   high |-> high, approval |-> high, precondition |-> precondition, effects |-> effects]

Inject(key, trigger, effects) == [key |-> key, trigger |-> trigger, effects |-> effects]

Is(path, value) ==
  [kind |-> "state-equals", path |-> path, value |-> value, holds |-> TRUE]
IsNot(path, value) ==
  [kind |-> "state-equals", path |-> path, value |-> value, holds |-> FALSE]
Assigned(path) == [kind |-> "assigned", path |-> path, holds |-> TRUE]
AtLeast(path, value) ==
  [kind |-> "state-number-gte", path |-> path, value |-> value, holds |-> TRUE]
Elapsed(minutes) ==
  [kind |-> "elapsed-minutes-gte", minutes |-> minutes, holds |-> TRUE]
Occurred(type) == [kind |-> "event-occurred", type |-> type, holds |-> TRUE]
\* Both packs ask for a count of one.
Did(participant, action) ==
  [kind |-> "participant-action-count-gte", participant |-> participant,
   action |-> action, holds |-> TRUE]
NoTrigger == {[kind |-> "never", holds |-> TRUE]}

Sets(path, value) == [kind |-> "set-state", path |-> path, value |-> value]
Adds(path, amount) == [kind |-> "increment-state", path |-> path, amount |-> amount]
Emits(signal, recipients) ==
  [kind |-> "emit-signal", signal |-> signal, recipients |-> recipients]
Schedules(inject, delay) ==
  [kind |-> "schedule-inject", inject |-> inject, delay |-> delay]
Metric == [kind |-> "record-metric"]
Complete == [kind |-> "complete-run"]

InjectKeys(pack) == {pack.injects[n].key : n \in DOMAIN pack.injects}

-----------------------------------------------------------------------------
(* specializeScenarioPack: `chosen` gives each enabled participant its      *)
(* controller.                                                              *)

ReferencesDisabled(trigger, chosen) ==
  \E c \in trigger : /\ c.kind = "participant-action-count-gte"
                     /\ c.participant \notin DOMAIN chosen

\* Mutant: a signal still goes to participants who are not in the run.
KeepRecipients(effects, chosen) == effects
FilterParticipantEffects(effects, chosen) ==
  [n \in DOMAIN effects |->
     IF effects[n].kind = "emit-signal"
     THEN [effects[n] EXCEPT !.recipients = @ \cap DOMAIN chosen]
     ELSE effects[n]]

FilterMissingInjectSchedules(effects, keys) ==
  SelectSeq(effects, LAMBDA e : e.kind = "schedule-inject" => e.inject \in keys)

ActiveAdvisors(advisors, chosen) ==
  {a \in {[b EXCEPT !.permissions = {x \in @ : x[1] \in DOMAIN chosen}] : b \in advisors} :
     /\ a.advisor \in DOMAIN chosen /\ chosen[a.advisor] = "agent"
     /\ a.permissions # {}}

Specialize(pack, chosen) ==
  LET filtered(x) == [x EXCEPT !.effects = FilterParticipantEffects(@, chosen)]
      injects == SelectSeq(pack.injects, LAMBDA i : ~ ReferencesDisabled(i.trigger, chosen))
      keys == {injects[n].key : n \in DOMAIN injects}
      scheduled(x) == [x EXCEPT !.effects = FilterMissingInjectSchedules(@, keys)]
  IN  [pack EXCEPT
         !.participants = [p \in DOMAIN chosen |-> [@[p] EXCEPT !.controller = chosen[p]]],
         !.actions = [a \in {b \in DOMAIN @ : ~ ReferencesDisabled(@[b].precondition, chosen)} |->
                        scheduled(filtered(@[a]))],
         !.injects = [n \in DOMAIN injects |-> scheduled(filtered(injects[n]))],
         !.advisors = ActiveAdvisors(@, chosen)]

-----------------------------------------------------------------------------
(* validateScenarioDefinition, which the kernel's constructor insists on,   *)
(* and the rest of validateScenarioPack.  Unique keys and numeric paths are *)
(* given by the form of a pack.                                             *)

ValidPath(pack, path) == path \in DOMAIN pack.initial

ValidEffect(pack, e) ==
  CASE e.kind = "set-state" -> ValidPath(pack, e.path)
    [] e.kind = "increment-state" -> ValidPath(pack, e.path)
    [] e.kind = "schedule-inject" -> e.delay > 0 /\ e.inject \in InjectKeys(pack)
    [] e.kind = "emit-signal" ->
         /\ e.signal \in DOMAIN pack.signals
         /\ e.recipients \subseteq DOMAIN pack.participants
         /\ \A p \in e.recipients :
              pack.signals[e.signal] \subseteq pack.participants[p].scopes
    [] OTHER -> TRUE

ValidTrigger(pack, trigger) ==
  \A c \in trigger :
    c.kind \in {"state-equals", "state-number-gte"} => ValidPath(pack, c.path)

ValidDefinition(pack) ==
  /\ \A p \in DOMAIN pack.initial : pack.initial[p] \in pack.schema[p]
  /\ \A a \in DOMAIN pack.actions :
       LET action == pack.actions[a]
       IN  /\ action.high => action.approval
           /\ \A n \in DOMAIN action.effects : ValidEffect(pack, action.effects[n])
           /\ ValidTrigger(pack, action.precondition)
  /\ \A n \in DOMAIN pack.injects :
       LET inject == pack.injects[n]
       IN  /\ \A k \in DOMAIN inject.effects : ValidEffect(pack, inject.effects[k])
           /\ ValidTrigger(pack, inject.trigger)
  /\ \A path \in pack.shown : ValidPath(pack, path)

\* The capabilities, permissions and scopes that an action asks for.
Equipped(pack, p, a) ==
  LET who == pack.participants[p]
      what == pack.actions[a]
  IN  /\ what.capabilities \subseteq who.capabilities
      /\ what.permissions \subseteq who.permissions
      /\ what.scopes \subseteq who.scopes

ValidTriggerFilters(pack, a) ==
  /\ a.injects \subseteq InjectKeys(pack)
  /\ a.signals \subseteq DOMAIN pack.signals
  /\ a.injects # {} => "inject.triggered" \in a.events
  /\ a.signals # {} => "signal.emitted" \in a.events

ValidAdvisor(pack, a) ==
  /\ a.advisor \in DOMAIN pack.participants
  /\ pack.participants[a.advisor].controller = "agent"
  /\ a.events # {}
  /\ ValidTriggerFilters(pack, a)
  /\ \A x \in a.permissions :
       /\ x[1] \in DOMAIN pack.participants /\ x[2] \in DOMAIN pack.actions
       /\ Equipped(pack, x[1], x[2])

ValidContract(pack) ==
  /\ ValidDefinition(pack)
  /\ \A a \in pack.advisors : ValidAdvisor(pack, a)
=============================================================================
