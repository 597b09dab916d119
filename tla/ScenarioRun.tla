----------------------------- MODULE ScenarioRun -----------------------------
(***************************************************************************)
(* A rehearsal of a scenario pack, from the draft of its version to its    *)
(* end.  Here a command is one step: it takes a participant's action, an   *)
(* approver's answer, a director's inject or a minute of the clock with    *)
(* everything that follows from it.  (SimulationKernel has the same        *)
(* commands event by event, for any definition.)                           *)
(*                                                                         *)
(* A draft names its pack, gives each enabled participant a controller and *)
(* says whether the run is stored as JSON between two commands, as it is   *)
(* by the repository, or stays in memory, as in the tests of the packs.    *)
(* Anyone of the team may act for any participant, whoever controls it.    *)
(* finish-run, with which a director ends any run at any time, is left out *)
(* (SimulationKernel has it): a run ends here by what its pack does.       *)
(***************************************************************************)
EXTENDS ScenarioPack

CONSTANTS
  Packs,        \* name |-> pack
  Drafts,       \* the drafts of a version [pack, chosen, json]
  Rehearsed,    \* bound: the drafts whose runs are followed beyond their creation
  Key,          \* the participants without whom a pack's run cannot be closed
  DueOrder,     \* the injects that are scheduled, in the order of their keys
  Directable,   \* bound: the injects that a director may fire,
  MaxDirected,  \* and how many of them in one run
  MaxPending    \* bound: approvals open at a time

\* What buildScenarioVersionConfig lets through.
Acceptable(draft) ==
  /\ DOMAIN draft.chosen \subseteq DOMAIN Packs[draft.pack].participants
  /\ "human" \in Range(draft.chosen)

ASSUME DraftsAssumption ==
  /\ Rehearsed \subseteq Drafts
  /\ \A d \in Drafts : d.pack \in DOMAIN Packs /\ Acceptable(d)

VARIABLES
  draft,     \* the draft of this run's version
  run,       \* [status, minutes, world, due, triggered, done, threw], see NewRun
  pending,   \* actions that wait for an approval
  directed   \* how many injects a director fired

vars == <<draft, run, pending, directed>>

\* The specialised pack; those of the rehearsed drafts are computed once.
RehearsedPacks == [d \in Rehearsed |-> Specialize(Packs[d.pack], d.chosen)]
Pack ==
  IF draft \in Rehearsed THEN RehearsedPacks[draft]
  ELSE Specialize(Packs[draft.pack], draft.chosen)

\* Who is able to do what.
Able ==
  [d \in Rehearsed |->
     {x \in (DOMAIN RehearsedPacks[d].participants) \X (DOMAIN RehearsedPacks[d].actions) :
        Equipped(RehearsedPacks[d], x[1], x[2])}]

\* Time stands still when no condition looks at it any more.
LastMinute ==
  [d \in Rehearsed |->
     Max({0} \cup UNION {{c.minutes : c \in {x \in Packs[d.pack].injects[n].trigger :
                                            x.kind = "elapsed-minutes-gte"}} :
                        n \in DOMAIN Packs[d.pack].injects})]

\* `due` has the minutes until a scheduled inject, `done` the actions that were
\* executed with their participants, `threw` says that a command ended in an error.
NewRun(pack, status) ==
  [status |-> status, minutes |-> 0, world |-> pack.initial, due |-> <<>>,
   triggered |-> {}, done |-> {}, threw |-> FALSE]

Init ==
  /\ draft \in Drafts
  /\ run = NewRun(Packs[draft.pack], "drafted")
  /\ pending = {} /\ directed = 0

-----------------------------------------------------------------------------
(* Conditions and effects.                                                  *)

Meets(r, c) ==
  CASE c.kind = "state-equals" -> c.path \in DOMAIN r.world /\ r.world[c.path] = c.value
    [] c.kind = "state-number-gte" -> c.path \in DOMAIN r.world /\ r.world[c.path] >= c.value
    [] c.kind = "assigned" -> /\ c.path \in DOMAIN r.world
                              /\ r.world[c.path] \notin {"null", "undefined"}
    [] c.kind = "elapsed-minutes-gte" -> r.minutes >= c.minutes
    [] c.kind = "event-occurred" -> r.status # "created"
    [] c.kind = "participant-action-count-gte" -> <<c.participant, c.action>> \in r.done
    [] OTHER -> FALSE

Holds(r, trigger) == \A c \in trigger : Meets(r, c) = c.holds

\* A path that is not there, or a value the schema refuses, ends the command.
Assign(pack, r, path, value) ==
  IF path \notin DOMAIN r.world \/ value \notin pack.schema[path]
  THEN [r EXCEPT !.threw = TRUE]
  ELSE [r EXCEPT !.world[path] = value]

\* Of several schedules of an inject only the soonest counts, and none of an
\* inject that was triggered.
Schedule(r, inject, delay) ==
  IF inject \in r.triggered THEN r
  ELSE [r EXCEPT !.due = inject :> (IF inject \in DOMAIN @ /\ @[inject] < delay
                                    THEN @[inject] ELSE delay) @@ @]

ApplyEffect(pack, r, e) ==
  IF r.threw \/ r.status = "completed" THEN r
  ELSE CASE e.kind = "set-state" -> Assign(pack, r, e.path, e.value)
         [] e.kind = "increment-state" -> Assign(pack, r, e.path, r.world[e.path] + e.amount)
         [] e.kind = "schedule-inject" -> Schedule(r, e.inject, e.delay)
         [] e.kind = "complete-run" -> [r EXCEPT !.status = "completed"]
         [] OTHER -> r

ApplyEffects(pack, r, effects) ==
  FoldLeft(LAMBDA s, e : ApplyEffect(pack, s, e), r, effects)

Fire(pack, r, n) ==
  LET key == pack.injects[n].key
  IN  ApplyEffects(pack,
        [r EXCEPT !.triggered = @ \cup {key},
                  !.due = [i \in DOMAIN @ \ {key} |-> @[i]]],
        pack.injects[n].effects)

\* The first inject of the loop of runDueInjects: what is due comes before what
\* its condition makes eligible.
NextDue(pack, r) ==
  LET due == SelectSeq(DueOrder, LAMBDA i : i \in DOMAIN r.due /\ r.due[i] <= 0)
      eligible == {n \in DOMAIN pack.injects : /\ pack.injects[n].key \notin r.triggered
                                               /\ Holds(r, pack.injects[n].trigger)}
  IN  IF due # <<>> THEN {n \in DOMAIN pack.injects : pack.injects[n].key = due[1]}
      ELSE {n \in eligible : \A m \in eligible : n <= m}

\* runDueInjects.
RECURSIVE Settle(_, _)
Settle(pack, r) ==
  LET next == NextDue(pack, r)
  IN  IF r.threw \/ r.status = "completed" \/ next = {} THEN r
      ELSE Settle(pack, Fire(pack, r, CHOOSE n \in next : TRUE))

DropUndefined(pack, world) ==
  [p \in {q \in DOMAIN world : q \in pack.optional => world[q] # "undefined"} |-> world[p]]
\* toInputJson drops a path that is undefined, and normalizeState puts the
\* schema's default in its place, if it has one.
Reloaded(pack, world) == DropUndefined(pack, world) @@ pack.defaults

\* The end of a command: nothing is kept of one that threw.
Finish(pack, r) ==
  /\ run' = IF r.threw THEN [run EXCEPT !.threw = TRUE]
            ELSE IF draft.json THEN [r EXCEPT !.world = Reloaded(pack, @)]
            ELSE r
  /\ UNCHANGED draft

Execute(pack, p, a) ==
  Settle(pack, ApplyEffects(pack, [run EXCEPT !.done = @ \cup {<<p, a>>}],
                            pack.actions[a].effects))

-----------------------------------------------------------------------------
(* The commands.                                                            *)

Create ==
  LET pack == Pack
  IN  /\ run.status = "drafted"
      /\ IF ValidDefinition(pack) THEN Finish(pack, NewRun(pack, "created"))
         ELSE run' = [run EXCEPT !.status = "unavailable"] /\ UNCHANGED draft
      /\ UNCHANGED <<pending, directed>>

Start ==
  LET pack == Pack
  IN  /\ run.status = "created" /\ draft \in Rehearsed
      /\ Finish(pack, Settle(pack, [run EXCEPT !.status = "running"]))
      /\ UNCHANGED <<pending, directed>>

Permitted(pack, p, a) ==
  <<p, a>> \in Able[draft] /\ Holds(run, pack.actions[a].precondition)

Submit(p, a) ==
  LET pack == Pack
  IN  /\ run.status = "running" /\ Permitted(pack, p, a)
      /\ IF pack.actions[a].approval
         THEN /\ <<p, a>> \notin pending /\ Cardinality(pending) < MaxPending
              /\ pending' = pending \cup {<<p, a>>}
              /\ UNCHANGED <<draft, run>>
         ELSE Finish(pack, Execute(pack, p, a)) /\ UNCHANGED pending
      /\ UNCHANGED directed

Approve(p, a) ==
  LET pack == Pack
  IN  /\ run.status = "running" /\ <<p, a>> \in pending /\ Permitted(pack, p, a)
      /\ Finish(pack, Execute(pack, p, a))
      /\ pending' = pending \ {<<p, a>>}
      /\ UNCHANGED directed

\* Denied by an approver, or expired.
Refuse(p, a) ==
  /\ run.status = "running" /\ <<p, a>> \in pending
  /\ pending' = pending \ {<<p, a>>}
  /\ UNCHANGED <<draft, run, directed>>

\* trigger-inject asks neither for a running run nor for the inject's condition,
\* and leaves what becomes due to the next command.
Direct(key) ==
  LET pack == Pack
  IN  /\ run.status \in {"created", "running"} /\ draft \in Rehearsed
      /\ key \in InjectKeys(pack) \ run.triggered /\ directed < MaxDirected
      /\ \E n \in DOMAIN pack.injects : /\ pack.injects[n].key = key
                                        /\ Finish(pack, Fire(pack, run, n))
      /\ directed' = directed + 1
      /\ UNCHANGED pending

Later(pack, r) ==
  [r EXCEPT !.minutes = IF @ < LastMinute[draft] THEN @ + 1 ELSE @,
            !.due = [i \in DOMAIN @ |-> @[i] - 1]]

Tick ==
  LET pack == Pack
  IN  /\ run.status = "running"
      /\ Finish(pack, Settle(pack, Later(pack, run)))
      /\ UNCHANGED <<pending, directed>>

Next ==
  \/ Create \/ Start \/ Tick
  \/ run.status = "running" /\ \E x \in Able[draft] : Submit(x[1], x[2])
  \/ \E x \in pending : Approve(x[1], x[2]) \/ Refuse(x[1], x[2])
  \/ \E key \in Directable : Direct(key)

Spec == Init /\ [][Next]_vars

-----------------------------------------------------------------------------
(* Properties.                                                              *)

\* Whatever participants a version keeps and whoever controls them, the kernel
\* accepts the specialised pack and it still fulfils the contract of a pack:
\* no signal goes to somebody who is gone, nothing absent is scheduled, every
\* advisor is an agent and advises what its target may do.
EveryDraftRuns ==
  /\ run.status # "unavailable"
  /\ run.status = "created" => ValidContract(Pack)

\* No command of a rehearsal ends in an error: every path an effect names is
\* there, also after the world was stored as JSON and loaded, and every value
\* is one the state schema accepts.
EveryCommandApplies == ~ run.threw

\* Marks that a closed run can have lost: the first look at the metrics, the
\* freeze of the retries and the customer's confidence are optional.
Optional == {"detection-speed", "decision-leadership", "recovery-validation"}

\* A run that was closed without a director has full marks for everything its
\* closing action asks for: the way there cannot leave out what is evaluated.
ClosingEarnsFullMarks ==
  (run.status = "completed" /\ directed = 0) =>
    \A k \in DOMAIN Pack.evaluators \ Optional : Holds(run, Pack.evaluators[k].full)

\* Everything was done that can be done, and no time or schedule changes that.
NothingLeft ==
  LET pack == Pack
  IN  /\ pending = {} /\ run.due = <<>> /\ run.minutes = LastMinute[draft]
      /\ \A x \in Able[draft] : Permitted(pack, x[1], x[2]) => x \in run.done

\* A pack has no dead end: with its key participants a run is closed at the
\* latest when everybody has done what they can, in whatever order, with
\* whatever a director fired; without one of them it is never closed.
ClosesWithItsCast ==
  LET cast == Key[draft.pack] \subseteq DOMAIN draft.chosen
  IN  /\ run.status = "completed" => cast
      /\ (run.status = "running" /\ NothingLeft) => ~ cast
=============================================================================
