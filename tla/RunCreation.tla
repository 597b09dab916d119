------------------------------ MODULE RunCreation ------------------------------
(***************************************************************************)
(* How Runs come to be: from the Studio, which derives a version of the    *)
(* scenario, creates the run and starts it in three transactions           *)
(*   src/apps/web/lib/studio-run-service.ts,                               *)
(* from the plain API, and as a branch of another run                      *)
(*   createRun, createBranchRun, src/packages/application/src/runtime.ts.  *)
(*                                                                         *)
(* Requests stop anywhere (nothing obliges one to go on) and are sent      *)
(* again with their idempotency key by another.  A command is one event    *)
(* here, and the state of a run is its status and the events behind it;    *)
(* RunStore has the transaction of a command in full.                      *)
(***************************************************************************)
EXTENDS Naturals, Sequences, FiniteSets

CONSTANTS
  Requests,          \* bound: requests that create a run
  Keys,              \* the Idempotency-Key headers they carry
  Kinds,             \* bound: the kinds of request that come in
  SnapshotInterval,  \* snapshotInterval of the repository
  MaxRuns,           \* bound: runs
  MaxCommands        \* bound: commands other than the Studio's

ASSUME CreationAssumption ==
  /\ Kinds \subseteq {"studio", "plain", "branch"}
  /\ SnapshotInterval \in Nat \ {0} /\ MaxRuns \in Nat /\ MaxCommands \in Nat

VARIABLES
  scenario,   \* the scenario_versions of one scenario: the key each was made for
  runs,       \* the simulation_runs, with their run_events and state_snapshots
  requests    \* the requests

vars == <<scenario, runs, requests>>

None == "none"
NoKey == <<>>
Runs == 1 .. Len(runs)
Event(kind, key) == [kind |-> kind, key |-> key]
NoAnswer == [run |-> 0, version |-> 0, status |-> None]
Unused ==
  [pc |-> "unused", kind |-> None, key |-> None, parent |-> 0, from |-> 0, expected |-> 0,
   version |-> 0, run |-> 0, seen |-> 0, attempt |-> 0, answer |-> NoAnswer]

Init ==
  /\ scenario = <<None>>
  /\ runs = <<>>
  /\ requests = [q \in Requests |-> Unused]

-----------------------------------------------------------------------------
(* The state of a run                                                       *)

Version(r) == Len(runs[r].log) - 1

\* run.created stands for the state it inherits, every event for itself.
Apply(r, state, n) ==
  LET kind == runs[r].log[n].kind
  IN  [status |-> CASE kind = "created" -> "created" [] kind = "started" -> "running"
                    [] OTHER -> state.status,
       facts |-> (IF kind = "created" THEN runs[r].inherited ELSE state.facts)
                   \o << <<r, n>> >>]

Replay(r, state, first, last) ==
  LET after[n \in first - 1 .. last] ==
        IF n = first - 1 THEN state ELSE Apply(r, after[n - 1], n)
  IN  after[last]

\* loadStateAtSequence: the last snapshot up to n and the events behind it.
Load(r, n) ==
  LET usable == {x \in runs[r].snapshots : x.sequence <= n}
      last == CHOOSE x \in usable : \A y \in usable : y.sequence <= x.sequence
  IN  IF usable = {} THEN Replay(r, [status |-> "created", facts |-> <<>>], 1, n)
      ELSE Replay(r, last.state, last.sequence + 1, n)

WithSnapshot(run, n, state) ==
  [run EXCEPT !.snapshots = {x \in @ : x.sequence # n} \cup {[sequence |-> n, state |-> state]}]

\* What a run is when e has been appended to it; branches force a snapshot.
Appended(r, e) ==
  LET n == Len(runs[r].log) + 1
      state == Load(r, n - 1)
      next == [status |-> IF e.kind = "started" THEN "running" ELSE state.status,
               facts |-> state.facts \o << <<r, n>> >>]
      run == [runs[r] EXCEPT !.log = Append(@, e)]
  IN  IF e.kind = "branched" \/ n % SnapshotInterval = 0 THEN WithSnapshot(run, n, next) ELSE run

\* The row of a new run, with its first event and its snapshot.  The field
\* "origin" is for a property only: the whole history it branched from.
Created(key, version, parent, from, inherited, origin) ==
  [key |-> key, version |-> version, parent |-> parent, from |-> from,
   log |-> <<Event("created", NoKey)>>, inherited |-> inherited, origin |-> origin,
   snapshots |-> {[sequence |-> 1, state |-> [status |-> "created",
                     facts |-> inherited \o << <<Len(runs) + 1, 1>> >>]]}]

History(r, n) == runs[r].origin \o [i \in 1 .. n |-> <<r, i>>]

-----------------------------------------------------------------------------
(* Requests                                                                 *)

\* The Studio puts the scenario before the header, the others use it as it is.
KeyOf(q) ==
  IF requests[q].kind = "studio" THEN <<"studio", requests[q].key>> ELSE <<"header", requests[q].key>>

RunsFor(q) == {r \in Runs : runs[r].key = KeyOf(q)}

Moves(q, request) == requests' = [requests EXCEPT ![q] = request]
Answers(q, r, status) ==
  Moves(q, [requests[q] EXCEPT !.pc = "done",
              !.answer = [run |-> r, status |-> status,
                          version |-> IF r = 0 THEN 0 ELSE requests[q].version]])

\* The unused requests are interchangeable, so that one of them will do.
Enter(request) ==
  LET unused == {q \in Requests : requests[q].pc = "unused"}
  IN  unused # {} /\ Moves(CHOOSE q \in unused : TRUE, request)

\* A page asks for a run, or for a branch of the run it shows; a key that was
\* used comes with the request it was used in.
Ask ==
  /\ \E kind \in Kinds, key \in Keys :
       LET before == {q \in Requests : requests[q].kind = kind /\ requests[q].key = key}
           request == [Unused EXCEPT !.kind = kind, !.key = key]
       IN  CASE kind = "studio" -> Enter([request EXCEPT !.pc = "derive"])
             [] kind = "plain" -> Enter([request EXCEPT !.pc = "find", !.version = 1])
             [] kind = "branch" /\ before # {} ->
                  LET q == CHOOSE x \in before : TRUE
                  IN  Enter([request EXCEPT !.pc = "branch", !.parent = requests[q].parent,
                               !.from = requests[q].from, !.expected = requests[q].expected])
             [] OTHER ->
                  \E r \in Runs : \E n \in 1 .. Len(runs[r].log) :
                    Enter([request EXCEPT !.pc = "branch", !.parent = r, !.from = n,
                                          !.expected = Version(r)])
  /\ UNCHANGED <<scenario, runs>>

\* The commands so far, for the bound: neither branches nor the Studio's starts.
Commands(r) ==
  {n \in 2 .. Len(runs[r].log) : runs[r].log[n] \in {Event("other", NoKey), Event("started", NoKey)}}

\* A command on a run that the members of the organisation see.
Command ==
  /\ Cardinality(UNION {{r} \X Commands(r) : r \in Runs}) < MaxCommands
  /\ \E r \in Runs :
       LET kinds == IF Load(r, Len(runs[r].log)).status = "created" THEN {"started", "other"}
                    ELSE {"other"}
       IN  \E kind \in kinds : runs' = [runs EXCEPT ![r] = Appended(r, Event(kind, NoKey))]
  /\ UNCHANGED <<scenario, requests>>

-----------------------------------------------------------------------------
(* createScenarioVersion and createRun                                      *)

\* Mutant: every attempt derives a version of its own.
DeriveAnew(q) ==
  /\ requests[q].pc = "derive"
  /\ scenario' = Append(scenario, requests[q].key)
  /\ Moves(q, [requests[q] EXCEPT !.pc = "find", !.version = Len(scenario) + 1])
  /\ UNCHANGED runs

\* One transaction under the scenario's row lock.
Derive(q) ==
  /\ requests[q].pc = "derive"
  /\ LET made == {v \in 2 .. Len(scenario) : scenario[v] = requests[q].key}
         v == IF made = {} THEN Len(scenario) + 1 ELSE CHOOSE x \in made : \A y \in made : y <= x
     IN  /\ scenario' = IF made = {} THEN Append(scenario, requests[q].key) ELSE scenario
         /\ Moves(q, [requests[q] EXCEPT !.pc = "find", !.version = v])
  /\ UNCHANGED runs

\* The run is there (with the version it has by now): the Studio starts it.
Continues(q, r) ==
  IF requests[q].kind = "studio"
  THEN Moves(q, [requests[q] EXCEPT !.pc = "start", !.run = r, !.expected = Version(r)])
  ELSE Answers(q, r, "ok")

\* The first query of createRun.
Find(q) ==
  /\ requests[q].pc = "find"
  /\ IF RunsFor(q) = {}
     THEN Moves(q, [requests[q] EXCEPT !.pc = "create"])
     ELSE \E r \in RunsFor(q) : Continues(q, r)
  /\ UNCHANGED <<scenario, runs>>

\* Mutant: there is no unique index.
CreateAlways(q) ==
  /\ requests[q].pc = "create"
  /\ Len(runs) < MaxRuns
  /\ runs' = Append(runs, Created(KeyOf(q), requests[q].version, 0, 0, <<>>, <<>>))
  /\ IF requests[q].kind = "studio"
     THEN Moves(q, [requests[q] EXCEPT !.pc = "start", !.run = Len(runs) + 1, !.expected = 0])
     ELSE Answers(q, Len(runs) + 1, "ok")
  /\ UNCHANGED scenario

\* The rest of it, decided by the unique index on the key; who comes late
\* reads the run of the other.
Create(q) ==
  /\ requests[q].pc = "create"
  /\ IF RunsFor(q) = {}
     THEN /\ Len(runs) < MaxRuns
          /\ runs' = Append(runs, Created(KeyOf(q), requests[q].version, 0, 0, <<>>, <<>>))
          /\ IF requests[q].kind = "studio"
             THEN Moves(q, [requests[q] EXCEPT !.pc = "start", !.run = Len(runs) + 1,
                                               !.expected = 0])
             ELSE Answers(q, Len(runs) + 1, "ok")
     ELSE \E r \in RunsFor(q) : Continues(q, r) /\ UNCHANGED runs
  /\ UNCHANGED scenario

-----------------------------------------------------------------------------
(* startRun: the start command, twice at most                               *)

\* The transaction reads the row first,
ReadRow(q) ==
  /\ requests[q].pc = "start"
  /\ Moves(q, [requests[q] EXCEPT !.pc = "lookup", !.seen = Len(runs[requests[q].run].log)])
  /\ UNCHANGED <<scenario, runs>>

\* Mutant: a run is created with the number of its first event.
ExpectedSequence(q) == requests[q].expected + 1
Expected(q) == requests[q].expected

Applied(q) ==
  \E n \in 1 .. Len(runs[requests[q].run].log) :
    runs[requests[q].run].log[n] = Event("started", KeyOf(q))

\* then looks for the key and asks the kernel.  A start that was made is a
\* duplicate; a refusal is returned as a result, which nobody looks at.
Lookup(q) ==
  /\ requests[q].pc = "lookup"
  /\ LET accepted == /\ Expected(q) = requests[q].seen - 1
                     /\ Load(requests[q].run, requests[q].seen).status = "created"
     IN  Moves(q, [requests[q] EXCEPT !.seen = 0,
                     !.pc = IF ~ Applied(q) /\ accepted THEN "commit" ELSE "answer"])
  /\ UNCHANGED <<scenario, runs>>

\* Mutant: the version is not compared again.
OvertakenNever(q) == FALSE
Overtaken(q) == Version(requests[q].run) # requests[q].expected

TriesAgain(q) == requests[q].attempt = 0

\* The update names the version; if there is another by now, it throws, and
\* the service reads the run and tries once more.
Commit(q) ==
  /\ requests[q].pc = "commit"
  /\ IF Overtaken(q)
     THEN /\ IF TriesAgain(q)
             THEN Moves(q, [requests[q] EXCEPT !.pc = "again", !.attempt = @ + 1])
             ELSE Answers(q, requests[q].run, "conflict")
          /\ UNCHANGED runs
     ELSE /\ runs' = [runs EXCEPT ![requests[q].run] =
                        Appended(requests[q].run, Event("started", KeyOf(q)))]
          /\ Moves(q, [requests[q] EXCEPT !.pc = "answer"])
  /\ UNCHANGED scenario

ReadAgain(q) ==
  /\ requests[q].pc = "again"
  /\ Moves(q, [requests[q] EXCEPT !.pc = "start", !.expected = Version(requests[q].run)])
  /\ UNCHANGED <<scenario, runs>>

Answer(q) ==
  /\ requests[q].pc = "answer"
  /\ Answers(q, requests[q].run, "ok")
  /\ UNCHANGED <<scenario, runs>>

-----------------------------------------------------------------------------
(* createBranchRun                                                          *)

\* Mutant: the child starts from what the parent is now.
BaselineNow(q) == Load(requests[q].parent, Len(runs[requests[q].parent].log))
Baseline(q) == Load(requests[q].parent, requests[q].from)

\* One transaction under the parent's row lock: commands on the parent wait at
\* their update and find another version after it.  The baseline becomes a
\* snapshot of the parent and the child's first event, and the parent notes
\* the branch.  The version is compared before the key is looked for.
Branch(q) ==
  /\ requests[q].pc = "branch"
  /\ LET p == requests[q].parent
     IN  CASE Version(p) # requests[q].expected -> Answers(q, 0, "conflict") /\ UNCHANGED runs
           [] Version(p) = requests[q].expected /\ RunsFor(q) # {} ->
                (\E r \in RunsFor(q) : Answers(q, r, "ok")) /\ UNCHANGED runs
           [] OTHER ->
                /\ Len(runs) < MaxRuns
                /\ LET child == Created(KeyOf(q), runs[p].version, p, requests[q].from,
                                        Baseline(q).facts, History(p, requests[q].from))
                       parent == Appended(p, Event("branched", NoKey))
                   IN  runs' = Append([runs EXCEPT ![p] =
                                         WithSnapshot(parent, requests[q].from, Baseline(q))],
                                      child)
                /\ Answers(q, Len(runs) + 1, "ok")
  /\ UNCHANGED scenario

-----------------------------------------------------------------------------
Step(q) ==
  \/ Derive(q) \/ Find(q) \/ Create(q)
  \/ ReadRow(q) \/ Lookup(q) \/ Commit(q) \/ ReadAgain(q) \/ Answer(q)
  \/ Branch(q)

Next == Ask \/ Command \/ \E q \in Requests : Step(q)

Spec == Init /\ [][Next]_vars

-----------------------------------------------------------------------------
(* Properties                                                               *)

\* Every variable has its type.
TypeOK ==
  /\ Len(scenario) \in Nat \ {0}
  /\ \A r \in Runs :
       /\ runs[r].version \in 1 .. Len(scenario)
       /\ runs[r].parent \in 0 .. r - 1 /\ runs[r].from \in Nat
       /\ Len(runs[r].log) \in Nat \ {0}
       /\ \A n \in 2 .. Len(runs[r].log) : runs[r].log[n].kind \in {"started", "other", "branched"}
       /\ \A x \in runs[r].snapshots : x.sequence \in 1 .. Len(runs[r].log)
  /\ \A q \in Requests :
       /\ requests[q].pc \in {"unused", "derive", "find", "create", "start", "lookup", "commit",
                              "again", "answer", "branch", "done"}
       /\ requests[q].version \in 0 .. Len(scenario)
       /\ requests[q].run \in 0 .. Len(runs)
       /\ requests[q].attempt \in 0 .. 1
       /\ requests[q].answer.status \in {None, "ok", "conflict"}

\* Whatever snapshots branches have left in whatever order, and whatever has
\* happened since in the parent: a run is loaded, at each of its events, as the
\* history it has lived through, its ancestors' part before the branch included;
\* and so it is from its own events alone, "even if the snapshot is missing".
LoadsItsHistory ==
  \A r \in Runs : \A n \in 1 .. Len(runs[r].log) :
    /\ Load(r, n).facts = History(r, n)
    /\ Load(r, n) = Replay(r, [status |-> "created", facts |-> <<>>], 1, n)

\* Requests that repeat each other, and run side by side or stop half-way, are
\* answered with one run; the scenario version in the answer is that run's, and
\* the only one that was derived for the key.
AnswersAgree ==
  /\ \A v, w \in 2 .. Len(scenario) : scenario[v] = scenario[w] => v = w
  /\ \A q, p \in Requests :
       (requests[q].answer.run # 0 /\ requests[p].answer.run # 0 /\ KeyOf(q) = KeyOf(p)) =>
         /\ requests[q].answer.run = requests[p].answer.run
         /\ requests[q].kind = "studio" =>
              requests[q].answer.version = runs[requests[q].answer.run].version

\* Both together, as a run checks them.
CreationInv == TypeOK /\ AnswersAgree

\* A run is started once, by whichever of the Studio's attempts or a member.
StartedOnce ==
  \A r \in Runs :
    Cardinality({n \in 1 .. Len(runs[r].log) : runs[r].log[n].kind = "started"}) <= 1

\* The Studio answers with a run that is started, or else somebody was already
\* at work on it in the moment between its creation and its start.
StartsUnlessOvertaken ==
  \A q \in Requests :
    (requests[q].kind = "studio" /\ requests[q].pc = "done") =>
      Len(runs[requests[q].answer.run].log) > 1

\* What a reader loads of the runs is a tree of histories: see RunTree.
Reader == INSTANCE RunTree
            WITH Headers <- {"studio", "header"} \X Keys,
                 versions <- Len(scenario),
                 keys <- [r \in Runs |-> runs[r].key],
                 version <- [r \in Runs |-> runs[r].version],
                 state <- [r \in Runs |-> Load(r, Len(runs[r].log))]

\* Whatever is asked for twice, stops half-way, races for a key or a start and
\* leaves which snapshots behind: the runs that are loaded change as those of
\* the tree do, one run, fact or branch at a time.
ImplementsRunTree == Reader!Spec
=============================================================================
