----------------------------- MODULE AgentSession -----------------------------
(***************************************************************************)
(* The turns of one advisor with its Eve sessions: the link that remembers *)
(* a session that waits for an answer, the traces of the events that Eve   *)
(* reported, and the ledger that charges a turn to the budget of the run.  *)
(*                                                                         *)
(* A turn is charged when it writes a trace that was not there: the trace, *)
(* identified by its session and its index, makes a replay harmless.  Eve  *)
(* numbers the events of each session from 0.                              *)
(***************************************************************************)
EXTENDS Integers, FiniteSets

CONSTANTS
  MaxTurns,    \* turns that the budget of the run allows
  MaxEvents,   \* bound: events of a turn
  Started      \* bound: turns that are started

VARIABLES
  link,       \* [session, index, status], the AgentSessionLink
  traces,     \* <<session, index>> of every trace
  ledger,     \* the turns that are charged
  answered,   \* the turns whose result arrived and was written down
  turn,       \* the turn under way
  count,      \* turns so far
  sessions    \* sessions of Eve so far

vars == <<link, traces, ledger, answered, turn, count, sessions>>

\* A session that Eve has not confirmed goes by the name of its advisor.
Pending == 0
Statuses == {"idle", "waiting_for_input", "completed", "failed"}
NoTurn ==
  [pc |-> "none", handle |-> 0, session |-> Pending, index |-> 0, events |-> 0,
   status |-> "idle", result |-> FALSE]

Init ==
  /\ link = [session |-> Pending, index |-> 0, status |-> "idle"]
  /\ traces = {} /\ ledger = {} /\ answered = {}
  /\ turn = NoTurn /\ count = 0 /\ sessions = 0

-----------------------------------------------------------------------------
(* A turn.                                                                  *)

\* requireAgentRunBudget
InBudget == Cardinality(ledger) < MaxTurns

\* The handle keeps the index of the link, whatever session it belongs to.
Begin(session, index) ==
  /\ turn.pc = "none" /\ InBudget /\ count < Started
  /\ turn' = [NoTurn EXCEPT !.pc = "send", !.handle = link.index, !.session = session,
                            !.index = index]
  /\ count' = count + 1
  /\ UNCHANGED <<link, traces, ledger, answered, sessions>>

\* An observation starts a session, unless a question of the advisor is open;
Observe == link.status # "waiting_for_input" /\ Begin(Pending, 0)

\* an answer goes on with the session of its question.
AnswerInput == link.status = "waiting_for_input" /\ Begin(link.session, link.index)

\* Eve has the message; a new session has its id.
Confirmed == IF turn.session = Pending THEN sessions + 1 ELSE turn.session
Confirm == sessions' = IF turn.session = Pending THEN sessions + 1 ELSE sessions

Outcome(session, reported, extra, status, result) ==
  /\ turn.pc = "send"
  /\ turn' = [turn EXCEPT !.pc = "persist", !.session = session, !.index = @ + reported,
                          !.events = reported + extra, !.status = status, !.result = result]
  /\ UNCHANGED <<link, traces, ledger, answered, count>>

\* Eve answers with a proposal, a failure or, in an event, a question.
Respond ==
  \E n \in 0 .. MaxEvents, status \in {"waiting_for_input", "completed", "failed"} :
    /\ status = "waiting_for_input" => n > 0
    /\ Outcome(Confirmed, n, 0, status, TRUE) /\ Confirm

\* A proposal outside the observation is a failure, with an event of its own.
ProposalRefused == \E n \in 0 .. MaxEvents : Outcome(Confirmed, n, 1, "failed", TRUE) /\ Confirm

\* The message does not reach Eve, or its result does not come back: one event
\* says so.
SendFails == Outcome(turn.session, 0, 1, "failed", FALSE) /\ UNCHANGED sessions
ResultFails == Outcome(Confirmed, 0, 1, "failed", FALSE) /\ Confirm

\* Without an event of Eve's there is an anchor in its place.
Written ==
  {<<turn.session, turn.handle + i>> :
     i \in 0 .. (IF turn.events = 0 THEN 0 ELSE turn.events - 1)}

\* One transaction writes the traces, charges the turn if one of them is new, and
\* leaves the link with the session if it waits, and with the index in any case.
Persist ==
  LET waits == turn.status = "waiting_for_input"
  IN  /\ turn.pc = "persist"
      /\ traces' = traces \cup Written
      /\ ledger' = IF Written \subseteq traces THEN ledger ELSE ledger \cup {count}
      /\ answered' = IF turn.result THEN answered \cup {count} ELSE answered
      /\ link' = [session |-> IF waits THEN turn.session ELSE Pending,
                  index |-> turn.index, status |-> turn.status]
      /\ turn' = NoTurn
      /\ UNCHANGED <<count, sessions>>

\* The process stops in the middle of a turn.
Stop ==
  /\ turn.pc # "none"
  /\ turn' = NoTurn
  /\ UNCHANGED <<link, traces, ledger, answered, count, sessions>>

Next ==
  \/ Observe \/ AnswerInput
  \/ Respond \/ ProposalRefused \/ SendFails \/ ResultFails
  \/ Persist \/ Stop

Spec == Init /\ [][Next]_vars

-----------------------------------------------------------------------------
(* Properties.                                                              *)

TypeOK ==
  /\ link.session \in 0 .. sessions /\ link.index \in Nat /\ link.status \in Statuses
  /\ traces \subseteq (0 .. sessions) \X Nat
  /\ (ledger \cup answered) \subseteq 1 .. count
  /\ turn.pc \in {"none", "send", "persist"} /\ turn.status \in Statuses
  /\ count \in 0 .. Started

\* "Without events of the provider an anchor is added, so that the telemetry can
\* always be charged, once": a turn whose result was written down is charged to
\* the budget of the run.  It is not: the trace index of a turn in a new session
\* starts where the session before ended, the next turn of the session starts
\* where Eve's own count stands, and its traces may all be there already.
EveryTurnIsCharged == answered \subseteq ledger
=============================================================================
