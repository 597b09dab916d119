---------------------------- MODULE EventDelivery ----------------------------
(***************************************************************************)
(* The way of an event from its commit to the timeline of a page: the      *)
(* outbox wakes the streams of its process through the hub, a stream reads *)
(* the events behind its cursor from the database, and the page of the     *)
(* live workspace takes them in, beside the pages of events that it        *)
(* fetches itself when it connects, after an error, and after each of its  *)
(* own commands.                                                           *)
(*                                                                         *)
(* A page may have more than one EventSource: when it comes back online    *)
(* while an older connect still waits for its recovery, both open one, and *)
(* only the later is remembered and closed.                                *)
(***************************************************************************)
EXTENDS Outbox

CONSTANTS
  Sources,       \* EventSource objects, each with its stream
  NoSource,
  StreamPage,    \* events that a stream reads at a time (200 in the code)
  RecoveryPage,  \* events that a recovery asks for (1000 in the code)
  MaxPageFaults  \* bound: faults and answered commands, with a page

ASSUME DeliveryAssumption ==
  /\ NoSource \notin Sources
  /\ {StreamPage, RecoveryPage} \subseteq Nat \ {0}
  /\ MaxPageFaults \in Nat

VARIABLES
  sources,    \* sources[s], an EventSource and the stream that serves it
  store,      \* the page's RunEventStore
  recovery,   \* recoverEvents
  page        \* [open, online, source: the remembered source]

vars == <<events, rows, drains, budget, sources, store, recovery, page>>

\* `upto` is the end of the page of events that was read, `queued` what the hub
\* has told since the stream last looked, `wire` what is on its way to the page.
\* `told` only observes: events the hub told when they were at most a page away,
\* which the stream has not sent.
NoStream ==
  [pc |-> "free", after |-> 0, at |-> CHOOSE p \in Processes : TRUE, cursor |-> 0,
   upto |-> 0, queued |-> {}, wire |-> <<>>, told |-> {}]
Connecting(after) == [NoStream EXCEPT !.pc = "connecting", !.after = after]

\* `floor` is how many events there were when it began; `connect` says
\* whether a connect waits for it.
NoRecovery == [pc |-> "idle", from |-> 0, upto |-> 0, floor |-> 0, connect |-> FALSE]
Recovery(from, connect) ==
  [pc |-> "ask", from |-> from, upto |-> from, floor |-> events, connect |-> connect]

\* The run without a page, or with one that is mounted some time into the run and
\* connects.
Init ==
  /\ OutboxInit
  /\ sources = [s \in Sources |-> NoStream]
  /\ store = [cursor |-> 0, ahead |-> {}, gap |-> FALSE]
  /\ \/ /\ budget = MaxFaults
        /\ recovery = NoRecovery
        /\ page = [open |-> FALSE, online |-> TRUE, source |-> NoSource]
     \/ /\ budget = MaxPageFaults
        /\ recovery = Recovery(0, TRUE)
        /\ page = [open |-> TRUE, online |-> TRUE, source |-> NoSource]

-----------------------------------------------------------------------------
(* The event store of the page.                                             *)

\* The store with further events: the cursor goes as far as there is no gap.
With(st, new) ==
  LET ahead == st.ahead \cup {n \in new : n > st.cursor}
      missing == {n \in st.cursor + 1 .. MaxEvents + 1 : n \notin ahead}
      cursor == (CHOOSE n \in missing : \A m \in missing : n <= m) - 1
      behind == {n \in ahead : n > cursor}
  IN  [cursor |-> cursor, ahead |-> behind, gap |-> behind # {}]

Ingest(st, n) == With(st, {n})

\* The order does not matter: the code sorts them and takes them one by one.
IngestMany(st, from, upto) == With(st, from + 1 .. upto)

-----------------------------------------------------------------------------
(* A stream: streamEvents, behind the route that serves an EventSource.     *)

Live(s) == sources[s].pc \in {"list", "send", "wait"}
At(s, pc) == sources[s].pc = pc

\* The hub of process p tells its streams of an event, and wakes one that waits.
Heard(s, p, n) ==
  IF Live(s) /\ sources[s].at = p
  THEN [sources[s] EXCEPT !.queued = @ \cup {n},
                          !.pc = IF @ = "wait" THEN "list" ELSE @,
                          !.told = IF n - sources[s].cursor \in 1 .. StreamPage
                                   THEN @ \cup {n} ELSE @]
  ELSE sources[s]

Tell(p, n) == sources' = [s \in Sources |-> Heard(s, p, n)]

\* The cursor of a new stream: the URL's, also when the browser connects again
\* and sends the last id it has seen.
Arrive(s, p) ==
  /\ At(s, "connecting") /\ page.online
  /\ sources' = [sources EXCEPT ![s] = [@ EXCEPT !.pc = "list", !.at = p,
                                                 !.cursor = sources[s].after]]
  /\ UNCHANGED <<outboxVars, budget, store, recovery, page>>

\* listEvents, a query: the end of the page behind a cursor.
PageEnd(cursor, size) == IF cursor + size < events THEN cursor + size ELSE events

List(s) ==
  /\ At(s, "list")
  /\ sources' = [sources EXCEPT ![s] =
                   [@ EXCEPT !.pc = "send", !.upto = PageEnd(sources[s].cursor, StreamPage)]]
  /\ UNCHANGED <<outboxVars, budget, store, recovery, page>>

\* Mutant: what the hub told last is passed on, without another look.
PassOn(s) ==
  LET told == sources[s].queued
  IN  IF told = {} THEN <<>> ELSE <<CHOOSE n \in told : \A m \in told : m <= n>>
\* What was read goes out.
Backfill(s) ==
  [i \in 1 .. sources[s].upto - sources[s].cursor |-> sources[s].cursor + i]

\* Mutant: it waits although it was told of an event.
SleepsOn(s) == TRUE
\* Nobody told it of an event since the last time it looked.
Sleeps(s) == sources[s].queued = {}

Sent(s) ==
  [sources[s] EXCEPT !.wire = @ \o Backfill(s), !.cursor = sources[s].upto, !.upto = 0,
                     !.queued = {}, !.told = {n \in @ : n > sources[s].upto},
                     !.pc = IF Sleeps(s) THEN "wait" ELSE "list"]

\* What was read is sent; then the stream looks again, if it was told to, or waits.
Send(s) ==
  /\ At(s, "send")
  /\ sources' = [sources EXCEPT ![s] = Sent(s)]
  /\ UNCHANGED <<outboxVars, budget, store, recovery, page>>

-----------------------------------------------------------------------------
(* The page.                                                                *)

\* recoverEvents does nothing while it is at work.
Recovers(st, connect) ==
  IF recovery.pc = "idle" THEN Recovery(st.cursor, connect) ELSE recovery

\* An event arrives; a gap makes the page fetch what it misses.
Receive(s) ==
  LET st == Ingest(store, Head(sources[s].wire))
  IN  /\ sources[s].wire # <<>>
      /\ sources' = [sources EXCEPT ![s].wire = Tail(@)]
      /\ store' = st
      /\ recovery' = IF st.gap THEN Recovers(st, FALSE) ELSE recovery
      /\ UNCHANGED <<outboxVars, budget, page>>

\* A connection breaks; the browser connects again, and the page recovers.
Reconnecting(s) == Connecting(sources[s].after)
Break(s) ==
  /\ Live(s) /\ Fault
  /\ sources' = [sources EXCEPT ![s] = Reconnecting(s)]
  /\ recovery' = IF page.online THEN Recovers(store, FALSE) ELSE recovery
  /\ UNCHANGED <<outboxVars, store, page>>

\* With a process its streams break.
ProcessStops(p) ==
  /\ Crash(p)
  /\ sources' = [s \in Sources |-> IF Live(s) /\ sources[s].at = p THEN Reconnecting(s)
                                   ELSE sources[s]]
  /\ recovery' = IF page.online /\ sources' # sources THEN Recovers(store, FALSE) ELSE recovery
  /\ UNCHANGED <<store, page>>

\* A page of events is read for the recovery,
RecoveryRead ==
  /\ recovery.pc = "ask" /\ page.online
  /\ recovery' = [recovery EXCEPT !.pc = "reply",
                    !.upto = PageEnd(recovery.from, RecoveryPage)]
  /\ UNCHANGED <<outboxVars, budget, sources, store, page>>

\* Mutant: one page is enough.
LastPageAlways == TRUE
\* A page that is not full is the last.
LastPage == recovery.upto - recovery.from < RecoveryPage

\* A connect opens a source, which the page remembers from now on.
FreeSource == CHOOSE s \in Sources : At(s, "free")
Open(cursor, online) ==
  IF \E s \in Sources : At(s, "free")
  THEN /\ sources' = [sources EXCEPT ![FreeSource] = Connecting(cursor)]
       /\ page' = [page EXCEPT !.online = online, !.source = FreeSource]
  ELSE /\ page' = [page EXCEPT !.online = online]
       /\ UNCHANGED sources

\* and taken in; after the last one a connect that waited goes on.
RecoveryReply ==
  /\ recovery.pc = "reply"
  /\ store' = IngestMany(store, recovery.from, recovery.upto)
  /\ recovery' = IF LastPage THEN NoRecovery
                 ELSE [recovery EXCEPT !.pc = "ask", !.from = recovery.upto]
  /\ IF LastPage /\ recovery.connect THEN Open(store'.cursor, page.online)
     ELSE UNCHANGED <<sources, page>>
  /\ UNCHANGED <<outboxVars, budget>>

\* The run, its approvals and the rest are fetched at the end; if that fails, the
\* events stay but a connect that waited gives up.
RefreshFails ==
  /\ recovery.pc = "reply" /\ LastPage
  /\ IF page.online THEN Fault ELSE UNCHANGED budget
  /\ store' = IngestMany(store, recovery.from, recovery.upto)
  /\ recovery' = NoRecovery
  /\ UNCHANGED <<outboxVars, sources, page>>

\* A fetch fails; a connect that waited for it gives up.
RecoveryFails ==
  /\ recovery.pc = "ask"
  /\ IF page.online THEN Fault ELSE UNCHANGED budget
  /\ recovery' = NoRecovery
  /\ UNCHANGED <<outboxVars, sources, store, page>>

\* The remembered source is closed; one that is not breaks.
Closed ==
  [s \in Sources |-> IF s = page.source THEN NoStream
                     ELSE IF Live(s) THEN Reconnecting(s) ELSE sources[s]]

GoOffline ==
  /\ page.open /\ page.online /\ Fault
  /\ page' = [page EXCEPT !.online = FALSE, !.source = NoSource]
  /\ sources' = Closed
  /\ UNCHANGED <<outboxVars, store, recovery>>

\* The page connects, after a recovery, or at once while another one is at work.
GoOnline ==
  /\ ~ page.online
  /\ IF recovery.pc = "idle"
     THEN /\ recovery' = Recovers(store, TRUE)
          /\ page' = [page EXCEPT !.online = TRUE]
          /\ UNCHANGED sources
     ELSE Open(store.cursor, TRUE) /\ UNCHANGED recovery
  /\ UNCHANGED <<outboxVars, budget, store>>

\* A command of the page, committed or not, is answered, and the page recovers.
Answer ==
  /\ page.open /\ page.online /\ Fault
  /\ recovery' = Recovers(store, FALSE)
  /\ UNCHANGED <<outboxVars, sources, store, page>>

-----------------------------------------------------------------------------
(* The system.                                                              *)

\* A command of this page or of somebody else.
Command == Commit /\ UNCHANGED <<sources, store, recovery, page>>

Age(n) ==
  /\ BackoffEnds(n) \/ AbandonedLockAges(n)
  /\ UNCHANGED <<sources, store, recovery, page>>

Outlive(n) == HeldLockAges(n) /\ UNCHANGED <<sources, store, recovery, page>>

StartDrain(p) == Claim(p) /\ UNCHANGED <<sources, store, recovery, page>>

Mark(p, n) ==
  /\ MarkPublished(p, n) \/ MarkFailed(p, n)
  /\ UNCHANGED <<sources, store, recovery, page>>

Deliver(p, n) ==
  /\ AtRow(p, n) /\ Tell(p, n)
  /\ Publish(p) \/ PublishFails(p)
  /\ UNCHANGED <<store, recovery, page>>

GoesOn(p) == \E n \in DOMAIN rows : Mark(p, n) \/ Deliver(p, n)

Next ==
  \/ Command
  \/ \E n \in DOMAIN rows : Age(n) \/ Outlive(n)
  \/ \E p \in Processes : StartDrain(p) \/ GoesOn(p) \/ ProcessStops(p)
  \/ \E s \in Sources : \/ \E p \in Processes : Arrive(s, p)
                        \/ List(s) \/ Send(s) \/ Receive(s) \/ Break(s)
  \/ RecoveryRead \/ RecoveryReply \/ RefreshFails \/ RecoveryFails \/ Answer
  \/ GoOffline \/ GoOnline

\* Locks and delays run out, the cron starts a drain in some process, and a drain
\* that was started goes on.
Fairness ==
  /\ \A n \in 1 .. MaxEvents : WF_vars(n \in DOMAIN rows /\ Age(n))
  /\ WF_vars(\E p \in Processes : StartDrain(p))
  /\ \A p \in Processes : WF_vars(GoesOn(p))

Spec == Init /\ [][Next]_vars /\ Fairness

-----------------------------------------------------------------------------
(* Properties.                                                              *)

Cursor == 0 .. events
Event == 1 .. events
Source ==
  [pc : {"free", "connecting", "list", "send", "wait"}, after : Cursor, at : Processes,
   cursor : Cursor, upto : Cursor, queued : SUBSET Event, wire : Seq(Nat),
   told : SUBSET Event]

TypeOK ==
  /\ OutboxTypeOK
  /\ sources \in [Sources -> Source]
  /\ store \in [cursor : Cursor, ahead : SUBSET Event, gap : BOOLEAN]
  /\ recovery \in [pc : {"idle", "ask", "reply"}, from : Cursor, upto : Cursor,
                   floor : Cursor, connect : BOOLEAN]
  /\ page \in [open : BOOLEAN, online : BOOLEAN, source : Sources \cup {NoSource}]

\* The timeline of a page is the stream of the run up to its cursor: whatever
\* breaks, is fetched at the same time, told twice or out of order, an event
\* comes after the one before it and a gap is never seen.
TimelineIsPrefix == store.ahead = {} /\ ~ store.gap

\* Both together, as a run checks them.
DeliveryInv == TypeOK /\ TimelineIsPrefix

\* "Events can always be fetched from the database by their cursor, so that a
\* lost push does no harm": a recovery ends with all that was there when it
\* began, whatever streams bring in meanwhile.
RecoveryCatchesUp ==
  [][(recovery.pc = "reply" /\ recovery'.pc = "idle") => store'.cursor >= recovery.floor]_vars

\* No wakeup is lost: a stream waits only when it has sent every event it was
\* told of, however the telling falls between its reading, sending and waiting.
\* (One told of an event more than a page away may wait without it.)
ToldStreamDelivers == \A s \in Sources : At(s, "wait") => sources[s].told = {}
=============================================================================
