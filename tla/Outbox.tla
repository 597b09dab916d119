-------------------------------- MODULE Outbox --------------------------------
(***************************************************************************)
(* The outbox of the events of one run: a row per event, written in the    *)
(* event's own transaction, and the drains that deliver the rows.          *)
(*                                                                         *)
(* Each process runs at most one drain, which its requests, workflow steps *)
(* and cron jobs share (RuntimeOutboxPublisher.publishPending in the loop  *)
(* of drainRuntimeOutbox): whether a batch is the next one of a drain or   *)
(* the first of a new one, ten batches later, makes no difference here.  A *)
(* claim locks a row for a minute, for whoever comes first; after that     *)
(* nobody asks whose row it is.                                            *)
(***************************************************************************)
EXTENDS Integers, Sequences, FiniteSets

CONSTANTS
  Processes,
  MaxEvents,    \* bound: events of the run
  BatchSize,    \* rows of a claim (100 in the code)
  MaxFaults     \* bound: faults

ASSUME OutboxAssumption ==
  /\ Processes # {}
  /\ {MaxEvents, MaxFaults} \subseteq Nat
  /\ BatchSize \in Nat \ {0}

VARIABLES
  events,   \* how many events are committed
  rows,     \* rows[n], the row of event n
  drains,   \* drains[p], the drain of a process
  budget    \* how many more faults there may be

outboxVars == <<events, rows, drains>>

\* `lock` is "old" when it was taken more than a minute ago; `due` is FALSE
\* while a failed row is put off.
NewRow == [published |-> FALSE, lock |-> "free", due |-> TRUE]
NoDrain == [pc |-> "idle", batch |-> {}]

OutboxInit ==
  /\ events = 0
  /\ rows = <<>>
  /\ drains = [p \in Processes |-> NoDrain]

Fault == budget > 0 /\ budget' = budget - 1

-----------------------------------------------------------------------------
(* The rows.                                                                *)

\* A command commits its events, each with its row.
Commit ==
  /\ events < MaxEvents
  /\ events' = events + 1
  /\ rows' = Append(rows, NewRow)
  /\ UNCHANGED <<drains, budget>>

\* Mutant: a lock is for ever.
ClaimableFree ==
  {n \in DOMAIN rows : ~ rows[n].published /\ rows[n].due /\ rows[n].lock = "free"}
Claimable ==
  {n \in DOMAIN rows : ~ rows[n].published /\ rows[n].due /\ rows[n].lock \in {"free", "old"}}

\* The oldest rows that can be claimed.
Oldest(batch) ==
  /\ Cardinality(batch) =
       IF Cardinality(Claimable) < BatchSize THEN Cardinality(Claimable) ELSE BatchSize
  /\ \A n \in batch, m \in Claimable \ batch : n < m

\* A put off row becomes due again.
BackoffEnds(n) ==
  /\ ~ rows[n].due
  /\ rows' = [rows EXCEPT ![n].due = TRUE]
  /\ UNCHANGED <<events, drains, budget>>

InHands(n) == \E p \in Processes : n \in drains[p].batch

\* The row that a drain is at; it takes a batch by age.
AtRow(p, n) == n \in drains[p].batch /\ \A m \in drains[p].batch : n <= m

\* The lock of a dead drain runs out,
AbandonedLockAges(n) ==
  /\ rows[n].lock = "held" /\ ~ InHands(n)
  /\ rows' = [rows EXCEPT ![n].lock = "old"]
  /\ UNCHANGED <<events, drains, budget>>

\* or that of a slow one.
HeldLockAges(n) ==
  /\ rows[n].lock = "held" /\ InHands(n) /\ Fault
  /\ rows' = [rows EXCEPT ![n].lock = "old"]
  /\ UNCHANGED <<events, drains>>

-----------------------------------------------------------------------------
(* A drain.                                                                 *)

\* claimPendingOutbox, a transaction with locks: two claims do not overlap.  It
\* is called by a drain, or by a request, a step or the cron that starts one.
Claim(p) ==
  /\ drains[p].pc = "idle" /\ Claimable # {}
  /\ \E batch \in SUBSET Claimable :
       /\ Oldest(batch)
       /\ drains' = [drains EXCEPT ![p] = [pc |-> "publish", batch |-> batch]]
       /\ rows' = [n \in DOMAIN rows |-> IF n \in batch THEN [rows[n] EXCEPT !.lock = "held"]
                                         ELSE rows[n]]
  /\ UNCHANGED <<events, budget>>

\* The message goes to the process's hub first and then to the handlers,
Publish(p) ==
  /\ drains[p].pc = "publish"
  /\ drains' = [drains EXCEPT ![p].pc = "mark"]
  /\ UNCHANGED <<events, rows, budget>>

\* one of which may throw after the hub has it.
PublishFails(p) ==
  /\ drains[p].pc = "publish" /\ Fault
  /\ drains' = [drains EXCEPT ![p].pc = "fail"]
  /\ UNCHANGED <<events, rows>>

Continues(p, n) ==
  LET rest == drains[p].batch \ {n}
  IN  [drains EXCEPT ![p] = [pc |-> IF rest = {} THEN "idle" ELSE "publish", batch |-> rest]]

\* markOutboxPublished
MarkPublished(p, n) ==
  /\ drains[p].pc = "mark" /\ AtRow(p, n)
  /\ rows' = [rows EXCEPT ![n] = [@ EXCEPT !.published = TRUE, !.lock = "free"]]
  /\ drains' = Continues(p, n)
  /\ UNCHANGED <<events, budget>>

\* markOutboxFailed, which does not look at what has become of the row.
MarkFailed(p, n) ==
  /\ drains[p].pc = "fail" /\ AtRow(p, n)
  /\ rows' = [rows EXCEPT ![n] = [@ EXCEPT !.due = FALSE, !.lock = "free"]]
  /\ drains' = Continues(p, n)
  /\ UNCHANGED <<events, budget>>

\* The process stops; its drain is gone.
Crash(p) ==
  /\ Fault
  /\ drains' = [drains EXCEPT ![p] = NoDrain]
  /\ UNCHANGED <<events, rows>>

Row == [published : BOOLEAN, lock : {"free", "held", "old"}, due : BOOLEAN]
DrainType == [pc : {"idle", "publish", "mark", "fail"}, batch : SUBSET (1 .. events)]

OutboxTypeOK ==
  /\ events \in 0 .. MaxEvents
  /\ rows \in [1 .. events -> Row]
  /\ drains \in [Processes -> DrainType]
  /\ \A p \in Processes : (drains[p].batch = {}) = (drains[p].pc = "idle")
  /\ budget \in Nat

\* Every row is delivered in the end: also one whose drain died before or after
\* it was handled, was claimed twice or put off by a slow handler that failed
\* while another had it.
EveryRowIsPublished ==
  \A n \in 1 .. MaxEvents : (n <= events) ~> (n <= events /\ rows[n].published)
=============================================================================
