------------------------- MODULE EventDeliveryProofs -------------------------
(***************************************************************************)
(* What holds of the delivery of events for any number of processes,       *)
(* sources, events and faults and pages of any size: its types, that the   *)
(* timeline of the page is a prefix of the stream, that no wakeup is lost  *)
(* and that a recovery catches up.                                         *)
(*                                                                         *)
(* All of it follows from IInv.  The timeline has no gap because whatever  *)
(* is on its way to the page is consecutive and begins no later than right *)
(* behind the page's cursor: a stream starts at the cursor that the page   *)
(* had when it connected, and that only grows, and so does the cursor at   *)
(* which a recovery asks.  What the hub tells does not enter into it: a    *)
(* stream sends what it has read, never what it was told.                  *)
(***************************************************************************)
EXTENDS EventDelivery, TLAPS, SequenceTheorems, FiniteSetTheorems

\* w has the numbers behind from, up to upto.
Consecutive(w, from, upto) ==
  /\ w \in Seq(Nat) /\ from \in Nat /\ upto \in Nat
  /\ upto = from + Len(w)
  /\ \A i \in 1 .. Len(w) : w[i] = from + i

\* What a stream has sent, is about to send and has been told of, in view of the
\* cursor of the page: what is on the wire ends at the stream's cursor and begins
\* no later than right behind the page's.
Fits(src, cursor) ==
  /\ src.after <= cursor
  /\ src.pc \in {"free", "connecting"} => src.wire = <<>> /\ src.cursor = 0 /\ src.told = {}
  /\ \E from \in Nat : from <= cursor /\ Consecutive(src.wire, from, src.cursor)
  /\ src.pc = "send" => src.cursor <= src.upto
  /\ src.pc = "send" => \A n \in src.told : n <= src.upto \/ n \in src.queued
  /\ src.pc = "wait" => src.told = {}
  /\ \A n \in src.told : n <= src.cursor + StreamPage

SourcesFit == sources \in [Sources -> Source] /\ \A s \in Sources : Fits(sources[s], store.cursor)

StoreType == [cursor : Cursor, ahead : SUBSET Event, gap : BOOLEAN]
NoGap(st) == st.ahead = {} /\ st.gap = FALSE
StoreFits == store \in StoreType /\ NoGap(store)

\* A recovery begins at what the page has, and its last page reaches what there
\* was when it began.
RecoveryType ==
  [pc : {"idle", "ask", "reply"}, from : Cursor, upto : Cursor, floor : Cursor,
   connect : BOOLEAN]
Reaches(r, cursor) ==
  /\ r.from <= cursor
  /\ r.from <= r.upto
  /\ r.pc = "reply" => (r.upto - r.from < RecoveryPage => r.floor <= r.upto)
RecoveryFits == recovery \in RecoveryType /\ Reaches(recovery, store.cursor)

PageType == page \in [open : BOOLEAN, online : BOOLEAN, source : Sources \cup {NoSource}]

IInv == OutboxTypeOK /\ SourcesFit /\ StoreFits /\ RecoveryFits /\ PageType

\* Events that begin no later than right behind the cursor leave no gap.
LEMMA WithContiguous ==
  ASSUME events \in 0 .. MaxEvents, NEW st \in StoreType, NoGap(st),
         NEW from \in Nat, NEW upto \in Nat, from <= st.cursor, upto <= events
  PROVE  With(st, from + 1 .. upto) =
           [cursor |-> IF st.cursor < upto THEN upto ELSE st.cursor,
            ahead |-> {}, gap |-> FALSE]
  <1> DEFINE ahead == st.ahead \cup {n \in from + 1 .. upto : n > st.cursor}
             missing == {n \in st.cursor + 1 .. MaxEvents + 1 : n \notin ahead}
             c == IF st.cursor < upto THEN upto ELSE st.cursor
             first == CHOOSE n \in missing : \A m \in missing : n <= m
             behind == {n \in ahead : n > first - 1}
  <1>1. /\ st.cursor \in 0 .. MaxEvents /\ MaxEvents \in Nat /\ upto \in 0 .. MaxEvents
        /\ c \in 0 .. MaxEvents
    BY OutboxAssumption DEF StoreType, Cursor
  <1>2. ahead = st.cursor + 1 .. upto
    BY <1>1 DEF NoGap
  <1>3. missing = c + 1 .. MaxEvents + 1
    BY <1>1, <1>2
  <1> HIDE DEF missing
  <1>4. first = c + 1
    <2>1. c + 1 \in missing /\ \A m \in missing : c + 1 <= m
      BY <1>1, <1>3
    <2>2. first \in missing /\ \A m \in missing : first <= m
      BY <2>1
    <2> QED
      BY <2>1, <2>2, <1>1, <1>3
  <1> HIDE DEF first, ahead
  <1>5. first - 1 = c
    BY <1>1, <1>4
  <1>6. behind = {}
    BY <1>1, <1>2, <1>5
  <1> USE DEF first, ahead
  <1> QED
    BY <1>5, <1>6 DEF With, missing

-----------------------------------------------------------------------------
(* The outbox.                                                              *)

LEMMA OutboxInitType == ASSUME Init PROVE OutboxTypeOK
  <1>1. events = 0 /\ rows = <<>> /\ drains = [p \in Processes |-> NoDrain] /\ budget \in Nat
    BY OutboxAssumption, DeliveryAssumption DEF Init, OutboxInit
  <1>2. NoDrain \in DrainType
    BY DEF NoDrain, DrainType
  <1>3. rows \in [1 .. events -> Row]
    BY <1>1
  <1>4. drains \in [Processes -> DrainType]
    BY <1>1, <1>2
  <1> QED
    BY <1>1, <1>3, <1>4, OutboxAssumption DEF OutboxTypeOK, NoDrain

LEMMA FaultType == ASSUME budget \in Nat, Fault PROVE budget' \in Nat
BY DEF Fault

LEMMA CommitType == ASSUME OutboxTypeOK, Commit PROVE OutboxTypeOK' /\ events' = events + 1
  <1>1. events' = events + 1 /\ events' \in 0 .. MaxEvents /\ events \in Nat
    BY OutboxAssumption DEF OutboxTypeOK, Commit
  <1>2. NewRow \in Row
    BY DEF NewRow, Row
  <1>3. rows \in Seq(Row) /\ Len(rows) = events
    BY <1>1 DEF OutboxTypeOK
  <1>4. rows' \in Seq(Row) /\ Len(rows') = events'
    BY <1>1, <1>2, <1>3, AppendProperties DEF Commit
  <1>5. rows' \in [1 .. events' -> Row]
    BY <1>4, LenProperties
  <1>6. DrainType \subseteq DrainType'
    BY <1>1 DEF DrainType
  <1> QED
    BY <1>1, <1>5, <1>6 DEF OutboxTypeOK, Commit

LEMMA AgeType ==
  ASSUME OutboxTypeOK, NEW n \in DOMAIN rows,
         BackoffEnds(n) \/ AbandonedLockAges(n) \/ HeldLockAges(n)
  PROVE  OutboxTypeOK' /\ events' = events
  <1>1. UNCHANGED <<events, drains>> /\ budget' \in Nat
    BY FaultType DEF OutboxTypeOK, BackoffEnds, AbandonedLockAges, HeldLockAges
  <1>2. rows' \in [1 .. events -> Row]
    <2>1. rows[n] \in Row
      BY DEF OutboxTypeOK
    <2>2. [rows[n] EXCEPT !.due = TRUE] \in Row /\ [rows[n] EXCEPT !.lock = "old"] \in Row
      BY <2>1 DEF Row
    <2>3. \E row \in Row : rows' = [rows EXCEPT ![n] = row]
      BY <2>2 DEF BackoffEnds, AbandonedLockAges, HeldLockAges
    <2> QED
      BY <2>3 DEF OutboxTypeOK
  <1> QED
    BY <1>1, <1>2 DEF OutboxTypeOK, DrainType

\* A claim takes at least one row.
LEMMA OldestIsNotEmpty ==
  ASSUME OutboxTypeOK, Claimable # {}, NEW batch \in SUBSET Claimable, Oldest(batch)
  PROVE  batch # {}
  <1>1. IsFiniteSet(Claimable) /\ Cardinality(Claimable) \in Nat
    <2>1. Claimable \subseteq 1 .. events
      BY DEF Claimable, OutboxTypeOK
    <2>2. IsFiniteSet(1 .. events)
      BY FS_Interval DEF OutboxTypeOK
    <2> QED
      BY <2>1, <2>2, FS_Subset, FS_CardinalityType
  <1>2. Cardinality(Claimable) # 0
    BY <1>1, FS_EmptySet
  <1>3. Cardinality(batch) # 0
    BY <1>1, <1>2, OutboxAssumption DEF Oldest
  <1> QED
    BY <1>3, FS_EmptySet

LEMMA ClaimType ==
  ASSUME OutboxTypeOK, NEW p \in Processes, Claim(p)
  PROVE  OutboxTypeOK' /\ events' = events
  <1>1. PICK batch \in SUBSET Claimable :
          /\ Oldest(batch)
          /\ drains' = [drains EXCEPT ![p] = [pc |-> "publish", batch |-> batch]]
          /\ rows' = [n \in DOMAIN rows |-> IF n \in batch THEN [rows[n] EXCEPT !.lock = "held"]
                                            ELSE rows[n]]
    BY DEF Claim
  <1>2. UNCHANGED <<events, budget>>
    BY DEF Claim
  <1>3. Claimable \subseteq 1 .. events
    BY DEF Claimable, OutboxTypeOK
  <1>4. batch # {}
    BY OldestIsNotEmpty, <1>1 DEF Claim
  <1>5. \A n \in DOMAIN rows : rows[n] \in Row /\ [rows[n] EXCEPT !.lock = "held"] \in Row
    BY DEF OutboxTypeOK, Row
  <1>6. rows' \in [1 .. events -> Row]
    BY <1>1, <1>5 DEF OutboxTypeOK
  <1>7. [pc |-> "publish", batch |-> batch] \in DrainType
    BY <1>1, <1>3 DEF DrainType
  <1>8. drains' \in [Processes -> DrainType]
    BY <1>1, <1>7 DEF OutboxTypeOK
  <1>9. \A q \in Processes : (drains'[q].batch = {}) = (drains'[q].pc = "idle")
    BY <1>1, <1>4 DEF OutboxTypeOK
  <1> QED
    BY <1>2, <1>6, <1>8, <1>9 DEF OutboxTypeOK, DrainType

LEMMA MarkType ==
  ASSUME OutboxTypeOK, NEW p \in Processes, NEW n \in DOMAIN rows,
         MarkPublished(p, n) \/ MarkFailed(p, n)
  PROVE  OutboxTypeOK' /\ events' = events
  <1> DEFINE rest == drains[p].batch \ {n}
             d == [pc |-> IF rest = {} THEN "idle" ELSE "publish", batch |-> rest]
  <1>1. UNCHANGED <<events, budget>> /\ drains' = [drains EXCEPT ![p] = d]
    BY DEF MarkPublished, MarkFailed, Continues
  <1>2. d \in DrainType /\ (d.batch = {}) = (d.pc = "idle")
    BY DEF OutboxTypeOK, DrainType
  <1> HIDE DEF d
  <1>3. /\ drains' \in [Processes -> DrainType]
        /\ \A q \in Processes : (drains'[q].batch = {}) = (drains'[q].pc = "idle")
    BY <1>1, <1>2 DEF OutboxTypeOK
  <1>4. rows' \in [1 .. events -> Row]
    <2>1. rows[n] \in Row
      BY DEF OutboxTypeOK
    <2>2. /\ [rows[n] EXCEPT !.published = TRUE, !.lock = "free"] \in Row
          /\ [rows[n] EXCEPT !.due = FALSE, !.lock = "free"] \in Row
      BY <2>1 DEF Row
    <2>3. \E row \in Row : rows' = [rows EXCEPT ![n] = row]
      BY <2>2 DEF MarkPublished, MarkFailed
    <2> QED
      BY <2>3 DEF OutboxTypeOK
  <1> QED
    BY <1>1, <1>3, <1>4 DEF OutboxTypeOK, DrainType

LEMMA PublishType ==
  ASSUME OutboxTypeOK, NEW p \in Processes, Publish(p) \/ PublishFails(p)
  PROVE  OutboxTypeOK' /\ events' = events
  <1>1. UNCHANGED <<events, rows>> /\ budget' \in Nat
    BY FaultType DEF OutboxTypeOK, Publish, PublishFails
  <1>2. PICK pc \in {"mark", "fail"} : drains' = [drains EXCEPT ![p].pc = pc]
    BY DEF Publish, PublishFails
  <1>3. drains[p].pc = "publish" /\ drains[p] \in DrainType
    BY DEF Publish, PublishFails, OutboxTypeOK
  <1>4. [drains[p] EXCEPT !.pc = pc] \in DrainType
    BY <1>3 DEF DrainType
  <1>5. drains' = [drains EXCEPT ![p] = [drains[p] EXCEPT !.pc = pc]]
    BY <1>2
  <1>6. drains' \in [Processes -> DrainType]
    BY <1>4, <1>5 DEF OutboxTypeOK
  <1>7. \A q \in Processes : (drains'[q].batch = {}) = (drains'[q].pc = "idle")
    BY <1>3, <1>5 DEF OutboxTypeOK, DrainType
  <1> QED
    BY <1>1, <1>6, <1>7 DEF OutboxTypeOK, DrainType

LEMMA CrashType ==
  ASSUME OutboxTypeOK, NEW p \in Processes, Crash(p)
  PROVE  OutboxTypeOK' /\ events' = events
  <1>1. UNCHANGED <<events, rows>> /\ budget' \in Nat
    BY FaultType DEF OutboxTypeOK, Crash
  <1>2. NoDrain \in DrainType /\ NoDrain.batch = {} /\ NoDrain.pc = "idle"
    BY DEF NoDrain, DrainType
  <1>3. drains' = [drains EXCEPT ![p] = NoDrain]
    BY DEF Crash
  <1>4. /\ drains' \in [Processes -> DrainType]
        /\ \A q \in Processes : (drains'[q].batch = {}) = (drains'[q].pc = "idle")
    BY <1>2, <1>3 DEF OutboxTypeOK
  <1> QED
    BY <1>1, <1>4 DEF OutboxTypeOK, DrainType

-----------------------------------------------------------------------------
(* Streams and sources.                                                     *)

LEMMA ConsecutiveEmpty == ASSUME NEW a \in Nat PROVE Consecutive(<<>>, a, a)
BY EmptySeq DEF Consecutive

LEMMA ConsecutiveConcat ==
  ASSUME NEW u, NEW v, NEW a, NEW b, NEW c, Consecutive(u, a, b), Consecutive(v, b, c)
  PROVE  Consecutive(u \o v, a, c)
  <1> DEFINE w == u \o v
  <1>1. /\ u \in Seq(Nat) /\ v \in Seq(Nat) /\ a \in Nat /\ b \in Nat /\ c \in Nat
        /\ Len(u) \in Nat /\ Len(v) \in Nat /\ b = a + Len(u) /\ c = b + Len(v)
        /\ \A i \in 1 .. Len(u) : u[i] = a + i
        /\ \A i \in 1 .. Len(v) : v[i] = b + i
    BY LenProperties DEF Consecutive
  <1>2. /\ w \in Seq(Nat) /\ Len(w) = Len(u) + Len(v)
        /\ \A i \in 1 .. Len(w) : w[i] = IF i <= Len(u) THEN u[i] ELSE v[i - Len(u)]
    BY <1>1, ConcatProperties
  <1> HIDE DEF w
  <1>3. ASSUME NEW i \in 1 .. Len(w) PROVE w[i] = a + i
    <2>1. CASE i <= Len(u)
      <3>1. i \in 1 .. Len(u)
        BY <2>1, <1>1, <1>2
      <3>2. w[i] = u[i] /\ u[i] = a + i
        BY <2>1, <3>1, <1>1, <1>2
      <3> QED
        BY <3>2
    <2>2. CASE Len(u) < i
      <3>1. i - Len(u) \in 1 .. Len(v)
        BY <2>2, <1>1, <1>2
      <3>2. w[i] = v[i - Len(u)] /\ v[i - Len(u)] = b + (i - Len(u))
        BY <2>2, <3>1, <1>1, <1>2
      <3> QED
        BY <3>2, <1>1, <1>2
    <2> QED
      BY <2>1, <2>2, <1>1, <1>2
  <1>4. Consecutive(w, a, c)
    BY <1>1, <1>2, <1>3 DEF Consecutive
  <1> QED
    BY <1>4 DEF w

\* What fits a cursor fits a greater one.
LEMMA FitsFurther ==
  ASSUME NEW src \in Source, NEW c \in Nat, NEW d \in Nat, c <= d, events \in Nat, Fits(src, c)
  PROVE  Fits(src, d)
BY DEF Fits, Source, Cursor

LEMMA NoStreamFits ==
  ASSUME events \in Nat, NEW c \in Nat
  PROVE  NoStream \in Source /\ Fits(NoStream, c)
  <1>1. NoStream.at \in Processes
    BY OutboxAssumption DEF NoStream
  <1>2. <<>> \in Seq(Nat) /\ Len(<<>>) = 0
    BY EmptySeq
  <1> QED
    BY <1>1, <1>2, ConsecutiveEmpty DEF NoStream, Source, Cursor, Event, Fits

\* A source that connects behind what the page has fits.
LEMMA ConnectingFits ==
  ASSUME events \in Nat, NEW after \in Cursor, NEW c \in Nat, after <= c
  PROVE  Connecting(after) \in Source /\ Fits(Connecting(after), c)
  <1>1. NoStream \in Source /\ Fits(NoStream, c) /\ NoStream.pc = "free"
    BY NoStreamFits DEF NoStream
  <1> DEFINE new == Connecting(after)
  <1>2. /\ new \in Source /\ new.pc = "connecting" /\ new.after = after
        /\ new.wire = NoStream.wire /\ new.cursor = NoStream.cursor /\ new.told = NoStream.told
    BY <1>1 DEF Connecting, Source
  <1>3. Fits(new, c)
    <2> HIDE DEF new
    <2> QED
      BY <1>1, <1>2 DEF Fits
  <1> QED
    BY <1>2, <1>3

LEMMA ConsecutiveTail ==
  ASSUME NEW w, NEW a, NEW b, Consecutive(w, a, b), w # <<>>
  PROVE  Head(w) = a + 1 /\ a + 1 <= b /\ Consecutive(Tail(w), a + 1, b)
  <1>1. /\ w \in Seq(Nat) /\ a \in Nat /\ b = a + Len(w) /\ Len(w) \in Nat /\ Len(w) > 0
        /\ \A i \in 1 .. Len(w) : w[i] = a + i
    BY LenProperties, EmptySeq DEF Consecutive
  <1>2. /\ Head(w) = w[1] /\ Tail(w) \in Seq(Nat) /\ Len(Tail(w)) = Len(w) - 1
        /\ \A i \in 1 .. Len(Tail(w)) : Tail(w)[i] = w[i + 1]
    BY <1>1, HeadTailProperties
  <1>3. ASSUME NEW i \in 1 .. Len(Tail(w)) PROVE Tail(w)[i] = (a + 1) + i
    <2>1. Tail(w)[i] = w[i + 1] /\ i + 1 \in 1 .. Len(w)
      BY <1>1, <1>2
    <2>2. w[i + 1] = a + (i + 1)
      BY <2>1, <1>1
    <2> QED
      BY <2>1, <2>2, <1>1, <1>2
  <1>4. Head(w) = a + 1
    BY <1>1, <1>2
  <1> QED
    BY <1>1, <1>2, <1>3, <1>4 DEF Consecutive

\* To send a page that was read is to go on where the wire ends.
LEMMA SendFits ==
  ASSUME events \in Nat, NEW c \in Nat, NEW s \in Sources,
         sources[s] \in Source, Fits(sources[s], c), At(s, "send"),
         NEW src, src = Sent(s)
  PROVE  src \in Source /\ Fits(src, c)
  <1> DEFINE old == sources[s]
             wire == old.wire \o Backfill(s)
             told == {n \in old.told : n > old.upto}
  <1>1. /\ old.cursor \in Nat /\ old.upto \in Nat /\ old.upto <= events
        /\ old.cursor <= old.upto
    BY DEF Source, Cursor, Fits, At
  <1>2. PICK from \in Nat : from <= c /\ Consecutive(old.wire, from, old.cursor)
    BY DEF Fits
  <1>3. Consecutive(Backfill(s), old.cursor, old.upto)
    <2> DEFINE k == old.upto - old.cursor
    <2>1. k \in Nat /\ \A i \in 1 .. k : old.cursor + i \in Nat
      BY <1>1 DEF Event
    <2>2. Backfill(s) = [i \in 1 .. k |-> old.cursor + i]
      BY DEF Backfill
    <2>3. old.cursor + k = old.upto
      BY <1>1
    <2> HIDE DEF k, old
    <2>4. Backfill(s) \in [1 .. k -> Nat]
      BY <2>1, <2>2
    <2>5. Backfill(s) \in Seq(Nat) /\ Len(Backfill(s)) = k
      BY <2>1, <2>4
    <2> QED
      BY <1>1, <2>1, <2>2, <2>3, <2>5 DEF Consecutive
  <1>4. Consecutive(wire, from, old.upto)
    BY <1>2, <1>3, ConsecutiveConcat
  <1>5. src.pc = (IF Sleeps(s) THEN "wait" ELSE "list") /\ src.after = old.after /\ src.wire = wire
        /\ src.cursor = old.upto /\ src.told = told /\ src.queued = {} /\ src.upto = 0
        /\ src.at = old.at
        /\ src = [pc |-> src.pc, after |-> old.after, at |-> old.at, cursor |-> old.upto,
                  upto |-> 0, queued |-> {}, wire |-> wire, told |-> told]
    BY DEF Source, Sent
  <1>6. src.pc = "wait" => told = {}
    <2>1. src.pc = "wait" => old.queued = {}
      BY <1>5 DEF Sleeps
    <2>2. \A n \in old.told : n <= old.upto \/ n \in old.queued
      BY DEF Fits, At
    <2>3. \A n \in old.told : n \in Nat
      BY DEF Source, Event
    <2> QED
      BY <2>1, <2>2, <2>3, <1>1
  <1>7. \A n \in told : n <= old.upto + StreamPage
    BY <1>1, DeliveryAssumption DEF Fits, Source, Event
  <1>8. old.after \in Cursor /\ old.at \in Processes /\ old.upto \in Cursor /\ told \in SUBSET Event
        /\ 0 \in Cursor /\ old.after <= c
    BY DEF Source, Fits, Cursor
  <1> HIDE DEF wire, told, old
  <1>9. src \in Source
    BY <1>4, <1>5, <1>8 DEF Source, Consecutive
  <1>10. Fits(src, c)
    BY ONLY <1>2, <1>4, <1>5, <1>6, <1>7, <1>8 DEF Fits
  <1> QED
    BY <1>9, <1>10

\* A stream that reads a page is told of nothing behind it.
LEMMA ListFits ==
  ASSUME events \in Nat, NEW c \in Nat, NEW s \in Sources,
         sources[s] \in Source, Fits(sources[s], c), At(s, "list"),
         NEW src, src = [sources[s] EXCEPT !.pc = "send",
                                           !.upto = PageEnd(sources[s].cursor, StreamPage)]
  PROVE  src \in Source /\ Fits(src, c)
  <1> DEFINE end == PageEnd(sources[s].cursor, StreamPage)
  <1>1. /\ sources[s].cursor \in Cursor
        /\ end \in Cursor /\ sources[s].cursor <= end
        /\ \A n \in Event : n <= sources[s].cursor + StreamPage => n <= end
    BY DeliveryAssumption DEF PageEnd, Source, Cursor, Event
  <1>2. src \in Source
    BY <1>1 DEF Source
  <1>3. \A n \in sources[s].told : n \in Event /\ n <= sources[s].cursor + StreamPage
    BY DEF Source, Fits
  <1>4. /\ src.pc = "send" /\ src.upto = end /\ src.after = sources[s].after
        /\ src.wire = sources[s].wire /\ src.cursor = sources[s].cursor
        /\ src.told = sources[s].told
    BY DEF Source
  <1>5. \A n \in src.told : n <= src.upto /\ n <= src.cursor + StreamPage
    BY <1>1, <1>3, <1>4
  <1>6. /\ sources[s].after <= c
        /\ \E from \in Nat : from <= c /\ Consecutive(sources[s].wire, from, sources[s].cursor)
    BY DEF Fits
  <1> HIDE DEF end
  <1>7. Fits(src, c)
    BY ONLY <1>1, <1>4, <1>5, <1>6 DEF Fits
  <1> QED
    BY <1>2, <1>7

\* What the hub tells a stream is read later, or behind what it reads now.
LEMMA HeardFits ==
  ASSUME events \in Nat, NEW c \in Nat, NEW s \in Sources, NEW p, NEW n \in Event,
         sources[s] \in Source, Fits(sources[s], c)
  PROVE  Heard(s, p, n) \in Source /\ Fits(Heard(s, p, n), c)
  <1> DEFINE old == sources[s]
             told == IF n - old.cursor \in 1 .. StreamPage THEN old.told \cup {n} ELSE old.told
             pc == IF old.pc = "wait" THEN "list" ELSE old.pc
             new == [old EXCEPT !.queued = @ \cup {n}, !.pc = pc, !.told = told]
  <1>1. CASE ~ (Live(s) /\ old.at = p)
    BY <1>1 DEF Heard
  <1>2. CASE Live(s) /\ old.at = p
    <2>1. Heard(s, p, n) = new
      BY <1>2 DEF Heard, Source
    <2>0. /\ old.cursor \in Nat /\ old.told \in SUBSET Event /\ StreamPage \in Nat /\ n \in Nat
          /\ \A m \in old.told : m <= old.cursor + StreamPage
      BY DeliveryAssumption DEF Source, Fits, Event, Cursor
    <2>2. /\ told \in SUBSET Event
          /\ \A m \in told : m <= old.cursor + StreamPage
          /\ old.cursor \in Nat
      BY <2>0
    <2>3. /\ pc \in {"list", "send"} /\ (pc = "send" => old.pc = "send")
          /\ pc \in {"free", "connecting", "list", "send", "wait"}
      BY <1>2 DEF Live, Source
    <2>4. told \subseteq old.told \cup {n}
      OBVIOUS
    <2> HIDE DEF told, pc
    <2>5. /\ new \in Source /\ new.pc = pc /\ new.told = told
          /\ new.queued = old.queued \cup {n} /\ new.after = old.after
          /\ new.wire = old.wire /\ new.cursor = old.cursor /\ new.upto = old.upto
      BY <2>2, <2>3 DEF Source
    <2> HIDE DEF new
    <2>6. Fits(new, c)
      BY <2>2, <2>3, <2>4, <2>5 DEF Fits
    <2> QED
      BY <2>1, <2>5, <2>6
  <1> QED
    BY <1>1, <1>2

-----------------------------------------------------------------------------
(* The parts of the invariant and the steps.                                *)

LEMMA EventsAreNat == ASSUME OutboxTypeOK PROVE events \in Nat /\ events \in 0 .. MaxEvents
BY OutboxAssumption DEF OutboxTypeOK

LEMMA InitInv == ASSUME Init PROVE IInv
  <1>1. OutboxTypeOK /\ events = 0 /\ events \in Nat
    BY OutboxInitType DEF Init, OutboxInit
  <1>2. store = [cursor |-> 0, ahead |-> {}, gap |-> FALSE] /\ 0 \in Cursor
    BY <1>1 DEF Init, Cursor
  <1>3. StoreFits
    BY <1>2 DEF StoreFits, StoreType, NoGap
  <1>4. SourcesFit
    BY <1>1, <1>2, NoStreamFits DEF Init, SourcesFit
  <1>5. PageType
    <2>1. \/ page = [open |-> FALSE, online |-> TRUE, source |-> NoSource]
          \/ page = [open |-> TRUE, online |-> TRUE, source |-> NoSource]
      BY DEF Init
    <2>2. \A b \in BOOLEAN : [open |-> b, online |-> TRUE, source |-> NoSource]
                 \in [open : BOOLEAN, online : BOOLEAN, source : Sources \cup {NoSource}]
      OBVIOUS
    <2> QED
      BY <2>1, <2>2 DEF PageType
  <1>6. /\ NoRecovery \in RecoveryType /\ Reaches(NoRecovery, 0)
        /\ Recovery(0, TRUE) \in RecoveryType /\ Reaches(Recovery(0, TRUE), 0)
    BY <1>1, <1>2 DEF NoRecovery, Recovery, RecoveryType, Reaches
  <1>7. RecoveryFits
    <2>1. recovery = NoRecovery \/ recovery = Recovery(0, TRUE)
      BY DEF Init
    <2>2. store.cursor = 0
      BY <1>2
    <2> QED
      BY <2>1, <2>2, <1>6 DEF RecoveryFits
  <1> QED
    BY <1>1, <1>3, <1>4, <1>5, <1>7 DEF IInv

\* A recovery that begins, or not, behind what the page has.
LEMMA RecoversFit ==
  ASSUME IInv, NEW st \in StoreType, store.cursor <= st.cursor, NEW connect \in BOOLEAN
  PROVE  Recovers(st, connect) \in RecoveryType /\ Reaches(Recovers(st, connect), st.cursor)
  <1>1. events \in Nat /\ events \in Cursor /\ store.cursor \in Cursor /\ st.cursor \in Cursor
    BY EventsAreNat DEF IInv, StoreFits, StoreType, Cursor
  <1>2. CASE recovery.pc = "idle"
    <2>1. Recovers(st, connect) = Recovery(st.cursor, connect)
      BY <1>2 DEF Recovers
    <2> QED
      BY <2>1, <1>1 DEF Recovery, RecoveryType, Reaches, Cursor
  <1>3. CASE recovery.pc # "idle"
    <2>1. Recovers(st, connect) = recovery
      BY <1>3 DEF Recovers
    <2>2. recovery \in RecoveryType /\ Reaches(recovery, store.cursor)
      BY DEF IInv, RecoveryFits
    <2> QED
      BY <2>1, <2>2, <1>1 DEF Reaches, RecoveryType, Cursor
  <1> QED
    BY <1>2, <1>3

\* The other sources still fit when the page has more.
LEMMA SourcesFitFurther ==
  ASSUME IInv, NEW c \in Nat, store.cursor <= c, NEW s \in Sources
  PROVE  sources[s] \in Source /\ Fits(sources[s], c)
BY FitsFurther, EventsAreNat DEF IInv, SourcesFit, StoreFits, StoreType, Cursor

\* A step that leaves the page alone.
LEMMA Elsewhere ==
  ASSUME IInv, OutboxTypeOK', events' = events, UNCHANGED <<sources, store, recovery, page>>
  PROVE  IInv'
BY DEF IInv, SourcesFit, StoreFits, RecoveryFits, PageType, Source, StoreType, RecoveryType,
       Cursor, Event

\* A step of one source, with what it changes for the page.
LEMMA SourceStep ==
  ASSUME IInv, OutboxTypeOK', events' = events,
         NEW s \in Sources, NEW src \in Source, sources' = [sources EXCEPT ![s] = src],
         store' \in StoreType, NoGap(store'), store.cursor <= store'.cursor,
         Fits(src, store'.cursor),
         recovery' \in RecoveryType, Reaches(recovery', store'.cursor), PageType'
  PROVE  IInv'
  <1>1. /\ Source' = Source /\ StoreType' = StoreType /\ RecoveryType' = RecoveryType
    BY DEF Source, StoreType, RecoveryType, Cursor, Event
  <1>2. store'.cursor \in Nat
    BY EventsAreNat DEF StoreType, Cursor, IInv
  <1>3. \A t \in Sources : sources[t] \in Source /\ Fits(sources[t], store'.cursor)
    BY <1>2, SourcesFitFurther
  <1>4. /\ sources' \in [Sources -> Source]
        /\ \A t \in Sources : Fits(sources'[t], store'.cursor)
    BY <1>3 DEF IInv, SourcesFit
  <1> QED
    BY <1>1, <1>4 DEF IInv, SourcesFit, StoreFits, RecoveryFits

\* A step of the page that no source takes part in.
LEMMA PageStep ==
  ASSUME IInv, OutboxTypeOK', events' = events, UNCHANGED sources,
         store' \in StoreType, NoGap(store'), store.cursor <= store'.cursor,
         recovery' \in RecoveryType, Reaches(recovery', store'.cursor), PageType'
  PROVE  IInv'
  <1>1. /\ Source' = Source /\ StoreType' = StoreType /\ RecoveryType' = RecoveryType
    BY DEF Source, StoreType, RecoveryType, Cursor, Event
  <1>2. store'.cursor \in Nat
    BY EventsAreNat DEF StoreType, Cursor, IInv
  <1>3. \A t \in Sources : sources[t] \in Source /\ Fits(sources[t], store'.cursor)
    BY <1>2, SourcesFitFurther
  <1> QED
    BY <1>1, <1>3 DEF IInv, SourcesFit, StoreFits, RecoveryFits

LEMMA CommandStep == ASSUME IInv, Command PROVE IInv'
  <1>1. OutboxTypeOK' /\ events' = events + 1 /\ events \in Nat
    BY CommitType, EventsAreNat DEF IInv, Command
  <1>2. Cursor \subseteq Cursor' /\ Event \subseteq Event'
    BY <1>1 DEF Cursor, Event
  <1>3. /\ Source \subseteq Source' /\ StoreType \subseteq StoreType'
        /\ RecoveryType \subseteq RecoveryType'
    BY <1>2 DEF Source, StoreType, RecoveryType
  <1> QED
    BY <1>1, <1>3 DEF IInv, Command, SourcesFit, StoreFits, RecoveryFits, PageType

\* What nobody but the outbox does.
LEMMA OutboxStep ==
  ASSUME IInv,
         \/ \E n \in DOMAIN rows : Age(n) \/ Outlive(n)
         \/ \E p \in Processes : StartDrain(p) \/ \E n \in DOMAIN rows : Mark(p, n)
  PROVE  IInv'
  <1>1. UNCHANGED <<sources, store, recovery, page>>
    BY DEF Age, Outlive, StartDrain, Mark
  <1>2. OutboxTypeOK' /\ events' = events
    BY AgeType, ClaimType, MarkType DEF IInv, Age, Outlive, StartDrain, Mark
  <1> QED
    BY <1>1, <1>2, Elsewhere

LEMMA DeliverStep ==
  ASSUME IInv, NEW p \in Processes, NEW n \in DOMAIN rows, Deliver(p, n)
  PROVE  IInv'
  <1>1. OutboxTypeOK' /\ events' = events /\ UNCHANGED <<store, recovery, page>>
    BY PublishType DEF IInv, Deliver
  <1>2. n \in Event /\ events \in Nat /\ store.cursor \in Nat
    BY EventsAreNat DEF IInv, OutboxTypeOK, Event, StoreFits, StoreType, Cursor
  <1>3. \A s \in Sources : Heard(s, p, n) \in Source /\ Fits(Heard(s, p, n), store.cursor)
    BY <1>2, HeardFits DEF IInv, SourcesFit
  <1>4. sources' = [s \in Sources |-> Heard(s, p, n)]
    BY DEF Deliver, Tell
  <1>5. /\ sources' \in [Sources -> Source]
        /\ \A s \in Sources : Fits(sources'[s], store.cursor)
    BY <1>3, <1>4
  <1>6. /\ Source' = Source /\ StoreType' = StoreType /\ RecoveryType' = RecoveryType
    BY <1>1 DEF Source, StoreType, RecoveryType, Cursor, Event
  <1> QED
    BY <1>1, <1>5, <1>6 DEF IInv, SourcesFit, StoreFits, RecoveryFits, PageType

LEMMA StreamStep ==
  ASSUME IInv, NEW s \in Sources,
         (\E p \in Processes : Arrive(s, p)) \/ List(s) \/ Send(s)
  PROVE  IInv'
  <1>0. UNCHANGED <<outboxVars, budget, store, recovery, page>>
    BY DEF Arrive, List, Send
  <1>1. /\ sources[s] \in Source /\ Fits(sources[s], store.cursor)
        /\ events \in Nat /\ store.cursor \in Nat
    BY EventsAreNat DEF IInv, SourcesFit, StoreFits, StoreType, Cursor
  <1>2. OutboxTypeOK' /\ events' = events
    BY <1>0 DEF outboxVars, IInv, OutboxTypeOK, DrainType
  <1>3. \E src \in Source : Fits(src, store.cursor) /\ sources' = [sources EXCEPT ![s] = src]
    <2>1. ASSUME NEW p \in Processes, Arrive(s, p)
          PROVE  \E src \in Source : Fits(src, store.cursor) /\ sources' = [sources EXCEPT ![s] = src]
      <3> DEFINE src == [sources[s] EXCEPT !.pc = "list", !.at = p, !.cursor = sources[s].after]
      <3>1. sources' = [sources EXCEPT ![s] = src]
        BY <2>1 DEF Arrive
      <3>0. sources[s].after \in Cursor /\ sources[s].after \in Nat
        BY <1>1 DEF Source, Cursor
      <3>2. /\ src \in Source /\ src.pc = "list" /\ src.after = sources[s].after
            /\ src.cursor = sources[s].after /\ src.wire = sources[s].wire
            /\ src.told = sources[s].told
        BY <1>1, <3>0 DEF Source
      <3>3. sources[s].wire = <<>> /\ sources[s].told = {} /\ sources[s].after <= store.cursor
        BY <1>1, <2>1 DEF Fits, Arrive, At
      <3> HIDE DEF src
      <3>4. Fits(src, store.cursor)
        BY <3>0, <3>2, <3>3, ConsecutiveEmpty DEF Fits
      <3> QED
        BY <3>1, <3>2, <3>4
    <2>2. CASE List(s)
      <3> DEFINE src == [sources[s] EXCEPT !.pc = "send",
                                           !.upto = PageEnd(sources[s].cursor, StreamPage)]
      <3>1. sources' = [sources EXCEPT ![s] = src] /\ At(s, "list")
        BY <2>2 DEF List
      <3>2. src \in Source /\ Fits(src, store.cursor)
        BY <3>1, <1>1, ListFits
      <3> QED
        BY <3>1, <3>2
    <2>3. CASE Send(s)
      <3>1. At(s, "send") /\ sources' = [sources EXCEPT ![s] = Sent(s)]
        BY <2>3 DEF Send
      <3>2. Sent(s) \in Source /\ Fits(Sent(s), store.cursor)
        BY <3>1, <1>1, SendFits
      <3> QED
        BY <3>1, <3>2
    <2> QED
      BY <2>1, <2>2, <2>3
  <1>4. /\ store' \in StoreType /\ NoGap(store') /\ store.cursor <= store'.cursor
        /\ recovery' \in RecoveryType /\ Reaches(recovery', store'.cursor) /\ PageType'
    BY <1>0, <1>1 DEF IInv, StoreFits, RecoveryFits, PageType
  <1> QED
    BY <1>2, <1>3, <1>4, <1>0, SourceStep

LEMMA ReceiveStep == ASSUME IInv, NEW s \in Sources, Receive(s) PROVE IInv'
  <1> DEFINE n == Head(sources[s].wire)
             st == Ingest(store, n)
             src == [sources[s] EXCEPT !.wire = Tail(@)]
  <1>1. /\ sources[s].wire # <<>> /\ sources' = [sources EXCEPT ![s] = src]
        /\ store' = st /\ UNCHANGED <<outboxVars, budget, page>>
        /\ recovery' = IF st.gap THEN Recovers(st, FALSE) ELSE recovery
    BY DEF Receive
  <1>2. OutboxTypeOK' /\ events' = events /\ PageType'
    BY <1>1 DEF outboxVars, IInv, OutboxTypeOK, DrainType, PageType
  <1>3. /\ sources[s] \in Source /\ Fits(sources[s], store.cursor) /\ store \in StoreType
        /\ NoGap(store) /\ events \in 0 .. MaxEvents /\ events \in Nat /\ store.cursor \in Nat
        /\ sources[s].cursor <= events /\ store.cursor <= events /\ sources[s].cursor \in Nat
    BY EventsAreNat DEF IInv, SourcesFit, StoreFits, StoreType, Source, Cursor
  <1>4. PICK from \in Nat : /\ from <= store.cursor
                            /\ Consecutive(sources[s].wire, from, sources[s].cursor)
    BY <1>3 DEF Fits
  <1>5. /\ n = from + 1 /\ n <= sources[s].cursor
        /\ Consecutive(Tail(sources[s].wire), n, sources[s].cursor)
    <2>1. sources[s].wire # <<>>
      BY <1>1
    <2>2. /\ Head(sources[s].wire) = from + 1 /\ from + 1 <= sources[s].cursor
          /\ Consecutive(Tail(sources[s].wire), from + 1, sources[s].cursor)
      BY ONLY <2>1, <1>4, ConsecutiveTail
    <2>3. n = from + 1
      BY <2>2
    <2> QED
      BY ONLY <2>2, <2>3
  <1> HIDE DEF n
  <1>6. st = [cursor |-> IF store.cursor < n THEN n ELSE store.cursor, ahead |-> {}, gap |-> FALSE]
    <2>1. {n} = from + 1 .. n /\ n \in Nat /\ n <= events
      BY <1>3, <1>5
    <2> QED
      BY <2>1, <1>3, <1>4, WithContiguous DEF Ingest
  <1> HIDE DEF st
  <1>7. /\ st \in StoreType /\ NoGap(st) /\ store.cursor <= st.cursor /\ n <= st.cursor
        /\ st.cursor \in Nat /\ st.gap = FALSE
    BY <1>3, <1>4, <1>5, <1>6 DEF StoreType, Cursor, NoGap
  <1>8. src \in Source /\ Fits(src, st.cursor)
    <2>1. Tail(sources[s].wire) \in Seq(Nat)
      BY <1>5 DEF Consecutive
    <2>2. /\ src \in Source /\ src.wire = Tail(sources[s].wire) /\ src.pc = sources[s].pc
          /\ src.after = sources[s].after /\ src.cursor = sources[s].cursor
          /\ src.upto = sources[s].upto /\ src.queued = sources[s].queued
          /\ src.told = sources[s].told
      BY <1>3, <2>1 DEF Source
    <2>3. sources[s].pc \notin {"free", "connecting"}
      BY <1>1, <1>3 DEF Fits
    <2>4. sources[s].after <= st.cursor
      BY <1>3, <1>7 DEF Fits, Source, Cursor
    <2>5. n \in Nat
      BY <1>4, <1>5
    <2> HIDE DEF src
    <2>6. Fits(src, st.cursor)
      BY <1>3, <1>5, <1>7, <2>2, <2>3, <2>4, <2>5 DEF Fits
    <2> QED
      BY <2>2, <2>6
  <1>9. recovery' \in RecoveryType /\ Reaches(recovery', st.cursor)
    <2>1. recovery \in RecoveryType /\ Reaches(recovery, store.cursor)
      BY DEF IInv, RecoveryFits
    <2>2. recovery' = recovery
      BY <1>1, <1>7
    <2>3. recovery.from \in Nat
      BY <2>1, <1>3 DEF RecoveryType, Cursor
    <2> QED
      BY <1>3, <1>7, <2>1, <2>2, <2>3 DEF Reaches
  <1> QED
    BY <1>1, <1>2, <1>7, <1>8, <1>9, SourceStep

\* What an invariant state says of one source and of the page.
LEMMA Parts ==
  ASSUME IInv
  PROVE  /\ events \in Nat /\ events \in 0 .. MaxEvents
         /\ store \in StoreType /\ NoGap(store) /\ store.cursor \in Nat /\ store.cursor <= events
         /\ recovery \in RecoveryType /\ Reaches(recovery, store.cursor) /\ PageType
         /\ \A s \in Sources : /\ sources[s] \in Source /\ Fits(sources[s], store.cursor)
                              /\ sources[s].after \in Cursor /\ sources[s].after <= store.cursor
BY EventsAreNat DEF IInv, SourcesFit, StoreFits, RecoveryFits, StoreType, Source, Cursor, Fits

\* The outbox and its budget under a fault that is not the outbox's.
LEMMA OutboxRests ==
  ASSUME IInv, UNCHANGED outboxVars, Fault \/ UNCHANGED budget
  PROVE  OutboxTypeOK' /\ events' = events
  <1>1. budget' \in Nat
    BY FaultType DEF IInv, OutboxTypeOK
  <1> QED
    BY <1>1 DEF IInv, OutboxTypeOK, outboxVars, DrainType

\* A recovery that begins, or not, while the page keeps what it has.
LEMMA MayRecover ==
  ASSUME IInv, NEW connect \in BOOLEAN, recovery' \in {Recovers(store, connect), recovery}
  PROVE  recovery' \in RecoveryType /\ Reaches(recovery', store.cursor)
BY Parts, RecoversFit

LEMMA ReconnectingFits ==
  ASSUME IInv, NEW s \in Sources
  PROVE  Reconnecting(s) \in Source /\ Fits(Reconnecting(s), store.cursor)
BY Parts, ConnectingFits DEF Reconnecting

\* A step in which sources are lost, and others not.
LEMMA BreakingStep ==
  ASSUME IInv, OutboxTypeOK', events' = events, UNCHANGED store,
         NEW new, sources' = [s \in Sources |-> new[s]],
         \A s \in Sources : new[s] \in {sources[s], Reconnecting(s), NoStream},
         recovery' \in RecoveryType, Reaches(recovery', store.cursor), PageType'
  PROVE  IInv'
  <1>1. \A s \in Sources : new[s] \in Source /\ Fits(new[s], store.cursor)
    BY Parts, ReconnectingFits, NoStreamFits
  <1>2. /\ Source' = Source /\ StoreType' = StoreType /\ RecoveryType' = RecoveryType
    BY DEF Source, StoreType, RecoveryType, Cursor, Event
  <1>3. /\ sources' \in [Sources -> Source]
        /\ \A s \in Sources : Fits(sources'[s], store.cursor)
    BY <1>1
  <1> QED
    BY <1>2, <1>3 DEF IInv, SourcesFit, StoreFits, RecoveryFits

LEMMA BreakStep == ASSUME IInv, NEW s \in Sources, Break(s) PROVE IInv'
  <1>1. /\ UNCHANGED <<outboxVars, store, page>> /\ Fault
        /\ sources' = [sources EXCEPT ![s] = Reconnecting(s)]
    BY DEF Break
  <1>2. recovery' \in {Recovers(store, FALSE), recovery}
    BY DEF Break
  <1>3. recovery' \in RecoveryType /\ Reaches(recovery', store'.cursor) /\ store' = store
    BY <1>1, <1>2, MayRecover
  <1>4. OutboxTypeOK' /\ events' = events /\ PageType'
    BY <1>1, OutboxRests DEF IInv, PageType
  <1>5. store.cursor <= store'.cursor /\ store' \in StoreType /\ NoGap(store')
    BY <1>3, Parts
  <1> QED
    BY <1>1, <1>3, <1>4, <1>5, ReconnectingFits, SourceStep

LEMMA ProcessStopsStep == ASSUME IInv, NEW p \in Processes, ProcessStops(p) PROVE IInv'
  <1> DEFINE new == [s \in Sources |-> IF Live(s) /\ sources[s].at = p THEN Reconnecting(s)
                                      ELSE sources[s]]
  <1>1. /\ Crash(p) /\ sources' = new /\ UNCHANGED <<store, page>>
        /\ recovery' \in {Recovers(store, FALSE), recovery}
    BY DEF ProcessStops
  <1>2. recovery' \in RecoveryType /\ Reaches(recovery', store.cursor)
    BY <1>1, MayRecover
  <1>3. OutboxTypeOK' /\ events' = events /\ PageType'
    BY <1>1, CrashType DEF IInv, PageType
  <1>4. sources' = [s \in Sources |-> new[s]]
    BY <1>1
  <1>5. \A s \in Sources : new[s] \in {sources[s], Reconnecting(s), NoStream}
    OBVIOUS
  <1> HIDE DEF new
  <1> QED
    BY <1>1, <1>2, <1>3, <1>4, <1>5, BreakingStep

LEMMA GoOfflineStep == ASSUME IInv, GoOffline PROVE IInv'
  <1>1. /\ sources' = Closed /\ UNCHANGED <<outboxVars, store, recovery>> /\ Fault
        /\ page' = [page EXCEPT !.online = FALSE, !.source = NoSource]
    BY DEF GoOffline
  <1>2. OutboxTypeOK' /\ events' = events
    BY <1>1, OutboxRests
  <1>3. PageType'
    BY <1>1 DEF IInv, PageType
  <1>4. sources' = [s \in Sources |-> Closed[s]]
    BY <1>1 DEF Closed
  <1>5. \A s \in Sources : Closed[s] \in {sources[s], Reconnecting(s), NoStream}
    BY DEF Closed
  <1>6. recovery' \in RecoveryType /\ Reaches(recovery', store.cursor)
    BY <1>1, Parts
  <1> QED
    BY <1>1, <1>2, <1>3, <1>4, <1>5, <1>6, BreakingStep

LEMMA AnswerStep == ASSUME IInv, Answer PROVE IInv'
  <1>1. UNCHANGED <<outboxVars, sources, store, page>> /\ Fault
        /\ recovery' = Recovers(store, FALSE)
    BY DEF Answer
  <1>2. OutboxTypeOK' /\ events' = events /\ PageType'
    BY <1>1, OutboxRests DEF IInv, PageType
  <1>3. recovery' \in RecoveryType /\ Reaches(recovery', store.cursor)
    BY <1>1, MayRecover
  <1> QED
    BY <1>1, <1>2, <1>3, Parts, PageStep

LEMMA RecoveryReadStep == ASSUME IInv, RecoveryRead PROVE IInv'
  <1> DEFINE end == PageEnd(recovery.from, RecoveryPage)
  <1>1. UNCHANGED <<outboxVars, budget, sources, store, page>>
        /\ recovery' = [recovery EXCEPT !.pc = "reply", !.upto = end]
    BY DEF RecoveryRead
  <1>2. OutboxTypeOK' /\ events' = events /\ PageType'
    BY <1>1, OutboxRests DEF IInv, PageType
  <1>3. /\ recovery.from \in Cursor /\ recovery.floor \in Cursor /\ events \in Nat
        /\ RecoveryPage \in Nat \ {0} /\ recovery.from <= store.cursor
    BY Parts, DeliveryAssumption DEF RecoveryType, Reaches
  <1>4. /\ end \in Cursor /\ recovery.from <= end
        /\ end - recovery.from < RecoveryPage => recovery.floor <= end
    BY <1>3 DEF PageEnd, Cursor
  <1> HIDE DEF end
  <1>5. recovery' \in RecoveryType /\ Reaches(recovery', store.cursor)
    BY <1>1, <1>3, <1>4, Parts DEF RecoveryType, Reaches
  <1> QED
    BY <1>1, <1>2, <1>5, Parts, PageStep

\* What a recovery takes in, and how far the page has come then.
LEMMA TakenIn ==
  ASSUME IInv, store' = IngestMany(store, recovery.from, recovery.upto)
  PROVE  /\ store' \in StoreType /\ NoGap(store') /\ store.cursor <= store'.cursor
         /\ recovery.upto <= store'.cursor /\ store'.cursor \in Nat
  <1>1. /\ recovery.from \in Nat /\ recovery.upto \in Nat /\ recovery.upto <= events
        /\ recovery.from <= store.cursor
    BY Parts DEF RecoveryType, Cursor, Reaches
  <1>2. store' = [cursor |-> IF store.cursor < recovery.upto THEN recovery.upto ELSE store.cursor,
                  ahead |-> {}, gap |-> FALSE]
    BY <1>1, Parts, WithContiguous DEF IngestMany
  <1> QED
    BY <1>1, <1>2, Parts DEF StoreType, NoGap, Cursor

\* A connect opens a source behind what the page has.
LEMMA OpenStep ==
  ASSUME IInv, OutboxTypeOK', events' = events, NEW cursor, NEW online \in BOOLEAN,
         Open(cursor, online), cursor = store'.cursor,
         store' \in StoreType, NoGap(store'), store.cursor <= store'.cursor,
         recovery' \in RecoveryType, Reaches(recovery', store'.cursor)
  PROVE  IInv'
  <1>1. cursor \in Cursor /\ cursor \in Nat
    BY Parts DEF StoreType, Cursor
  <1>2. CASE \E s \in Sources : At(s, "free")
    <2>1. FreeSource \in Sources
      BY <1>2 DEF FreeSource
    <2>2. /\ sources' = [sources EXCEPT ![FreeSource] = Connecting(cursor)]
          /\ page' = [page EXCEPT !.online = online, !.source = FreeSource]
      BY <1>2 DEF Open
    <2>3. PageType'
      BY <2>1, <2>2, Parts DEF PageType
    <2>4. Connecting(cursor) \in Source /\ Fits(Connecting(cursor), store'.cursor)
      BY <1>1, Parts, ConnectingFits
    <2> QED
      BY <2>1, <2>2, <2>3, <2>4, SourceStep
  <1>3. CASE ~ \E s \in Sources : At(s, "free")
    <2>1. UNCHANGED sources /\ page' = [page EXCEPT !.online = online]
      BY <1>3 DEF Open
    <2>2. PageType'
      BY <2>1, Parts DEF PageType
    <2> QED
      BY <2>1, <2>2, PageStep
  <1> QED
    BY <1>2, <1>3

LEMMA NoRecoveryFits ==
  ASSUME IInv, NEW c \in Nat
  PROVE  NoRecovery \in RecoveryType /\ Reaches(NoRecovery, c)
BY Parts DEF NoRecovery, RecoveryType, Reaches, Cursor

LEMMA RecoveryReplyStep == ASSUME IInv, RecoveryReply PROVE IInv'
  <1>1. /\ store' = IngestMany(store, recovery.from, recovery.upto)
        /\ UNCHANGED <<outboxVars, budget>>
    BY DEF RecoveryReply
  <1>2. OutboxTypeOK' /\ events' = events
    BY <1>1, OutboxRests
  <1>3. recovery' \in RecoveryType /\ Reaches(recovery', store'.cursor)
    <2>1. CASE LastPage
      BY <2>1, <1>1, TakenIn, NoRecoveryFits DEF RecoveryReply
    <2>2. CASE ~ LastPage
      <3>1. recovery' = [recovery EXCEPT !.pc = "ask", !.from = recovery.upto]
        BY <2>2 DEF RecoveryReply
      <3>2. recovery \in RecoveryType /\ recovery.upto \in Cursor /\ recovery.upto \in Nat
        BY Parts DEF RecoveryType, Cursor
      <3>3. recovery.upto <= store'.cursor
        BY <1>1, TakenIn
      <3>4. /\ recovery' \in RecoveryType /\ recovery'.pc = "ask"
            /\ recovery'.from = recovery.upto /\ recovery'.upto = recovery.upto
        BY <3>1, <3>2 DEF RecoveryType
      <3> QED
        BY <3>2, <3>3, <3>4 DEF Reaches
    <2> QED
      BY <2>1, <2>2
  <1>4. CASE LastPage /\ recovery.connect
    <2>1. Open(store'.cursor, page.online) /\ page.online \in BOOLEAN
      BY <1>4, Parts DEF RecoveryReply, PageType
    <2> QED
      BY <2>1, <1>1, <1>2, <1>3, TakenIn, OpenStep
  <1>5. CASE ~ (LastPage /\ recovery.connect)
    <2>1. UNCHANGED <<sources, page>>
      BY <1>5 DEF RecoveryReply
    <2>2. PageType'
      BY <2>1, Parts DEF PageType
    <2> QED
      BY <2>1, <2>2, <1>1, <1>2, <1>3, TakenIn, PageStep
  <1> QED
    BY <1>4, <1>5

LEMMA RefreshFailsStep == ASSUME IInv, RefreshFails PROVE IInv'
  <1>1. /\ store' = IngestMany(store, recovery.from, recovery.upto)
        /\ recovery' = NoRecovery /\ UNCHANGED <<outboxVars, sources, page>>
        /\ Fault \/ UNCHANGED budget
    BY DEF RefreshFails
  <1>2. OutboxTypeOK' /\ events' = events /\ PageType'
    BY <1>1, OutboxRests DEF IInv, PageType
  <1> QED
    BY <1>1, <1>2, TakenIn, NoRecoveryFits, PageStep

LEMMA RecoveryFailsStep == ASSUME IInv, RecoveryFails PROVE IInv'
  <1>1. /\ recovery' = NoRecovery /\ UNCHANGED <<outboxVars, sources, store, page>>
        /\ Fault \/ UNCHANGED budget
    BY DEF RecoveryFails
  <1>2. OutboxTypeOK' /\ events' = events /\ PageType'
    BY <1>1, OutboxRests DEF IInv, PageType
  <1> QED
    BY <1>1, <1>2, Parts, NoRecoveryFits, PageStep

LEMMA GoOnlineStep == ASSUME IInv, GoOnline PROVE IInv'
  <1>1. UNCHANGED <<outboxVars, budget, store>>
    BY DEF GoOnline
  <1>2. OutboxTypeOK' /\ events' = events
    BY <1>1, OutboxRests
  <1>3. CASE recovery.pc = "idle"
    <2>1. /\ recovery' = Recovers(store, TRUE) /\ UNCHANGED sources
          /\ page' = [page EXCEPT !.online = TRUE]
      BY <1>3 DEF GoOnline
    <2>2. recovery' \in RecoveryType /\ Reaches(recovery', store.cursor)
      BY <2>1, MayRecover
    <2>3. PageType'
      BY <2>1, Parts DEF PageType
    <2> QED
      BY <1>1, <1>2, <2>1, <2>2, <2>3, Parts, PageStep
  <1>4. CASE recovery.pc # "idle"
    <2>1. Open(store.cursor, TRUE) /\ UNCHANGED recovery
      BY <1>4 DEF GoOnline
    <2>2. recovery' \in RecoveryType /\ Reaches(recovery', store'.cursor)
      BY <1>1, <2>1, Parts
    <2>3. store' \in StoreType /\ NoGap(store') /\ store.cursor <= store'.cursor
      BY <1>1, Parts
    <2> QED
      BY <1>1, <1>2, <2>1, <2>2, <2>3, OpenStep
  <1> QED
    BY <1>3, <1>4

-----------------------------------------------------------------------------
(* The theorems.                                                            *)

LEMMA StepInv == ASSUME IInv, [Next]_vars PROVE IInv'
  <1>1. CASE Command
    BY <1>1, CommandStep
  <1>2. CASE \E n \in DOMAIN rows : Age(n) \/ Outlive(n)
    BY <1>2, OutboxStep
  <1>3. ASSUME NEW p \in Processes, StartDrain(p) \/ GoesOn(p) \/ ProcessStops(p)
        PROVE  IInv'
    BY <1>3, OutboxStep, DeliverStep, ProcessStopsStep DEF GoesOn
  <1>4. ASSUME NEW s \in Sources,
               \/ \E p \in Processes : Arrive(s, p)
               \/ List(s) \/ Send(s) \/ Receive(s) \/ Break(s)
        PROVE  IInv'
    BY <1>4, StreamStep, ReceiveStep, BreakStep
  <1>5. CASE \/ RecoveryRead \/ RecoveryReply \/ RefreshFails \/ RecoveryFails \/ Answer
             \/ GoOffline \/ GoOnline
    BY <1>5, RecoveryReadStep, RecoveryReplyStep, RefreshFailsStep, RecoveryFailsStep,
       AnswerStep, GoOfflineStep, GoOnlineStep
  <1>6. CASE UNCHANGED vars
    <2>1. UNCHANGED <<outboxVars, budget, sources, store, recovery, page>>
      BY <1>6 DEF vars, outboxVars
    <2> QED
      BY <2>1, OutboxRests, Elsewhere
  <1> QED
    BY <1>1, <1>2, <1>3, <1>4, <1>5, <1>6 DEF Next

\* The invariant holds for any number of processes, sources, events and faults
\* and for pages of any size.
THEOREM Invariant == Spec => []IInv
  <1>1. Init => IInv
    BY InitInv
  <1>2. IInv /\ [Next]_vars => IInv'
    BY StepInv
  <1> QED
    BY <1>1, <1>2, PTL DEF Spec

\* In every reachable state of streams, recoveries and the outbox the types are
\* right and the page's timeline is a prefix of the run's events.
THEOREM TimelineIsAlwaysPrefix == Spec => []DeliveryInv
  <1>1. IInv => DeliveryInv
    BY DEF IInv, SourcesFit, StoreFits, RecoveryFits, PageType, DeliveryInv, TypeOK, StoreType,
           RecoveryType, NoGap, TimelineIsPrefix
  <1> QED
    BY <1>1, Invariant, PTL

\* A stream that waits on the hub owes nothing that it was told of.
THEOREM NoWakeupIsLost == Spec => []ToldStreamDelivers
  <1>1. IInv => ToldStreamDelivers
    BY DEF IInv, SourcesFit, Fits, ToldStreamDelivers, At
  <1> QED
    BY <1>1, Invariant, PTL

\* The step that ends a recovery takes in its last page.
LEMMA RecoveryEnds ==
  ASSUME IInv, [Next]_vars, recovery.pc = "reply", recovery'.pc = "idle"
  PROVE  store'.cursor >= recovery.floor
  <1>1. recovery' # recovery
    OBVIOUS
  <1>2. \A st, connect : Recovers(st, connect) = recovery
    BY DEF Recovers
  <1>3. RecoveryReply \/ RefreshFails
    <2>1. ~ \E n \in DOMAIN rows : Age(n) \/ Outlive(n)
      BY <1>1 DEF Age, Outlive
    <2>2. ~ \E p \in Processes : StartDrain(p) \/ GoesOn(p) \/ ProcessStops(p)
      BY <1>1, <1>2 DEF StartDrain, GoesOn, Mark, Deliver, ProcessStops
    <2>3. ~ \E s \in Sources : \/ \E p \in Processes : Arrive(s, p)
                               \/ List(s) \/ Send(s) \/ Receive(s) \/ Break(s)
      BY <1>1, <1>2 DEF Arrive, List, Send, Receive, Break
    <2>4. ~ (RecoveryRead \/ RecoveryFails \/ Answer \/ GoOffline \/ GoOnline \/ Command)
      BY <1>1, <1>2 DEF RecoveryRead, RecoveryFails, Answer, GoOffline, GoOnline, Command
    <2>5. ~ UNCHANGED vars
      BY <1>1 DEF vars
    <2> QED
      <3>1. Next
        BY <2>5
      <3> QED
        BY ONLY <3>1, <2>1, <2>2, <2>3, <2>4 DEF Next
  <1>4. store' = IngestMany(store, recovery.from, recovery.upto)
    BY <1>3 DEF RecoveryReply, RefreshFails
  <1>5. LastPage
    <2>1. CASE ~ LastPage /\ RecoveryReply
      <3>1. recovery' = [recovery EXCEPT !.pc = "ask", !.from = recovery.upto]
        BY <2>1 DEF RecoveryReply
      <3>2. recovery'.pc = "ask"
        BY <3>1, Parts DEF RecoveryType
      <3> QED
        BY <3>2
    <2> QED
      BY <2>1, <1>3 DEF RefreshFails
  <1>6. recovery.floor <= recovery.upto /\ recovery.floor \in Nat /\ recovery.upto \in Nat
    <2>1. recovery.floor \in Nat /\ recovery.upto \in Nat
      BY Parts DEF RecoveryType, Cursor
    <2>2. Reaches(recovery, store.cursor)
      BY Parts
    <2> QED
      BY <1>5, <2>1, <2>2 DEF LastPage, Reaches
  <1>7. recovery.upto <= store'.cursor /\ store'.cursor \in Nat
    BY <1>4, TakenIn
  <1> QED
    BY <1>6, <1>7

\* A recovery that ends has brought the page everything that was there when the
\* recovery began.
THEOREM RecoveriesCatchUp == Spec => RecoveryCatchesUp
  <1>1. IInv /\ [Next]_vars =>
          ((recovery.pc = "reply" /\ recovery'.pc = "idle") => store'.cursor >= recovery.floor)
    BY RecoveryEnds
  <1> QED
    BY <1>1, Invariant, PTL DEF Spec, RecoveryCatchesUp
=============================================================================
