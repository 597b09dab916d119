--------------------------- MODULE RunCreationProofs ---------------------------
(***************************************************************************)
(* Proofs about RunCreation, for any requests, keys and bounds.            *)
(*                                                                         *)
(* The invariant says of each run that its log begins with its creation    *)
(* and has no other, that it is started once at most, that it inherited    *)
(* the history it branched from, and that a snapshot of it, whenever a     *)
(* branch left it, holds the state at its number; so that to load a run    *)
(* gives the same from every snapshot.  It says of each request what the   *)
(* request has found out so far, of a run that only grows: what is known   *)
(* of the events up to a number stays true, and so a start that commits    *)
(* on the version that was looked at is the first.                         *)
(*                                                                         *)
(* Last, the runs as they are loaded are the tree of histories of RunTree: *)
(* by the invariant what is loaded follows from the events alone, and each *)
(* transaction that adds to them is a step of the tree.                    *)
(***************************************************************************)
EXTENDS RunCreation, DataInduction, SequenceTheorems, FiniteSetTheorems

Fact == Nat \X Nat
RunState == [status : {"created", "running"}, facts : Seq(Fact)]
Header == {NoKey} \cup ({"studio", "header"} \X (Keys \cup {None}))
RunEvent == [kind : {"created", "started", "other", "branched"}, key : Header]
Snapshot == [sequence : Nat, state : RunState]
RunRow ==
  [key : Header, version : Nat, parent : Nat, from : Nat, log : Seq(RunEvent),
   inherited : Seq(Fact), origin : Seq(Fact), snapshots : SUBSET Snapshot]
Request ==
  [pc : {"unused", "derive", "find", "create", "start", "lookup", "commit", "again", "answer",
         "branch", "done"},
   kind : {None, "studio", "plain", "branch"}, key : Keys \cup {None}, parent : Nat, from : Nat,
   expected : Nat, version : Nat, run : Nat, seen : Nat, attempt : 0 .. 1,
   answer : [run : Nat, version : Nat, status : {None, "ok", "conflict"}]]

\* The numbers of the first n events of run r, and its state after them.
Own(r, n) == [i \in 1 .. n |-> <<r, i>>]
StartedBy(run, n) == \E i \in 1 .. n : run.log[i].kind = "started"
StateAt(r, run, n) ==
  [status |-> IF StartedBy(run, n) THEN "running" ELSE "created",
   facts |-> run.inherited \o Own(r, n)]

\* The key of a request, and what a run with a Studio key was made for.
HeaderOf(x) == IF x.kind = "studio" THEN <<"studio", x.key>> ELSE <<"header", x.key>>
MadeFor(versions, v, key) == v \in 2 .. Len(versions) /\ versions[v] = key

VersionsOk(versions) ==
  /\ versions \in Seq(Keys \cup {None}) /\ Len(versions) >= 1
  /\ \A v, w \in 2 .. Len(versions) : versions[v] = versions[w] => v = w

LogOk(log) ==
  /\ Len(log) >= 1 /\ log[1].kind = "created"
  /\ \A n \in 2 .. Len(log) : log[n].kind # "created"
  /\ \A m, n \in 1 .. Len(log) : (log[m].kind = "started" /\ log[n].kind = "started") => m = n

SnapshotsOk(r, run) ==
  \A x \in run.snapshots : x.sequence \in 1 .. Len(run.log) /\ x.state = StateAt(r, run, x.sequence)

RunOk(r, run, versions) ==
  /\ run \in RunRow /\ LogOk(run.log) /\ SnapshotsOk(r, run)
  /\ run.version \in 1 .. Len(versions) /\ run.parent \in 0 .. r - 1
  /\ run.inherited = run.origin
  /\ \A key \in Keys : run.key = <<"studio", key>> => MadeFor(versions, run.version, key)

RunsOk(table, versions) ==
  /\ table \in Seq(RunRow)
  /\ \A r \in 1 .. Len(table) : RunOk(r, table[r], versions)
  /\ \A r, s \in 1 .. Len(table) : table[r].key = table[s].key => r = s

\* What a request has found out about the versions and the runs.
Starting == {"start", "lookup", "commit", "again", "answer"}
Found(x, versions, table) ==
  /\ x.kind = None => x.pc = "unused"
  /\ x.kind # None => x.key \in Keys
  /\ x.pc \in Starting \cup {"derive"} => x.kind = "studio"
  /\ x.pc \in {"find", "create"} => x.kind # "branch" /\ x.version >= 1
  /\ x.pc = "branch" => x.kind = "branch"
  /\ x.version <= Len(versions)
  /\ (x.kind = "studio" /\ x.pc \notin {"unused", "derive"}) => MadeFor(versions, x.version, x.key)
  /\ (x.kind = "branch") =>
       x.parent \in 1 .. Len(table) /\ x.from \in 1 .. Len(table[x.parent].log)

StartOk(x, table) ==
  /\ x.run <= Len(table)
  /\ x.pc \in Starting => x.run # 0 /\ x.expected + 1 <= Len(table[x.run].log)
  /\ x.run # 0 => table[x.run].key = HeaderOf(x)
  /\ x.pc = "lookup" => x.seen \in x.expected + 1 .. Len(table[x.run].log)
  /\ x.pc = "commit" => ~ StartedBy(table[x.run], x.expected + 1)
  /\ x.pc = "answer" => Len(table[x.run].log) >= 2

AnswerOk(x, table) ==
  /\ x.answer.run <= Len(table)
  /\ x.answer.run # 0 => table[x.answer.run].key = HeaderOf(x) /\ x.answer.version = x.version
                         /\ x.pc = "done"
  /\ (x.kind = "studio" /\ x.pc = "done") =>
       x.answer.run # 0 /\ Len(table[x.answer.run].log) >= 2

RequestOk(x, versions, table) ==
  x \in Request /\ Found(x, versions, table) /\ StartOk(x, table) /\ AnswerOk(x, table)

CreationIInv ==
  /\ VersionsOk(scenario)
  /\ RunsOk(runs, scenario)
  /\ requests \in [Requests -> Request]
  /\ \A q \in Requests : RequestOk(requests[q], scenario, runs)

-----------------------------------------------------------------------------
(* The state of a run                                                       *)

LEMMA OwnSeq ==
  ASSUME NEW r \in Nat, NEW n \in Nat
  PROVE  /\ Own(r, n) \in Seq(Fact) /\ Len(Own(r, n)) = n
         /\ \A i \in 1 .. n : Own(r, n)[i] = <<r, i>>
  BY DEF Own, Fact

LEMMA HistorySeq ==
  ASSUME NEW r \in Nat, NEW n \in Nat, NEW s \in Seq(Fact)
  PROVE  /\ s \o Own(r, n) \in Seq(Fact) /\ Len(s \o Own(r, n)) = Len(s) + n /\ Len(s) \in Nat
         /\ \A i \in 1 .. Len(s) + n :
              (s \o Own(r, n))[i] = IF i <= Len(s) THEN s[i] ELSE <<r, i - Len(s)>>
  <1> DEFINE own == Own(r, n)
  <1>1. own \in Seq(Fact) /\ Len(own) = n /\ \A i \in 1 .. n : own[i] = <<r, i>>
    BY OwnSeq
  <1>2. Len(s) \in Nat
    OBVIOUS
  <1> HIDE DEF own
  <1>3. /\ s \o own \in Seq(Fact) /\ Len(s \o own) = Len(s) + Len(own)
        /\ \A i \in 1 .. Len(s) + Len(own) :
             (s \o own)[i] = IF i <= Len(s) THEN s[i] ELSE own[i - Len(s)]
    BY <1>1, ConcatProperties
  <1>4. \A i \in 1 .. Len(s) + n : (s \o own)[i] = IF i <= Len(s) THEN s[i] ELSE <<r, i - Len(s)>>
    <2> SUFFICES ASSUME NEW i \in 1 .. Len(s) + n
                 PROVE  (s \o own)[i] = IF i <= Len(s) THEN s[i] ELSE <<r, i - Len(s)>>
      OBVIOUS
    <2>1. (s \o own)[i] = IF i <= Len(s) THEN s[i] ELSE own[i - Len(s)]
      BY <1>1, <1>3
    <2>2. ~ (i <= Len(s)) => i - Len(s) \in 1 .. n
      BY <1>2
    <2>3. ~ (i <= Len(s)) => own[i - Len(s)] = <<r, i - Len(s)>>
      BY <1>1, <2>2
    <2> QED
      BY <2>1, <2>3
  <1> QED
    BY <1>1, <1>2, <1>3, <1>4 DEF own

\* One more event is one more number at the end of the history.
LEMMA OwnNext ==
  ASSUME NEW r \in Nat, NEW n \in Nat, NEW s \in Seq(Fact)
  PROVE  /\ (s \o Own(r, n)) \o << <<r, n + 1>> >> = s \o Own(r, n + 1)
         /\ s \o << <<r, 1>> >> = s \o Own(r, 1)
  <1> DEFINE a == s \o Own(r, n)
             one == << <<r, n + 1>> >>
             b == s \o Own(r, n + 1)
             c == a \o one
  <1>1. /\ a \in Seq(Fact) /\ Len(a) = Len(s) + n /\ Len(s) \in Nat
        /\ \A i \in 1 .. Len(s) + n : a[i] = IF i <= Len(s) THEN s[i] ELSE <<r, i - Len(s)>>
    BY HistorySeq
  <1>2. /\ b \in Seq(Fact) /\ Len(b) = Len(s) + (n + 1)
        /\ \A i \in 1 .. Len(s) + (n + 1) : b[i] = IF i <= Len(s) THEN s[i] ELSE <<r, i - Len(s)>>
    <2>1. n + 1 \in Nat
      OBVIOUS
    <2> QED
      BY <2>1, HistorySeq
  <1>3. one \in Seq(Fact) /\ Len(one) = 1 /\ one[1] = <<r, n + 1>>
    BY DEF Fact
  <1> HIDE DEF a, b, one
  <1>4. /\ c \in Seq(Fact) /\ Len(c) = Len(a) + Len(one)
        /\ \A i \in 1 .. Len(a) + Len(one) :
             c[i] = IF i <= Len(a) THEN a[i] ELSE one[i - Len(a)]
    BY <1>1, <1>3, ConcatProperties
  <1> HIDE DEF c
  <1>5. ASSUME NEW i \in 1 .. Len(b) PROVE c[i] = b[i]
    <2>1. CASE i <= Len(s) + n
      <3>1. c[i] = a[i] /\ i \in 1 .. Len(s) + n
        BY <1>1, <1>2, <1>3, <1>4, <2>1
      <3> QED
        BY <1>1, <1>2, <3>1
    <2>2. CASE i = Len(s) + (n + 1)
      <3>1. /\ i \in 1 .. Len(a) + Len(one) /\ ~ (i <= Len(a)) /\ i - Len(a) = 1
            /\ i - Len(s) = n + 1 /\ ~ (i <= Len(s)) /\ i \in 1 .. Len(s) + (n + 1)
        BY <1>1, <1>2, <1>3, <2>2
      <3>2. c[i] = one[1]
        BY <1>4, <3>1
      <3>3. b[i] = <<r, i - Len(s)>>
        BY <1>2, <3>1
      <3> QED
        BY <1>3, <3>1, <3>2, <3>3
    <2> QED
      BY <1>1, <1>2, <2>1, <2>2
  <1>6. Len(c) = Len(b)
    BY <1>1, <1>2, <1>3, <1>4
  <1>7. c = b
    BY <1>2, <1>4, <1>5, <1>6, SeqEqual
  <1>8. << <<r, 1>> >> = Own(r, 1)
    <2>1. << <<r, 1>> >> \in Seq(Fact) /\ Len(<< <<r, 1>> >>) = 1
      BY DEF Fact
    <2>2. \A m \in Nat : /\ Own(r, m) \in Seq(Fact) /\ Len(Own(r, m)) = m
                         /\ \A i \in 1 .. m : Own(r, m)[i] = <<r, i>>
      BY OwnSeq
    <2>3. Own(r, 1) \in Seq(Fact) /\ Len(Own(r, 1)) = 1 /\ Own(r, 1)[1] = <<r, 1>>
      <3>1. 1 \in Nat /\ 1 \in 1 .. 1
        OBVIOUS
      <3> QED
        BY <2>2, <3>1, Zenon
    <2>4. \A i \in 1 .. 1 : << <<r, 1>> >>[i] = Own(r, 1)[i]
      BY <2>3
    <2> QED
      BY <2>1, <2>3, <2>4, SeqEqual
  <1> QED
    BY <1>7, <1>8 DEF a, b, c, one

LEMMA StartedNext ==
  ASSUME NEW run, NEW n \in Nat
  PROVE  StartedBy(run, n + 1) <=> (StartedBy(run, n) \/ run.log[n + 1].kind = "started")
  BY DEF StartedBy

\* The types of a run, and of its state.
LEMMA RunTypes ==
  ASSUME NEW r, NEW run, NEW versions, RunOk(r, run, versions)
  PROVE  /\ run.log \in Seq(RunEvent) /\ Len(run.log) \in Nat \ {0}
         /\ run.inherited \in Seq(Fact) /\ run.snapshots \subseteq Snapshot
         /\ \A n \in 1 .. Len(run.log) : run.log[n] \in RunEvent
  BY DEF RunOk, RunRow, LogOk

LEMMA ApplyIs ==
  ASSUME RunsOk(runs, scenario), NEW r \in Runs, NEW n \in 1 .. Len(runs[r].log),
         NEW state, n >= 2 => state = StateAt(r, runs[r], n - 1)
  PROVE  Apply(r, state, n) = StateAt(r, runs[r], n)
  <1> DEFINE run == runs[r]
             kind == run.log[n].kind
  <1>1. RunOk(r, run, scenario) /\ r \in Nat
    BY DEF RunsOk, Runs
  <1>2. LogOk(run.log) /\ run.inherited \in Seq(Fact) /\ Len(run.log) \in Nat
    BY <1>1, RunTypes DEF RunOk
  <1>3. Apply(r, state, n) =
          [status |-> IF kind = "created" THEN "created" ELSE IF kind = "started" THEN "running"
                      ELSE state.status,
           facts |-> (IF kind = "created" THEN run.inherited ELSE state.facts) \o << <<r, n>> >>]
    BY DEF Apply
  <1>4. CASE n = 1
    <2>1. kind = "created" /\ ~ StartedBy(run, 1)
      BY <1>2, <1>4 DEF LogOk, StartedBy
    <2>2. run.inherited \o << <<r, 1>> >> = run.inherited \o Own(r, 1)
      BY <1>1, <1>2, OwnNext
    <2> QED
      BY <1>3, <1>4, <2>1, <2>2 DEF StateAt
  <1>5. CASE n # 1
    <2>1. n >= 2 /\ n - 1 \in Nat /\ (n - 1) + 1 = n /\ n \in 2 .. Len(run.log)
      BY <1>2, <1>5
    <2>2. kind # "created"
      BY <1>2, <2>1 DEF LogOk
    <2>3. StartedBy(run, n) <=> (StartedBy(run, n - 1) \/ kind = "started")
      BY <2>1, StartedNext
    <2>4. (run.inherited \o Own(r, n - 1)) \o << <<r, n>> >> = run.inherited \o Own(r, n)
      <3>1. \A m \in Nat : (run.inherited \o Own(r, m)) \o << <<r, m + 1>> >>
                             = run.inherited \o Own(r, m + 1)
        BY <1>1, <1>2, OwnNext
      <3> QED
        BY <2>1, <3>1
    <2>5. state = StateAt(r, run, n - 1)
      BY <2>1
    <2>6. /\ state.status = (IF StartedBy(run, n - 1) THEN "running" ELSE "created")
          /\ state.facts = run.inherited \o Own(r, n - 1)
      BY <2>5 DEF StateAt
    <2>7. Apply(r, state, n) =
            [status |-> IF kind = "started" THEN "running" ELSE state.status,
             facts |-> state.facts \o << <<r, n>> >>]
      BY <1>3, <2>2
    <2>8. state.facts \o << <<r, n>> >> = run.inherited \o Own(r, n)
      BY <2>4, <2>6
    <2>9. (IF kind = "started" THEN "running" ELSE state.status)
            = IF StartedBy(run, n) THEN "running" ELSE "created"
      BY <2>3, <2>6
    <2> QED
      BY <2>7, <2>8, <2>9, Zenon DEF StateAt
  <1> QED
    BY <1>4, <1>5

\* To replay the events behind number m on the state at m gives the state at n;
\* to replay all of them needs no state.
LEMMA ReplayIs ==
  ASSUME RunsOk(runs, scenario), NEW r \in Runs, NEW m \in Nat, NEW n \in 1 .. Len(runs[r].log),
         m <= n, NEW s, m >= 1 => s = StateAt(r, runs[r], m)
  PROVE  Replay(r, s, m + 1, n) = StateAt(r, runs[r], n)
  <1> DEFINE a == (m + 1) - 1
             Body(g) == [i \in a .. n |-> IF i = a THEN s ELSE Apply(r, g[i - 1], i)]
             after == CHOOSE g : g = Body(g)
             f == [i \in m .. n |-> IF i = m THEN s ELSE StateAt(r, runs[r], i)]
             S == {k \in 0 .. n - m : after[m + k] = f[m + k]}
  <1>1. Len(runs[r].log) \in Nat /\ n \in Nat /\ n - m \in Nat /\ a = m
    BY RunTypes DEF RunsOk, Runs
  <1>2. f = Body(f)
    <2>1. ASSUME NEW i \in m .. n, i # m PROVE f[i] = Apply(r, f[i - 1], i)
      <3>1. i \in 1 .. Len(runs[r].log) /\ i - 1 \in m .. n
        BY <1>1, <2>1
      <3>2. i >= 2 => f[i - 1] = StateAt(r, runs[r], i - 1)
        BY <1>1, <2>1, <3>1
      <3>3. f[i] = StateAt(r, runs[r], i)
        BY <2>1
      <3> HIDE DEF f
      <3> QED
        BY <3>1, <3>2, <3>3, ApplyIs
    <2>2. \A i \in m .. n : f[i] = IF i = m THEN s ELSE Apply(r, f[i - 1], i)
      BY <1>1, <2>1
    <2> QED
      BY <1>1, <2>2
  <1>3. after = Body(after)
    <2> HIDE DEF Body
    <2> QED
      BY <1>2, Zenon
  <1>4. Replay(r, s, m + 1, n) = after[n]
    BY Zenon DEF Replay
  <1> HIDE DEF after
  <1>5. after[m] = s /\ \A i \in m .. n : i # m => after[i] = Apply(r, after[i - 1], i)
    BY <1>1, <1>3
  <1>6. f[m] = s /\ \A i \in m .. n : i # m => f[i] = Apply(r, f[i - 1], i)
    BY <1>1, <1>2
  <1> HIDE DEF a, Body
  <1>7. 0 \in S
    BY <1>1, <1>5, <1>6
  <1>8. ASSUME NEW k \in 1 .. n - m, k - 1 \in S PROVE k \in S
    <2>1. /\ m + k \in m .. n /\ m + k # m /\ (m + k) - 1 = m + (k - 1) /\ k \in 0 .. n - m
      BY <1>1
    <2>2. after[(m + k) - 1] = f[(m + k) - 1]
      BY <1>8, <2>1
    <2>3. after[m + k] = f[m + k]
      <3> HIDE DEF f
      <3> QED
        BY <1>5, <1>6, <2>1, <2>2
    <2> QED
      BY <2>1, <2>3
  <1>9. 0 .. n - m \subseteq S
    <2> HIDE DEF S
    <2> QED
      BY <1>1, <1>7, <1>8, BoundedInduction
  <1>10. after[n] = f[n]
    <2>1. n - m \in 0 .. n - m /\ m + (n - m) = n
      BY <1>1
    <2> QED
      BY <1>9, <2>1
  <1>11. f[n] = StateAt(r, runs[r], n)
    BY <1>1
  <1> QED
    BY <1>4, <1>10, <1>11

\* Whatever the last snapshot is, a run is loaded as the state at the number.
LEMMA LoadIs ==
  ASSUME RunsOk(runs, scenario), NEW r \in Runs, NEW n \in 1 .. Len(runs[r].log)
  PROVE  /\ Load(r, n) = StateAt(r, runs[r], n)
         /\ Replay(r, [status |-> "created", facts |-> <<>>], 1, n) = StateAt(r, runs[r], n)
  <1> DEFINE usable == {x \in runs[r].snapshots : x.sequence <= n}
             last == CHOOSE x \in usable : \A y \in usable : y.sequence <= x.sequence
             empty == [status |-> "created", facts |-> <<>>]
             numbers == {x.sequence : x \in usable}
  <1>1. RunOk(r, runs[r], scenario) /\ n \in Nat
    BY RunTypes DEF RunsOk, Runs
  <1>2. Replay(r, empty, 1, n) = StateAt(r, runs[r], n)
    <2>1. 0 \in Nat /\ 0 <= n /\ 0 + 1 = 1 /\ ~ (0 >= 1)
      BY <1>1
    <2> HIDE DEF empty
    <2>2. Replay(r, empty, 0 + 1, n) = StateAt(r, runs[r], n)
      BY <2>1, ReplayIs
    <2> QED
      BY <2>1, <2>2
  <1>3. CASE usable = {}
    BY <1>2, <1>3, Zenon DEF Load
  <1>4. CASE usable # {}
    <2>1. \A x \in usable : /\ x.sequence \in 1 .. Len(runs[r].log) /\ x.sequence <= n
                            /\ x.state = StateAt(r, runs[r], x.sequence)
      BY <1>1 DEF RunOk, SnapshotsOk
    <2>2. numbers \subseteq 0 .. n /\ numbers # {}
      <3> HIDE DEF usable
      <3> QED
        BY <1>1, <1>4, <2>1
    <2>3. PICK m \in numbers : \A k \in numbers : k <= m
      <3> HIDE DEF numbers
      <3> QED
        BY <1>1, <2>2, Greatest
    <2>4. \E x \in usable : \A y \in usable : y.sequence <= x.sequence
      BY <2>3
    <2>5. last \in usable
      <3> HIDE DEF usable
      <3> QED
        BY <2>4
    <2>6. Load(r, n) = Replay(r, last.state, last.sequence + 1, n)
      BY <1>4, Zenon DEF Load
    <2> HIDE DEF usable, last
    <2>7. last.sequence \in Nat /\ last.sequence <= n /\ last.state = StateAt(r, runs[r], last.sequence)
      BY <2>1, <2>5
    <2>8. Replay(r, last.state, last.sequence + 1, n) = StateAt(r, runs[r], n)
      BY <2>7, ReplayIs
    <2> QED
      BY <1>2, <2>6, <2>8
  <1> QED
    BY <1>2, <1>3, <1>4

-----------------------------------------------------------------------------
(* What a step does to a run                                                *)

\* The run has the events it had, and what was fixed when it was created.
Grown(run, next) ==
  /\ next.key = run.key /\ next.version = run.version
  /\ Len(run.log) <= Len(next.log)
  /\ \A n \in 1 .. Len(run.log) : next.log[n] = run.log[n]

VersionsGrow(v, w) ==
  Len(v) <= Len(w) /\ \A n \in 1 .. Len(v) : w[n] = v[n]

\* Its states at the events it had stay what they were.
LEMMA StateStable ==
  ASSUME NEW r, NEW run, NEW next, Len(run.log) \in Nat, Grown(run, next),
         next.inherited = run.inherited, NEW n \in 1 .. Len(run.log)
  PROVE  StateAt(r, next, n) = StateAt(r, run, n)
  <1>1. StartedBy(next, n) <=> StartedBy(run, n)
    BY DEF StartedBy, Grown
  <1> QED
    BY <1>1 DEF StateAt

LEMMA StateType ==
  ASSUME NEW r \in Nat, NEW n \in Nat, NEW run, run.inherited \in Seq(Fact)
  PROVE  StateAt(r, run, n) \in RunState
  <1>1. run.inherited \o Own(r, n) \in Seq(Fact)
    BY HistorySeq
  <1> QED
    BY <1>1 DEF StateAt, RunState

LEMMA RunVersions ==
  ASSUME NEW v, NEW w, VersionsOk(v), VersionsOk(w), VersionsGrow(v, w), NEW r, NEW run,
         RunOk(r, run, v)
  PROVE  RunOk(r, run, w)
  <1>1. Len(v) \in Nat /\ Len(w) \in Nat /\ Len(v) <= Len(w)
    BY DEF VersionsOk, VersionsGrow
  <1>2. run.version \in 1 .. Len(w)
    BY <1>1 DEF RunOk
  <1>3. \A n, key : MadeFor(v, n, key) => MadeFor(w, n, key)
    BY <1>1 DEF MadeFor, VersionsGrow
  <1> QED
    BY <1>2, <1>3 DEF RunOk

\* A snapshot of the state at its number leaves a run as it should be.
LEMMA SnapshotKeeps ==
  ASSUME NEW r \in Nat, NEW run, NEW versions, RunOk(r, run, versions),
         NEW n \in 1 .. Len(run.log), NEW state, state = StateAt(r, run, n)
  PROVE  LET next == WithSnapshot(run, n, state)
         IN  /\ RunOk(r, next, versions) /\ Grown(run, next) /\ next.log = run.log
             /\ next.inherited = run.inherited
  <1> DEFINE new == [sequence |-> n, state |-> state]
             snapshots == {x \in run.snapshots : x.sequence # n} \cup {new}
             next == WithSnapshot(run, n, state)
  <1>1. run \in RunRow /\ Len(run.log) \in Nat /\ run.inherited \in Seq(Fact)
    BY RunTypes DEF RunOk
  <1>2. n \in Nat /\ state \in RunState
    BY <1>1, StateType
  <1>3. new \in Snapshot
    BY <1>2 DEF Snapshot
  <1>4. snapshots \subseteq Snapshot
    BY <1>1, <1>3 DEF RunRow
  <1> HIDE DEF new
  <1>5. next = [run EXCEPT !.snapshots = snapshots]
    BY DEF WithSnapshot, new
  <1> HIDE DEF snapshots, next
  <1>6. next \in RunRow
    BY <1>1, <1>4, <1>5 DEF RunRow
  <1>7. /\ next.key = run.key /\ next.version = run.version /\ next.parent = run.parent
        /\ next.log = run.log /\ next.inherited = run.inherited /\ next.origin = run.origin
        /\ next.snapshots = snapshots
    BY <1>1, <1>5 DEF RunRow
  <1>8. Grown(run, next)
    BY <1>1, <1>7 DEF Grown
  <1>9. ASSUME NEW x \in snapshots
        PROVE  x.sequence \in 1 .. Len(run.log) /\ x.state = StateAt(r, run, x.sequence)
    <2>1. CASE x = new
      BY <2>1 DEF new
    <2>2. CASE x \in run.snapshots
      BY <2>2 DEF RunOk, SnapshotsOk
    <2> QED
      BY <2>1, <2>2 DEF snapshots
  <1>10. SnapshotsOk(r, next)
    <2>1. \A k \in 1 .. Len(run.log) : StateAt(r, next, k) = StateAt(r, run, k)
      BY <1>1, <1>7, <1>8, StateStable
    <2> QED
      BY <1>7, <1>9, <2>1 DEF SnapshotsOk
  <1>11. RunOk(r, next, versions)
    BY <1>6, <1>7, <1>10 DEF RunOk
  <1> QED
    BY <1>7, <1>8, <1>11 DEF next

\* An event appended to a run, with the snapshot that may come with it; a start
\* only where there was none.
LEMMA AppendedKeeps ==
  ASSUME RunsOk(runs, scenario), NEW r \in Runs, NEW e \in RunEvent, e.kind # "created",
         e.kind = "started" => ~ StartedBy(runs[r], Len(runs[r].log))
  PROVE  LET next == Appended(r, e)
         IN  /\ RunOk(r, next, scenario) /\ Grown(runs[r], next)
             /\ Len(next.log) = Len(runs[r].log) + 1
             /\ next.inherited = runs[r].inherited
             /\ next.log[Len(runs[r].log) + 1] = e
  <1> DEFINE old == runs[r]
             n == Len(old.log) + 1
             state == Load(r, n - 1)
             next == [status |-> IF e.kind = "started" THEN "running" ELSE state.status,
                      facts |-> state.facts \o << <<r, n>> >>]
             run == [old EXCEPT !.log = Append(@, e)]
  <1>1. RunOk(r, old, scenario) /\ r \in Nat
    BY DEF RunsOk, Runs
  <1>2. /\ old \in RunRow /\ old.log \in Seq(RunEvent) /\ Len(old.log) \in Nat \ {0}
        /\ old.inherited \in Seq(Fact) /\ LogOk(old.log) /\ SnapshotsOk(r, old)
    BY <1>1, RunTypes DEF RunOk
  <1>3. /\ n \in Nat /\ n - 1 = Len(old.log) /\ n - 1 \in 1 .. Len(old.log) /\ n >= 2
    BY <1>2
  <1>4. Appended(r, e) =
          IF e.kind = "branched" \/ n % SnapshotInterval = 0 THEN WithSnapshot(run, n, next) ELSE run
    BY DEF Appended
  <1>5. state = StateAt(r, old, n - 1)
    BY <1>3, LoadIs
  <1> HIDE DEF state
  <1>6. /\ Append(old.log, e) \in Seq(RunEvent) /\ Len(Append(old.log, e)) = n
        /\ Append(old.log, e)[n] = e
        /\ \A i \in 1 .. Len(old.log) : Append(old.log, e)[i] = old.log[i]
    BY <1>2
  <1>7. /\ run \in RunRow /\ run.log = Append(old.log, e) /\ run.key = old.key
        /\ run.version = old.version /\ run.parent = old.parent /\ run.origin = old.origin
        /\ run.inherited = old.inherited /\ run.snapshots = old.snapshots
    BY <1>2, <1>6 DEF RunRow
  <1> HIDE DEF run, old, n
  <1>8. Grown(old, run) /\ Len(run.log) = n
    BY <1>2, <1>3, <1>6, <1>7 DEF Grown
  <1>9. LogOk(run.log)
    <2> DEFINE log == run.log
    <2>1. /\ Len(log) = n /\ log[n] = e /\ \A i \in 1 .. n - 1 : log[i] = old.log[i]
      BY <1>3, <1>6, <1>7
    <2>2. /\ old.log[1].kind = "created" /\ \A i \in 2 .. n - 1 : old.log[i].kind # "created"
          /\ \A i, j \in 1 .. n - 1 :
               (old.log[i].kind = "started" /\ old.log[j].kind = "started") => i = j
      BY <1>2, <1>3 DEF LogOk
    <2>3. e.kind = "started" => \A i \in 1 .. n - 1 : old.log[i].kind # "started"
      BY <1>3 DEF StartedBy, old, n
    <2> HIDE DEF log
    <2>4. log[1].kind = "created" /\ \A i \in 2 .. n : log[i].kind # "created"
      <3>1. \A i \in 2 .. n : i = n \/ i \in 2 .. n - 1
        BY <1>3
      <3>2. 1 \in 1 .. n - 1 /\ \A i \in 2 .. n - 1 : i \in 1 .. n - 1
        BY <1>3
      <3> QED
        BY <2>1, <2>2, <3>1, <3>2
    <2>5. ASSUME NEW i \in 1 .. n, NEW j \in 1 .. n, log[i].kind = "started", log[j].kind = "started"
          PROVE  i = j
      <3>1. (i = n \/ i \in 1 .. n - 1) /\ (j = n \/ j \in 1 .. n - 1)
        BY <1>3
      <3> QED
        BY <2>1, <2>2, <2>3, <2>5, <3>1
    <2> QED
      BY <1>3, <2>1, <2>4, <2>5 DEF LogOk, log
  <1>10. SnapshotsOk(r, run)
    <2>1. \A k \in 1 .. Len(old.log) : StateAt(r, run, k) = StateAt(r, old, k)
      BY <1>2, <1>7, <1>8, StateStable
    <2>2. \A k \in 1 .. Len(old.log) : k \in 1 .. Len(run.log)
      BY <1>2, <1>3, <1>8
    <2> QED
      BY <1>2, <1>7, <2>1, <2>2 DEF SnapshotsOk
  <1>11. RunOk(r, run, scenario)
    BY <1>1, <1>7, <1>9, <1>10 DEF RunOk
  <1>12. next = StateAt(r, run, n)
    <2>1. (n - 1) + 1 = n /\ n - 1 \in Nat
      BY <1>3
    <2>2. StartedBy(run, n) <=> (StartedBy(run, n - 1) \/ run.log[n].kind = "started")
      BY <2>1, StartedNext
    <2>3. run.log[n] = e
      BY <1>6, <1>7
    <2>4. StateAt(r, run, n - 1) = state
      BY <1>2, <1>3, <1>5, <1>7, <1>8, StateStable
    <2>5. /\ state.status = (IF StartedBy(run, n - 1) THEN "running" ELSE "created")
          /\ state.facts = old.inherited \o Own(r, n - 1)
      <3>1. state.status = (IF StartedBy(run, n - 1) THEN "running" ELSE "created")
        BY <2>4 DEF StateAt
      <3>2. state.facts = run.inherited \o Own(r, n - 1)
        BY <2>4 DEF StateAt
      <3> QED
        BY <1>7, <3>1, <3>2
    <2>6. (old.inherited \o Own(r, n - 1)) \o << <<r, n>> >> = old.inherited \o Own(r, n)
      <3>1. \A m \in Nat : (old.inherited \o Own(r, m)) \o << <<r, m + 1>> >>
                             = old.inherited \o Own(r, m + 1)
        BY <1>1, <1>2, OwnNext
      <3> QED
        BY <2>1, <3>1
    <2>7. state.facts \o << <<r, n>> >> = run.inherited \o Own(r, n)
      BY <1>7, <2>5, <2>6
    <2>8. (IF e.kind = "started" THEN "running" ELSE state.status)
            = IF StartedBy(run, n) THEN "running" ELSE "created"
      BY <2>2, <2>3, <2>5
    <2> QED
      BY <2>7, <2>8, Zenon DEF StateAt
  <1> HIDE DEF next
  <1>13. LET last == WithSnapshot(run, n, next)
         IN  /\ RunOk(r, last, scenario) /\ Grown(run, last) /\ last.log = run.log
             /\ last.inherited = run.inherited
    <2>1. n \in 1 .. Len(run.log)
      BY <1>3, <1>8
    <2> QED
      BY <1>1, <1>11, <1>12, <2>1, SnapshotKeeps
  <1>14. CASE Appended(r, e) = run
    BY <1>6, <1>7, <1>8, <1>11, <1>14 DEF old, n
  <1>15. CASE Appended(r, e) = WithSnapshot(run, n, next)
    <2> DEFINE last == WithSnapshot(run, n, next)
    <2>1. /\ RunOk(r, last, scenario) /\ Grown(run, last) /\ last.log = run.log
          /\ last.inherited = run.inherited
      BY <1>13
    <2> HIDE DEF last
    <2>2. Grown(old, last)
      BY <1>2, <1>8, <2>1 DEF Grown
    <2> QED
      BY <1>6, <1>7, <1>8, <1>15, <2>1, <2>2 DEF old, n, last
  <1> QED
    BY <1>4, <1>14, <1>15

\* A new run: its first snapshot is the history it inherits and its first event.
LEMMA CreatedOk ==
  ASSUME Len(runs) \in Nat, NEW key \in Header, NEW version \in 1 .. Len(scenario),
         Len(scenario) \in Nat, NEW parent \in 0 .. Len(runs), NEW from \in Nat,
         NEW history \in Seq(Fact),
         \A k \in Keys : key = <<"studio", k>> => MadeFor(scenario, version, k)
  PROVE  LET run == Created(key, version, parent, from, history, history)
         IN  /\ RunOk(Len(runs) + 1, run, scenario) /\ run.key = key /\ run.version = version
             /\ run.inherited = history /\ Len(run.log) = 1 /\ ~ StartedBy(run, 1)
  <1> DEFINE r == Len(runs) + 1
             event == Event("created", NoKey)
             log == <<event>>
             state == [status |-> "created", facts |-> history \o << <<r, 1>> >>]
             first == [sequence |-> 1, state |-> state]
             run == Created(key, version, parent, from, history, history)
  <1>1. event \in RunEvent /\ event.kind = "created"
    BY DEF Event, RunEvent, Header
  <1> HIDE DEF event
  <1>2. log \in Seq(RunEvent) /\ Len(log) = 1 /\ log[1] = event
    BY <1>1
  <1> HIDE DEF log
  <1>3. run = [key |-> key, version |-> version, parent |-> parent, from |-> from, log |-> log,
               inherited |-> history, origin |-> history, snapshots |-> {first}]
    BY DEF Created, log, event
  <1> HIDE DEF run
  <1>4. ~ StartedBy(run, 1)
    BY <1>1, <1>2, <1>3 DEF StartedBy
  <1>5. history \o << <<r, 1>> >> = history \o Own(r, 1) /\ r \in Nat
    <2>1. r \in Nat
      OBVIOUS
    <2>2. \A m \in Nat : history \o << <<m, 1>> >> = history \o Own(m, 1)
      <3> SUFFICES ASSUME NEW m \in Nat
                   PROVE  history \o << <<m, 1>> >> = history \o Own(m, 1)
        OBVIOUS
      <3>1. 0 \in Nat
        OBVIOUS
      <3> QED
        BY <3>1, OwnNext
    <2> HIDE DEF r
    <2> QED
      BY <2>1, <2>2
  <1>6. state = StateAt(r, run, 1)
    <2>1. run.inherited = history
      BY <1>3
    <2> HIDE DEF r
    <2> QED
      BY <1>4, <1>5, <2>1, Zenon DEF StateAt
  <1>7. StateAt(r, run, 1) \in RunState
    BY <1>3, <1>5, StateType
  <1> HIDE DEF state
  <1>8. {first} \in SUBSET Snapshot
    BY <1>6, <1>7 DEF Snapshot
  <1>9. run \in RunRow
    <2>1. version \in Nat /\ parent \in Nat
      OBVIOUS
    <2> HIDE DEF first
    <2> QED
      BY <1>2, <1>3, <1>8, <2>1 DEF RunRow
  <1>10. LogOk(run.log)
    <2>1. run.log = log /\ Len(log) >= 1 /\ log[1].kind = "created"
      BY <1>1, <1>2, <1>3
    <2>2. \A n \in 2 .. Len(log) : FALSE
      BY <1>2
    <2>3. \A n \in 1 .. Len(log) : n = 1
      BY <1>2
    <2> QED
      BY <2>1, <2>2, <2>3 DEF LogOk
  <1>11. SnapshotsOk(r, run)
    BY <1>2, <1>3, <1>6 DEF SnapshotsOk
  <1>12. run.parent \in 0 .. r - 1 /\ run.version \in 1 .. Len(scenario)
    BY <1>3
  <1>13. RunOk(r, run, scenario)
    BY <1>3, <1>9, <1>10, <1>11, <1>12 DEF RunOk
  <1> QED
    BY <1>2, <1>3, <1>4, <1>13 DEF run

-----------------------------------------------------------------------------
(* What a step does to the runs                                             *)

TableGrows(t, u) ==
  Len(t) <= Len(u) /\ \A r \in 1 .. Len(t) : Grown(t[r], u[r])

LEMMA GrownRefl ==
  ASSUME NEW run, Len(run.log) \in Nat
  PROVE  Grown(run, run)
  BY DEF Grown

LEMMA GrownTrans ==
  ASSUME NEW a, NEW b, NEW c, Len(a.log) \in Nat, Len(b.log) \in Nat, Len(c.log) \in Nat,
         Grown(a, b), Grown(b, c)
  PROVE  Grown(a, c)
  BY DEF Grown

LEMMA TableGrowsRefl ==
  ASSUME NEW t, NEW v, RunsOk(t, v)
  PROVE  TableGrows(t, t)
  <1>1. Len(t) \in Nat
    BY DEF RunsOk
  <1>2. \A r \in 1 .. Len(t) : Len(t[r].log) \in Nat
    BY RunTypes DEF RunsOk
  <1> QED
    BY <1>1, <1>2, GrownRefl DEF TableGrows

LEMMA ReplaceRun ==
  ASSUME NEW t, NEW v, RunsOk(t, v), NEW r \in 1 .. Len(t), NEW run, RunOk(r, run, v),
         Grown(t[r], run)
  PROVE  LET u == [t EXCEPT ![r] = run]
         IN  /\ RunsOk(u, v) /\ TableGrows(t, u) /\ Len(u) = Len(t) /\ u[r] = run
             /\ \A s \in 1 .. Len(t) : s # r => u[s] = t[s]
  <1> DEFINE u == [t EXCEPT ![r] = run]
  <1>1. t \in Seq(RunRow) /\ Len(t) \in Nat /\ run \in RunRow
    BY DEF RunsOk, RunOk
  <1>2. /\ u \in Seq(RunRow) /\ Len(u) = Len(t) /\ u[r] = run
        /\ \A s \in 1 .. Len(t) : s # r => u[s] = t[s]
    BY <1>1
  <1> HIDE DEF u
  <1>3. \A s \in 1 .. Len(u) : RunOk(s, u[s], v)
    BY <1>2 DEF RunsOk
  <1>4. \A s \in 1 .. Len(t) : u[s].key = t[s].key
    BY <1>2 DEF Grown
  <1>5. RunsOk(u, v)
    BY <1>2, <1>3, <1>4 DEF RunsOk
  <1>6. \A s \in 1 .. Len(t) : Grown(t[s], t[s])
    <2>1. TableGrows(t, t)
      BY TableGrowsRefl
    <2> QED
      BY <2>1 DEF TableGrows
  <1>7. TableGrows(t, u)
    BY <1>1, <1>2, <1>6 DEF TableGrows
  <1> QED
    BY <1>2, <1>5, <1>7 DEF u

LEMMA AddRun ==
  ASSUME NEW t, NEW v, RunsOk(t, v), NEW run, RunOk(Len(t) + 1, run, v),
         \A r \in 1 .. Len(t) : t[r].key # run.key
  PROVE  LET u == Append(t, run)
         IN  /\ RunsOk(u, v) /\ TableGrows(t, u) /\ Len(u) = Len(t) + 1 /\ u[Len(t) + 1] = run
             /\ \A s \in 1 .. Len(t) : u[s] = t[s]
  <1> DEFINE u == Append(t, run)
             n == Len(t)
  <1>1. t \in Seq(RunRow) /\ n \in Nat /\ run \in RunRow
    BY DEF RunsOk, RunOk
  <1>2. /\ u \in Seq(RunRow) /\ Len(u) = n + 1 /\ u[n + 1] = run
        /\ \A s \in 1 .. n : u[s] = t[s]
    BY <1>1
  <1> HIDE DEF u, n
  <1>3. \A s \in 1 .. n + 1 : s = n + 1 \/ s \in 1 .. n
    BY <1>1
  <1>4. \A s \in 1 .. n + 1 : RunOk(s, u[s], v)
    BY <1>2, <1>3 DEF RunsOk, n
  <1>5. ASSUME NEW r \in 1 .. n + 1, NEW s \in 1 .. n + 1, u[r].key = u[s].key PROVE r = s
    <2>1. \A i, j \in 1 .. n : t[i].key = t[j].key => i = j
      BY DEF RunsOk, n
    <2>2. \A i \in 1 .. n : t[i].key # run.key
      BY DEF n
    <2> QED
      BY <1>2, <1>3, <1>5, <2>1, <2>2
  <1>6. RunsOk(u, v)
    BY <1>2, <1>4, <1>5 DEF RunsOk
  <1>7. TableGrows(t, u)
    <2>1. TableGrows(t, t)
      BY TableGrowsRefl
    <2> QED
      BY <1>1, <1>2, <2>1 DEF TableGrows, n
  <1> QED
    BY <1>2, <1>6, <1>7 DEF u, n

LEMMA TableVersions ==
  ASSUME NEW t, NEW v, NEW w, RunsOk(t, v), VersionsOk(v), VersionsOk(w), VersionsGrow(v, w)
  PROVE  RunsOk(t, w)
  BY RunVersions DEF RunsOk

-----------------------------------------------------------------------------
(* What a request knows stays true                                          *)

LEMMA RequestStable ==
  ASSUME NEW v, NEW w, VersionsOk(v), VersionsOk(w), VersionsGrow(v, w),
         NEW t, NEW u, RunsOk(t, v), RunsOk(u, w), TableGrows(t, u),
         NEW x, RequestOk(x, v, t)
  PROVE  RequestOk(x, w, u)
  <1>1. Len(v) \in Nat /\ Len(w) \in Nat /\ Len(v) <= Len(w)
    BY DEF VersionsOk, VersionsGrow
  <1>2. Len(t) \in Nat /\ Len(u) \in Nat /\ Len(t) <= Len(u)
    BY DEF RunsOk, TableGrows
  <1>3. \A n, key : MadeFor(v, n, key) => MadeFor(w, n, key)
    BY <1>1 DEF MadeFor, VersionsGrow
  <1>4. ASSUME NEW r \in 1 .. Len(t)
        PROVE  /\ r \in 1 .. Len(u) /\ u[r].key = t[r].key
               /\ Len(t[r].log) \in Nat /\ Len(u[r].log) \in Nat /\ Len(t[r].log) <= Len(u[r].log)
               /\ \A n \in 1 .. Len(t[r].log) : u[r].log[n] = t[r].log[n]
    <2>1. r \in 1 .. Len(u)
      BY <1>2
    <2>2. RunOk(r, t[r], v) /\ RunOk(r, u[r], w)
      BY <2>1 DEF RunsOk
    <2>3. Len(t[r].log) \in Nat /\ Len(u[r].log) \in Nat
      BY <2>2, RunTypes
    <2> QED
      BY <2>1, <2>3 DEF TableGrows, Grown
  <1>5. /\ x \in Request /\ x.version \in Nat /\ x.run \in Nat /\ x.answer.run \in Nat
        /\ x.expected \in Nat /\ x.seen \in Nat /\ x.from \in Nat /\ x.parent \in Nat
    BY DEF RequestOk, Request
  <1>6. Found(x, w, u)
    <2>1. Found(x, v, t)
      BY DEF RequestOk
    <2>2. x.version <= Len(w)
      BY <1>1, <1>5, <2>1 DEF Found
    <2>3. x.kind = "branch" => x.parent \in 1 .. Len(u) /\ x.from \in 1 .. Len(u[x.parent].log)
      <3> SUFFICES ASSUME x.kind = "branch"
                   PROVE  x.parent \in 1 .. Len(u) /\ x.from \in 1 .. Len(u[x.parent].log)
        OBVIOUS
      <3>1. x.parent \in 1 .. Len(t) /\ x.from \in 1 .. Len(t[x.parent].log)
        BY <2>1 DEF Found
      <3> QED
        BY <1>4, <3>1
    <2> QED
      BY <1>3, <2>1, <2>2, <2>3 DEF Found
  <1>7. StartOk(x, u)
    <2>1. StartOk(x, t)
      BY DEF RequestOk
    <2>2. CASE x.run = 0
      BY <1>2, <1>5, <2>1, <2>2 DEF StartOk, Starting
    <2>3. CASE x.run # 0
      <3> DEFINE old == t[x.run]
                 new == u[x.run]
      <3>1. x.run \in 1 .. Len(t)
        BY <1>2, <1>5, <2>1, <2>3 DEF StartOk
      <3>2. /\ x.run <= Len(u) /\ new.key = old.key
            /\ Len(old.log) \in Nat /\ Len(new.log) \in Nat /\ Len(old.log) <= Len(new.log)
            /\ \A n \in 1 .. Len(old.log) : new.log[n] = old.log[n]
        BY <1>2, <1>4, <3>1
      <3>3. x.pc \in Starting => x.expected + 1 <= Len(old.log)
        BY <2>1 DEF StartOk
      <3>4. (x.pc = "commit" /\ ~ StartedBy(old, x.expected + 1)) => ~ StartedBy(new, x.expected + 1)
        <4> SUFFICES ASSUME x.pc = "commit", NEW n \in 1 .. x.expected + 1
                     PROVE  new.log[n].kind = "started" => old.log[n].kind = "started"
          BY DEF StartedBy
        <4>1. n \in 1 .. Len(old.log)
          BY <1>5, <3>2, <3>3 DEF Starting
        <4> QED
          BY <3>2, <4>1
      <3>5. x.pc = "lookup" => x.seen \in x.expected + 1 .. Len(old.log)
        BY <2>1 DEF StartOk
      <3>6. x.pc = "lookup" => x.seen \in x.expected + 1 .. Len(new.log)
        BY <1>5, <3>2, <3>5
      <3>7. x.pc \in Starting => x.expected + 1 <= Len(new.log)
        BY <1>5, <3>2, <3>3
      <3>8. x.pc = "answer" => Len(new.log) >= 2
        BY <2>1, <3>2 DEF StartOk
      <3>9. new.key = HeaderOf(x)
        BY <2>1, <2>3, <3>2 DEF StartOk
      <3> QED
        BY <2>1, <2>3, <3>2, <3>4, <3>6, <3>7, <3>8, <3>9 DEF StartOk
    <2> QED
      BY <2>2, <2>3
  <1>8. AnswerOk(x, u)
    <2>1. AnswerOk(x, t)
      BY DEF RequestOk
    <2>2. CASE x.answer.run = 0
      BY <1>2, <1>5, <2>1, <2>2 DEF AnswerOk
    <2>3. CASE x.answer.run # 0
      <3>1. x.answer.run \in 1 .. Len(t)
        BY <1>2, <1>5, <2>1, <2>3 DEF AnswerOk
      <3> QED
        BY <1>2, <1>4, <1>5, <2>1, <3>1 DEF AnswerOk
    <2> QED
      BY <2>2, <2>3
  <1> QED
    BY <1>5, <1>6, <1>7, <1>8 DEF RequestOk

-----------------------------------------------------------------------------
(* The steps                                                                *)

\* What every step may use.
LEMMA Known ==
  ASSUME CreationIInv
  PROVE  /\ VersionsOk(scenario) /\ Len(scenario) \in Nat \ {0}
         /\ RunsOk(runs, scenario) /\ Len(runs) \in Nat
         /\ \A r \in Runs : /\ RunOk(r, runs[r], scenario) /\ runs[r].key \in Header
                            /\ Len(runs[r].log) \in Nat \ {0}
                            /\ Version(r) \in Nat /\ Version(r) + 1 = Len(runs[r].log)
         /\ \A q \in Requests : /\ requests[q] \in Request
                                /\ RequestOk(requests[q], scenario, runs)
                                /\ KeyOf(q) = HeaderOf(requests[q])
         /\ VersionsGrow(scenario, scenario) /\ TableGrows(runs, runs)
  <1>1. VersionsOk(scenario) /\ Len(scenario) \in Nat \ {0} /\ RunsOk(runs, scenario)
    BY DEF CreationIInv, VersionsOk
  <1>2. Len(runs) \in Nat
    BY <1>1 DEF RunsOk
  <1>3. ASSUME NEW r \in Runs
        PROVE  /\ RunOk(r, runs[r], scenario) /\ runs[r].key \in Header
               /\ Len(runs[r].log) \in Nat \ {0}
               /\ Version(r) \in Nat /\ Version(r) + 1 = Len(runs[r].log)
    <2>1. RunOk(r, runs[r], scenario)
      BY <1>1 DEF RunsOk, Runs
    <2>2. runs[r].key \in Header
      BY <2>1 DEF RunOk, RunRow
    <2>3. Len(runs[r].log) \in Nat \ {0}
      BY <2>1, RunTypes
    <2> QED
      BY <2>1, <2>2, <2>3 DEF Version
  <1>4. ASSUME NEW q \in Requests
        PROVE  /\ requests[q] \in Request /\ RequestOk(requests[q], scenario, runs)
               /\ KeyOf(q) = HeaderOf(requests[q])
    BY DEF CreationIInv, KeyOf, HeaderOf
  <1>5. VersionsGrow(scenario, scenario)
    BY <1>1 DEF VersionsGrow
  <1>6. TableGrows(runs, runs)
    BY <1>1, TableGrowsRefl
  <1> QED
    BY <1>1, <1>2, <1>3, <1>4, <1>5, <1>6

\* A step of one request, where versions and runs only grow.
LEMMA RequestSteps ==
  ASSUME CreationIInv, NEW q \in Requests, NEW y, Moves(q, y),
         VersionsOk(scenario'), VersionsGrow(scenario, scenario'),
         RunsOk(runs', scenario'), TableGrows(runs, runs'),
         RequestOk(y, scenario', runs')
  PROVE  CreationIInv'
  <1>1. y \in Request /\ requests \in [Requests -> Request]
    BY DEF RequestOk, CreationIInv
  <1>2. requests' \in [Requests -> Request]
    BY <1>1 DEF Moves
  <1>3. ASSUME NEW p \in Requests PROVE RequestOk(requests'[p], scenario', runs')
    <2>1. CASE p = q
      BY <1>1, <2>1 DEF Moves
    <2>2. CASE p # q
      <3>1. requests'[p] = requests[p]
        BY <1>1, <2>2 DEF Moves
      <3>2. RequestOk(requests[p], scenario, runs) /\ VersionsOk(scenario) /\ RunsOk(runs, scenario)
        BY Known
      <3>3. RequestOk(requests[p], scenario', runs')
        BY <3>2, RequestStable
      <3> QED
        BY <3>1, <3>3
    <2> QED
      BY <2>1, <2>2
  <1> QED
    BY <1>2, <1>3 DEF CreationIInv

\* The header of a request that was sent.
LEMMA HeaderType ==
  ASSUME NEW x \in Request
  PROVE  HeaderOf(x) \in Header
  BY DEF HeaderOf, Header, Request

\* A request that is answered with run r.
Answered(x, r, status) ==
  [x EXCEPT !.pc = "done",
            !.answer = [run |-> r, status |-> status, version |-> IF r = 0 THEN 0 ELSE x.version]]

LEMMA AnswerKeeps ==
  ASSUME NEW v, NEW t, NEW x, RequestOk(x, v, t), x.pc \notin {"unused", "derive"},
         Len(t) \in Nat, NEW r \in 0 .. Len(t), r # 0 => t[r].key = HeaderOf(x),
         x.kind = "studio" => r # 0 /\ Len(t[r].log) >= 2, NEW status \in {"ok", "conflict"}
  PROVE  RequestOk(Answered(x, r, status), v, t)
  <1> DEFINE y == Answered(x, r, status)
             answer == [run |-> r, status |-> status, version |-> IF r = 0 THEN 0 ELSE x.version]
  <1>1. x \in Request /\ Found(x, v, t) /\ StartOk(x, t) /\ r \in Nat
    BY DEF RequestOk
  <1>2. answer \in [run : Nat, version : Nat, status : {None, "ok", "conflict"}]
    BY <1>1 DEF Request
  <1>3. /\ answer.run = r /\ (r # 0 => answer.version = x.version)
    OBVIOUS
  <1>4. y = [x EXCEPT !.pc = "done", !.answer = answer]
    BY DEF Answered
  <1> HIDE DEF answer, y
  <1>5. /\ y \in Request /\ y.pc = "done" /\ y.answer = answer /\ y.kind = x.kind
        /\ y.key = x.key /\ y.parent = x.parent /\ y.from = x.from /\ y.expected = x.expected
        /\ y.version = x.version /\ y.run = x.run /\ y.seen = x.seen
    BY <1>1, <1>2, <1>4 DEF Request
  <1>6. HeaderOf(y) = HeaderOf(x)
    BY <1>5 DEF HeaderOf
  <1>7. x.kind # None
    BY <1>1 DEF Found
  <1>8. Found(y, v, t)
    BY <1>1, <1>5, <1>7 DEF Found, Starting
  <1>9. StartOk(y, t)
    BY <1>1, <1>5, <1>6 DEF StartOk, Starting
  <1>10. AnswerOk(y, t)
    BY <1>3, <1>5, <1>6 DEF AnswerOk
  <1> QED
    BY <1>5, <1>8, <1>9, <1>10 DEF RequestOk, y

LEMMA AnswersKeep ==
  ASSUME CreationIInv, UNCHANGED <<scenario, runs>>, NEW q \in Requests, NEW r \in 0 .. Len(runs),
         NEW status \in {"ok", "conflict"}, Answers(q, r, status),
         requests[q].pc \notin {"unused", "derive"}, r # 0 => runs[r].key = KeyOf(q),
         requests[q].kind = "studio" => r # 0 /\ Len(runs[r].log) >= 2
  PROVE  CreationIInv'
  <1>1. RequestOk(Answered(requests[q], r, status), scenario, runs)
    BY Known, AnswerKeeps
  <1>2. Moves(q, Answered(requests[q], r, status))
    BY DEF Answers, Answered
  <1> QED
    BY <1>1, <1>2, Known, RequestSteps

\* A Studio request that has its run, and is about to start it.
LEMMA StartKeeps ==
  ASSUME NEW v, NEW t, NEW x, RequestOk(x, v, t), x.pc \in {"find", "create"}, x.kind = "studio",
         Len(t) \in Nat, NEW r \in 1 .. Len(t), t[r].key = HeaderOf(x),
         NEW n \in Nat, n + 1 <= Len(t[r].log)
  PROVE  RequestOk([x EXCEPT !.pc = "start", !.run = r, !.expected = n], v, t)
  <1> DEFINE y == [x EXCEPT !.pc = "start", !.run = r, !.expected = n]
  <1>1. x \in Request /\ Found(x, v, t) /\ StartOk(x, t) /\ AnswerOk(x, t) /\ r \in Nat
    BY DEF RequestOk
  <1>2. /\ y \in Request /\ y.pc = "start" /\ y.answer = x.answer /\ y.kind = x.kind
        /\ y.key = x.key /\ y.parent = x.parent /\ y.from = x.from /\ y.expected = n
        /\ y.version = x.version /\ y.run = r /\ y.seen = x.seen
    BY <1>1 DEF Request
  <1> HIDE DEF y
  <1>3. HeaderOf(y) = HeaderOf(x)
    BY <1>2 DEF HeaderOf
  <1>4. Found(y, v, t)
    BY <1>1, <1>2 DEF Found, Starting
  <1>5. StartOk(y, t)
    BY <1>1, <1>2, <1>3 DEF StartOk, Starting
  <1>6. AnswerOk(y, t)
    BY <1>1, <1>2, <1>3 DEF AnswerOk
  <1> QED
    BY <1>2, <1>4, <1>5, <1>6 DEF RequestOk, y

LEMMA ContinuesKeep ==
  ASSUME CreationIInv, UNCHANGED <<scenario, runs>>, NEW q \in Requests,
         requests[q].pc \in {"find", "create"}, NEW r \in RunsFor(q), Continues(q, r)
  PROVE  CreationIInv'
  <1>1. r \in Runs /\ runs[r].key = KeyOf(q) /\ r \in 1 .. Len(runs) /\ r \in 0 .. Len(runs)
    BY DEF RunsFor, Runs
  <1>2. CASE requests[q].kind = "studio"
    <2>1. Version(r) \in Nat /\ Version(r) + 1 <= Len(runs[r].log)
      BY <1>1, Known
    <2>2. RequestOk([requests[q] EXCEPT !.pc = "start", !.run = r, !.expected = Version(r)],
                    scenario, runs)
      BY <1>1, <1>2, <2>1, Known, StartKeeps
    <2>3. Moves(q, [requests[q] EXCEPT !.pc = "start", !.run = r, !.expected = Version(r)])
      BY <1>2 DEF Continues
    <2> QED
      BY <2>2, <2>3, Known, RequestSteps
  <1>3. CASE requests[q].kind # "studio"
    BY <1>1, <1>3, AnswersKeep DEF Continues
  <1> QED
    BY <1>2, <1>3

LEMMA DeriveKeeps == ASSUME CreationIInv, NEW q \in Requests, Derive(q) PROVE CreationIInv'
  <1> DEFINE x == requests[q]
             made == {v \in 2 .. Len(scenario) : scenario[v] = x.key}
             v == IF made = {} THEN Len(scenario) + 1
                  ELSE CHOOSE z \in made : \A y \in made : y <= z
             y == [x EXCEPT !.pc = "find", !.version = v]
  <1>1. /\ x \in Request /\ Found(x, scenario, runs) /\ StartOk(x, runs) /\ AnswerOk(x, runs)
        /\ x.pc = "derive" /\ VersionsOk(scenario) /\ Len(scenario) \in Nat \ {0}
        /\ RunsOk(runs, scenario)
    BY Known DEF RequestOk, Derive
  <1>2. x.kind = "studio" /\ x.key \in Keys
    BY <1>1 DEF Found, Starting
  <1>3. /\ scenario' = IF made = {} THEN Append(scenario, x.key) ELSE scenario
        /\ Moves(q, y) /\ runs' = runs
    BY DEF Derive
  <1>4. /\ VersionsOk(scenario') /\ VersionsGrow(scenario, scenario')
        /\ v \in 2 .. Len(scenario') /\ scenario'[v] = x.key
    <2>1. CASE made = {}
      <3> DEFINE s == Append(scenario, x.key)
                 n == Len(scenario)
      <3>1. /\ scenario \in Seq(Keys \cup {None}) /\ n >= 1 /\ n \in Nat
            /\ \A a, b \in 2 .. n : scenario[a] = scenario[b] => a = b
        BY <1>1 DEF VersionsOk
      <3>2. /\ s \in Seq(Keys \cup {None}) /\ Len(s) = n + 1 /\ s[n + 1] = x.key
            /\ \A a \in 1 .. n : s[a] = scenario[a]
        BY <1>2, <3>1
      <3>3. scenario' = s /\ v = n + 1
        BY <1>3, <2>1
      <3>4. \A a \in 2 .. n : scenario[a] # x.key
        BY <2>1
      <3> HIDE DEF s, n, x, v, made
      <3>5. ASSUME NEW a \in 2 .. n + 1, NEW b \in 2 .. n + 1, s[a] = s[b] PROVE a = b
        <4>1. /\ (a = n + 1 \/ (a \in 2 .. n /\ a \in 1 .. n))
              /\ (b = n + 1 \/ (b \in 2 .. n /\ b \in 1 .. n))
          BY <3>1
        <4> QED
          BY <3>1, <3>2, <3>4, <3>5, <4>1
      <3>6. VersionsOk(s)
        BY <3>1, <3>2, <3>5 DEF VersionsOk
      <3>7. VersionsGrow(scenario, s)
        BY <3>1, <3>2 DEF VersionsGrow, n
      <3> QED
        BY <3>1, <3>2, <3>3, <3>6, <3>7
    <2>2. CASE made # {}
      <3>1. \A a, b \in made : a = b
        BY <1>1 DEF VersionsOk
      <3>2. made \subseteq Nat
        BY <1>1
      <3>3. \E z \in made : \A w \in made : w <= z
        <4> HIDE DEF made
        <4>1. PICK z \in made : TRUE
          BY <2>2
        <4>2. \A w \in made : w = z /\ w <= z
          BY <3>1, <3>2, <4>1
        <4> QED
          BY <4>1, <4>2
      <3>4. v \in made
        <4> HIDE DEF made
        <4> QED
          BY <2>2, <3>3
      <3>5. scenario' = scenario
        BY <1>3, <2>2
      <3> HIDE DEF v
      <3> QED
        BY <1>1, <3>4, <3>5, Known
    <2> QED
      BY <2>1, <2>2
  <1>5. Len(scenario') \in Nat /\ v \in Nat
    <2>1. Len(scenario') \in Nat
      BY <1>4 DEF VersionsOk
    <2> HIDE DEF v
    <2> QED
      BY <1>4, <2>1
  <1> HIDE DEF v, x
  <1>6. /\ y \in Request /\ y.pc = "find" /\ y.answer = x.answer /\ y.kind = x.kind
        /\ y.key = x.key /\ y.parent = x.parent /\ y.from = x.from /\ y.expected = x.expected
        /\ y.version = v /\ y.run = x.run /\ y.seen = x.seen
    BY <1>1, <1>5 DEF Request
  <1> HIDE DEF y
  <1>7. HeaderOf(y) = HeaderOf(x)
    BY <1>6 DEF HeaderOf
  <1>8. v >= 1 /\ v <= Len(scenario') /\ MadeFor(scenario', v, x.key)
    BY <1>4, <1>5 DEF MadeFor
  <1>9. Found(y, scenario', runs)
    BY <1>1, <1>2, <1>6, <1>8 DEF Found, Starting
  <1>10. StartOk(y, runs)
    BY <1>1, <1>6, <1>7 DEF StartOk, Starting
  <1>11. AnswerOk(y, runs)
    BY <1>1, <1>6, <1>7 DEF AnswerOk
  <1>12. RequestOk(y, scenario', runs')
    BY <1>3, <1>6, <1>9, <1>10, <1>11 DEF RequestOk
  <1>13. RunsOk(runs', scenario') /\ TableGrows(runs, runs')
    BY <1>1, <1>3, <1>4, Known, TableVersions
  <1> QED
    BY <1>3, <1>4, <1>12, <1>13, RequestSteps

LEMMA FindKeeps == ASSUME CreationIInv, NEW q \in Requests, Find(q) PROVE CreationIInv'
  <1> DEFINE x == requests[q]
             y == [x EXCEPT !.pc = "create"]
  <1>1. /\ x \in Request /\ Found(x, scenario, runs) /\ StartOk(x, runs) /\ AnswerOk(x, runs)
        /\ x.pc = "find" /\ UNCHANGED <<scenario, runs>>
    BY Known DEF RequestOk, Find
  <1>2. CASE RunsFor(q) = {}
    <2>1. Moves(q, y)
      BY <1>2 DEF Find
    <2> HIDE DEF x
    <2>2. /\ y \in Request /\ y.pc = "create" /\ y.answer = x.answer /\ y.kind = x.kind
          /\ y.key = x.key /\ y.parent = x.parent /\ y.from = x.from /\ y.expected = x.expected
          /\ y.version = x.version /\ y.run = x.run /\ y.seen = x.seen
      BY <1>1 DEF Request
    <2> HIDE DEF y
    <2>3. HeaderOf(y) = HeaderOf(x)
      BY <2>2 DEF HeaderOf
    <2>4. Found(y, scenario, runs)
      BY <1>1, <2>2 DEF Found, Starting
    <2>5. StartOk(y, runs)
      BY <1>1, <2>2, <2>3 DEF StartOk, Starting
    <2>6. AnswerOk(y, runs)
      BY <1>1, <2>2, <2>3 DEF AnswerOk
    <2>7. RequestOk(y, scenario', runs')
      BY <1>1, <2>2, <2>4, <2>5, <2>6 DEF RequestOk
    <2> QED
      BY <1>1, <2>1, <2>7, Known, RequestSteps
  <1>3. CASE RunsFor(q) # {}
    <2>1. PICK r \in RunsFor(q) : Continues(q, r)
      BY <1>3 DEF Find
    <2> QED
      BY <1>1, <2>1, ContinuesKeep
  <1> QED
    BY <1>2, <1>3

\* The key was not used: there is one more run, which has its first event.
LEMMA CreateAdds ==
  ASSUME CreationIInv, NEW q \in Requests, Create(q), RunsFor(q) = {}
  PROVE  LET run == Created(KeyOf(q), requests[q].version, 0, 0, <<>>, <<>>)
         IN  /\ runs' = Append(runs, run) /\ RunOk(Len(runs) + 1, run, scenario)
             /\ run.key = KeyOf(q) /\ run.version = requests[q].version /\ run.inherited = <<>>
             /\ Len(run.log) = 1 /\ ~ StartedBy(run, 1)
             /\ \A r \in 1 .. Len(runs) : runs[r].key # run.key
             /\ requests[q].version \in 1 .. Len(scenario) /\ requests[q].kind # "branch"
  <1> DEFINE x == requests[q]
             run == Created(KeyOf(q), x.version, 0, 0, <<>>, <<>>)
  <1>1. /\ x \in Request /\ Found(x, scenario, runs) /\ x.pc = "create" /\ KeyOf(q) = HeaderOf(x)
        /\ Len(runs) \in Nat /\ Len(scenario) \in Nat
    BY Known DEF RequestOk, Create
  <1>2. /\ x.version \in 1 .. Len(scenario) /\ x.kind # "branch"
        /\ x.kind = "studio" => MadeFor(scenario, x.version, x.key)
    BY <1>1 DEF Found, Request
  <1>3. \A k \in Keys : KeyOf(q) = <<"studio", k>> => MadeFor(scenario, x.version, k)
    BY <1>1, <1>2 DEF HeaderOf
  <1>4. /\ RunOk(Len(runs) + 1, run, scenario) /\ run.key = KeyOf(q) /\ run.version = x.version
        /\ run.inherited = <<>> /\ Len(run.log) = 1 /\ ~ StartedBy(run, 1)
    <2> DEFINE key == KeyOf(q)
               version == x.version
               none == <<>>
    <2>1. /\ key \in Header /\ version \in 1 .. Len(scenario) /\ none \in Seq(Fact)
          /\ 0 \in 0 .. Len(runs) /\ 0 \in Nat
          /\ \A k \in Keys : key = <<"studio", k>> => MadeFor(scenario, version, k)
      BY <1>1, <1>2, <1>3, HeaderType
    <2> HIDE DEF key, version, none
    <2>2. LET new == Created(key, version, 0, 0, none, none)
          IN  /\ RunOk(Len(runs) + 1, new, scenario) /\ new.key = key /\ new.version = version
              /\ new.inherited = none /\ Len(new.log) = 1 /\ ~ StartedBy(new, 1)
      BY <1>1, <2>1, CreatedOk
    <2> QED
      BY <2>2 DEF key, version, none
  <1>5. runs' = Append(runs, run)
    BY DEF Create
  <1>6. \A r \in 1 .. Len(runs) : runs[r].key # KeyOf(q)
    BY DEF RunsFor, Runs
  <1> HIDE DEF run
  <1> QED
    BY <1>2, <1>4, <1>5, <1>6 DEF run

LEMMA CreateKeeps == ASSUME CreationIInv, NEW q \in Requests, Create(q) PROVE CreationIInv'
  <1> DEFINE x == requests[q]
             run == Created(KeyOf(q), x.version, 0, 0, <<>>, <<>>)
             n == Len(runs) + 1
  <1>1. /\ x \in Request /\ Found(x, scenario, runs) /\ StartOk(x, runs) /\ AnswerOk(x, runs)
        /\ x.pc = "create" /\ scenario' = scenario /\ KeyOf(q) = HeaderOf(x)
        /\ RequestOk(x, scenario, runs) /\ RunsOk(runs, scenario) /\ Len(runs) \in Nat
        /\ VersionsOk(scenario) /\ VersionsGrow(scenario, scenario) /\ Len(scenario) \in Nat
    BY Known DEF RequestOk, Create
  <1>2. CASE RunsFor(q) = {}
    <2>1. /\ runs' = Append(runs, run) /\ RunOk(n, run, scenario) /\ run.key = KeyOf(q)
          /\ Len(run.log) = 1 /\ \A r \in 1 .. Len(runs) : runs[r].key # run.key
      BY <1>2, CreateAdds
    <2>2. IF x.kind = "studio"
          THEN Moves(q, [x EXCEPT !.pc = "start", !.run = n, !.expected = 0])
          ELSE Answers(q, n, "ok")
      BY <1>2 DEF Create
    <2> HIDE DEF run
    <2>3. LET u == Append(runs, run)
          IN  /\ RunsOk(u, scenario) /\ TableGrows(runs, u) /\ Len(u) = Len(runs) + 1
              /\ u[Len(runs) + 1] = run /\ \A s \in 1 .. Len(runs) : u[s] = runs[s]
      BY <1>1, <2>1, AddRun
    <2>4. /\ RunsOk(runs', scenario) /\ TableGrows(runs, runs') /\ Len(runs') = n
          /\ runs'[n] = run
      BY <2>1, <2>3
    <2>5. RequestOk(x, scenario, runs')
      BY <1>1, <2>4, RequestStable
    <2>6. n \in 1 .. Len(runs') /\ n \in 0 .. Len(runs') /\ Len(runs') \in Nat
      BY <1>1, <2>4
    <2>7. CASE x.kind = "studio"
      <3>1. /\ 0 \in Nat /\ 0 + 1 <= Len(runs'[n].log) /\ runs'[n].key = HeaderOf(x)
        <4>1. runs'[n].key = run.key /\ Len(runs'[n].log) = 1
          BY <2>1, <2>4, Zenon
        <4> QED
          BY <1>1, <2>1, <4>1
      <3>2. Moves(q, [x EXCEPT !.pc = "start", !.run = n, !.expected = 0])
        BY <2>2, <2>7
      <3> HIDE DEF n, x
      <3>3. RequestOk([x EXCEPT !.pc = "start", !.run = n, !.expected = 0], scenario, runs')
        BY <1>1, <2>5, <2>6, <2>7, <3>1, StartKeeps
      <3> QED
        BY <1>1, <2>4, <3>2, <3>3, RequestSteps
    <2>8. CASE x.kind # "studio"
      <3>1. Moves(q, Answered(x, n, "ok"))
        BY <2>2, <2>8 DEF Answers, Answered
      <3>2. runs'[n].key = HeaderOf(x)
        BY <1>1, <2>1, <2>4
      <3> HIDE DEF n, x
      <3>3. RequestOk(Answered(x, n, "ok"), scenario, runs')
        BY <1>1, <2>5, <2>6, <2>8, <3>2, AnswerKeeps
      <3> QED
        BY <1>1, <2>4, <3>1, <3>3, RequestSteps
    <2> QED
      BY <2>7, <2>8
  <1>3. CASE RunsFor(q) # {}
    <2>1. PICK r \in RunsFor(q) : Continues(q, r) /\ UNCHANGED runs
      BY <1>3 DEF Create
    <2> QED
      BY <1>1, <2>1, ContinuesKeep
  <1> QED
    BY <1>2, <1>3

\* A Studio request at work on the start of its run: what each of its steps may
\* use, and what the request must show of itself when it has moved on.
LEMMA AtWork ==
  ASSUME CreationIInv, NEW q \in Requests, requests[q].pc \in Starting
  PROVE  LET x == requests[q]
         IN  /\ x \in Request /\ RequestOk(x, scenario, runs) /\ x.kind = "studio" /\ x.key \in Keys
             /\ MadeFor(scenario, x.version, x.key) /\ x.version <= Len(scenario)
             /\ x.run \in Runs /\ x.run \in Nat /\ x.expected \in Nat
             /\ x.expected + 1 <= Len(runs[x.run].log)
             /\ runs[x.run].key = HeaderOf(x) /\ KeyOf(q) = HeaderOf(x) /\ x.answer.run = 0
             /\ RunOk(x.run, runs[x.run], scenario) /\ Len(runs[x.run].log) \in Nat \ {0}
             /\ LogOk(runs[x.run].log)
  <1> DEFINE x == requests[q]
  <1>1. /\ x \in Request /\ RequestOk(x, scenario, runs) /\ KeyOf(q) = HeaderOf(x)
        /\ Len(runs) \in Nat
    BY Known
  <1>2. x.run \in Nat /\ x.expected \in Nat
    BY <1>1 DEF Request
  <1>3. Found(x, scenario, runs) /\ StartOk(x, runs) /\ AnswerOk(x, runs)
    BY <1>1 DEF RequestOk
  <1>4. /\ x.kind = "studio" /\ x.key \in Keys
        /\ MadeFor(scenario, x.version, x.key) /\ x.version <= Len(scenario)
    BY <1>3 DEF Found, Starting
  <1>5. /\ x.run \in Runs /\ x.expected + 1 <= Len(runs[x.run].log)
        /\ runs[x.run].key = HeaderOf(x)
    BY <1>1, <1>2, <1>3 DEF StartOk, Runs
  <1>6. x.answer.run = 0
    BY <1>3 DEF AnswerOk, Starting
  <1>7. RunOk(x.run, runs[x.run], scenario) /\ Len(runs[x.run].log) \in Nat \ {0}
    BY <1>5, Known
  <1>8. LogOk(runs[x.run].log)
    BY <1>7 DEF RunOk
  <1> QED
    BY <1>1, <1>2, <1>4, <1>5, <1>6, <1>7, <1>8

LEMMA WorksOn ==
  ASSUME NEW v, NEW t, NEW y \in Request, y.pc \in Starting, y.kind = "studio", y.key \in Keys,
         MadeFor(v, y.version, y.key), y.version <= Len(v), y.answer.run = 0,
         y.run \in 1 .. Len(t), Len(t) \in Nat, t[y.run].key = HeaderOf(y),
         y.expected + 1 <= Len(t[y.run].log),
         y.pc = "lookup" => y.seen \in y.expected + 1 .. Len(t[y.run].log),
         y.pc = "commit" => ~ StartedBy(t[y.run], y.expected + 1),
         y.pc = "answer" => Len(t[y.run].log) >= 2
  PROVE  RequestOk(y, v, t)
  <1>1. Found(y, v, t)
    BY DEF Found, Starting, None
  <1>2. StartOk(y, t)
    BY DEF StartOk, Starting
  <1>3. AnswerOk(y, t)
    BY DEF AnswerOk, Starting
  <1> QED
    BY <1>1, <1>2, <1>3 DEF RequestOk

\* A start is found, by the status it led to or by its key, behind the first event.
LEMMA StartedIsLater ==
  ASSUME NEW run, LogOk(run.log), Len(run.log) \in Nat,
         NEW n \in 1 .. Len(run.log), StartedBy(run, n)
  PROVE  Len(run.log) >= 2
  BY DEF StartedBy, LogOk

LEMMA ReadRowKeeps == ASSUME CreationIInv, NEW q \in Requests, ReadRow(q) PROVE CreationIInv'
  <1> DEFINE x == requests[q]
             length == Len(runs[x.run].log)
             y == [x EXCEPT !.pc = "lookup", !.seen = length]
  <1>1. x.pc = "start" /\ Moves(q, y) /\ UNCHANGED <<scenario, runs>>
    BY DEF ReadRow
  <1>2. /\ x \in Request /\ RequestOk(x, scenario, runs) /\ x.kind = "studio" /\ x.key \in Keys
        /\ MadeFor(scenario, x.version, x.key) /\ x.version <= Len(scenario)
        /\ x.run \in Runs /\ x.run \in Nat /\ x.expected \in Nat
        /\ x.expected + 1 <= length
        /\ runs[x.run].key = HeaderOf(x) /\ x.answer.run = 0 /\ length \in Nat \ {0}
    BY <1>1, AtWork DEF Starting
  <1>3. length \in x.expected + 1 .. length
    BY <1>2
  <1> HIDE DEF x, length
  <1>4. /\ y \in Request /\ y.pc = "lookup" /\ y.answer = x.answer /\ y.kind = x.kind
        /\ y.key = x.key /\ y.expected = x.expected
        /\ y.version = x.version /\ y.run = x.run /\ y.seen = length
    BY <1>2 DEF Request
  <1> HIDE DEF y
  <1>5. HeaderOf(y) = HeaderOf(x)
    BY <1>4 DEF HeaderOf
  <1>6. RequestOk(y, scenario, runs)
    <2>1. y.seen \in y.expected + 1 .. Len(runs[y.run].log)
      BY <1>3, <1>4 DEF length
    <2>2. Len(runs) \in Nat /\ y.run \in 1 .. Len(runs)
      BY <1>2, <1>4, Known DEF Runs
    <2>3. y.expected + 1 <= Len(runs[y.run].log)
      BY <1>2, <1>4 DEF length
    <2> QED
      BY <1>2, <1>4, <1>5, <2>1, <2>2, <2>3, WorksOn DEF Starting
  <1> QED
    BY <1>1, <1>6, Known, RequestSteps

LEMMA LookupKeeps == ASSUME CreationIInv, NEW q \in Requests, Lookup(q) PROVE CreationIInv'
  <1> DEFINE x == requests[q]
             run == runs[x.run]
             accepted == x.expected = x.seen - 1 /\ Load(x.run, x.seen).status = "created"
             pc == IF ~ Applied(q) /\ accepted THEN "commit" ELSE "answer"
             y == [x EXCEPT !.seen = 0, !.pc = pc]
  <1>1. x.pc = "lookup" /\ Moves(q, y) /\ UNCHANGED <<scenario, runs>>
    BY DEF Lookup, Expected
  <1>2. /\ x \in Request /\ RequestOk(x, scenario, runs) /\ x.kind = "studio" /\ x.key \in Keys
        /\ MadeFor(scenario, x.version, x.key) /\ x.version <= Len(scenario)
        /\ x.run \in Runs /\ x.run \in Nat /\ x.expected \in Nat
        /\ x.expected + 1 <= Len(run.log)
        /\ run.key = HeaderOf(x) /\ x.answer.run = 0 /\ Len(run.log) \in Nat \ {0}
        /\ LogOk(run.log) /\ RunsOk(runs, scenario)
    BY <1>1, AtWork, Known DEF Starting
  <1>3. x.seen \in x.expected + 1 .. Len(run.log)
    BY <1>1, <1>2 DEF RequestOk, StartOk
  <1>4. x.seen \in 1 .. Len(run.log)
    BY <1>2, <1>3
  <1>5. Load(x.run, x.seen).status = IF StartedBy(run, x.seen) THEN "running" ELSE "created"
    <2>1. Load(x.run, x.seen) = StateAt(x.run, run, x.seen)
      BY <1>2, <1>4, LoadIs
    <2> QED
      BY <2>1 DEF StateAt
  <1>6. pc = "commit" => ~ StartedBy(run, x.expected + 1)
    <2>1. x.expected = x.seen - 1 => x.expected + 1 = x.seen
      BY <1>2, <1>4
    <2> QED
      BY <1>5, <2>1
  <1>7. pc # "commit" => Len(run.log) >= 2
    <2>1. CASE Applied(q)
      <3>1. PICK n \in 1 .. Len(run.log) : run.log[n] = Event("started", KeyOf(q))
        BY <2>1 DEF Applied
      <3>2. StartedBy(run, n) /\ n \in 1 .. Len(run.log)
        BY <1>2, <3>1 DEF StartedBy, Event
      <3> HIDE DEF run
      <3> QED
        BY <1>2, <3>2, StartedIsLater
    <2>2. CASE x.expected # x.seen - 1
      BY <1>2, <1>3, <2>2
    <2>3. CASE StartedBy(run, x.seen)
      <3> HIDE DEF run, x
      <3> QED
        BY <1>2, <1>4, <2>3, StartedIsLater
    <2> QED
      BY <1>5, <2>1, <2>2, <2>3
  <1>8. pc \in {"commit", "answer"}
    OBVIOUS
  <1> HIDE DEF x, run, pc
  <1>9. /\ y \in Request /\ y.pc = pc /\ y.answer = x.answer /\ y.kind = x.kind
        /\ y.key = x.key /\ y.expected = x.expected
        /\ y.version = x.version /\ y.run = x.run
    BY <1>2, <1>8 DEF Request
  <1> HIDE DEF y
  <1>10. HeaderOf(y) = HeaderOf(x)
    BY <1>9 DEF HeaderOf
  <1>11. RequestOk(y, scenario, runs)
    <2>1. run = runs[y.run] /\ Len(runs) \in Nat /\ y.run \in 1 .. Len(runs)
      BY <1>2, <1>9, Known DEF Runs, run
    <2>2. y.pc \in Starting /\ y.pc # "lookup"
      BY <1>8, <1>9 DEF Starting
    <2> QED
      BY <1>2, <1>6, <1>7, <1>8, <1>9, <1>10, <2>1, <2>2, WorksOn
  <1> QED
    BY <1>1, <1>11, Known, RequestSteps

LEMMA ReadAgainKeeps == ASSUME CreationIInv, NEW q \in Requests, ReadAgain(q) PROVE CreationIInv'
  <1> DEFINE x == requests[q]
             n == Version(x.run)
             y == [x EXCEPT !.pc = "start", !.expected = n]
  <1>1. x.pc = "again" /\ Moves(q, y) /\ UNCHANGED <<scenario, runs>>
    BY DEF ReadAgain
  <1>2. /\ x \in Request /\ x.kind = "studio" /\ x.key \in Keys
        /\ MadeFor(scenario, x.version, x.key) /\ x.version <= Len(scenario)
        /\ x.run \in Runs /\ x.run \in Nat
        /\ runs[x.run].key = HeaderOf(x) /\ x.answer.run = 0
    BY <1>1, AtWork DEF Starting
  <1>3. n \in Nat /\ n + 1 <= Len(runs[x.run].log)
    BY <1>2, Known
  <1> HIDE DEF x, n
  <1>4. /\ y \in Request /\ y.pc = "start" /\ y.answer = x.answer /\ y.kind = x.kind
        /\ y.key = x.key /\ y.expected = n /\ y.version = x.version /\ y.run = x.run
    BY <1>2, <1>3 DEF Request
  <1> HIDE DEF y
  <1>5. HeaderOf(y) = HeaderOf(x)
    BY <1>4 DEF HeaderOf
  <1>6. RequestOk(y, scenario, runs)
    <2>1. Len(runs) \in Nat /\ y.run \in 1 .. Len(runs)
      BY <1>2, <1>4, Known DEF Runs
    <2> QED
      BY <1>2, <1>3, <1>4, <1>5, <2>1, WorksOn DEF Starting
  <1> QED
    BY <1>1, <1>6, Known, RequestSteps

LEMMA AnswerActionKeeps == ASSUME CreationIInv, NEW q \in Requests, Answer(q) PROVE CreationIInv'
  <1> DEFINE x == requests[q]
  <1>1. x.pc = "answer" /\ Answers(q, x.run, "ok") /\ UNCHANGED <<scenario, runs>>
    BY DEF Answer
  <1>2. RequestOk(x, scenario, runs) /\ x.run \in Runs /\ runs[x.run].key = KeyOf(q) /\ x.run \in Nat
    BY <1>1, AtWork DEF Starting
  <1>3. Len(runs[x.run].log) >= 2
    BY <1>1, <1>2 DEF RequestOk, StartOk
  <1>4. x.run \in 0 .. Len(runs) /\ x.run # 0
    BY <1>2, Known DEF Runs
  <1> QED
    BY <1>1, <1>2, <1>3, <1>4, AnswersKeep

\* The start commits on the version that was looked at, which had none.
\* The version is still the one that was looked at: the start is the run's first.
LEMMA CommitAppends ==
  ASSUME CreationIInv, NEW q \in Requests, Commit(q), ~ Overtaken(q)
  PROVE  LET r == requests[q].run
             e == Event("started", KeyOf(q))
         IN  /\ runs' = [runs EXCEPT ![r] = Appended(r, e)] /\ r \in Runs
             /\ e \in RunEvent /\ e.kind = "started" /\ ~ StartedBy(runs[r], Len(runs[r].log))
             /\ Len(runs[r].log) = requests[q].expected + 1
  <1> DEFINE x == requests[q]
             run == runs[x.run]
             e == Event("started", KeyOf(q))
  <1>1. x.pc = "commit" /\ runs' = [runs EXCEPT ![x.run] = Appended(x.run, e)]
    BY DEF Commit
  <1>2. /\ x \in Request /\ RequestOk(x, scenario, runs) /\ x.run \in Runs /\ x.expected \in Nat
        /\ KeyOf(q) = HeaderOf(x) /\ Len(run.log) \in Nat \ {0}
    BY <1>1, AtWork DEF Starting
  <1>3. Version(x.run) + 1 = Len(run.log) /\ Version(x.run) = x.expected
    BY <1>2, Known DEF Overtaken
  <1>4. ~ StartedBy(run, x.expected + 1)
    BY <1>1, <1>2 DEF RequestOk, StartOk
  <1>5. e \in RunEvent /\ e.kind = "started"
    BY <1>2, HeaderType DEF Event, RunEvent
  <1> HIDE DEF e, run, x
  <1>6. Len(run.log) = x.expected + 1 /\ ~ StartedBy(run, Len(run.log))
    BY <1>3, <1>4
  <1> QED
    BY <1>1, <1>2, <1>5, <1>6 DEF e, run, x

LEMMA CommitKeeps == ASSUME CreationIInv, NEW q \in Requests, Commit(q) PROVE CreationIInv'
  <1> DEFINE x == requests[q]
             run == runs[x.run]
  <1>1. x.pc = "commit" /\ scenario' = scenario
    BY DEF Commit
  <1>2. /\ x \in Request /\ RequestOk(x, scenario, runs) /\ x.kind = "studio" /\ x.key \in Keys
        /\ MadeFor(scenario, x.version, x.key) /\ x.version <= Len(scenario)
        /\ x.run \in Runs /\ x.run \in Nat /\ x.expected \in Nat
        /\ x.expected + 1 <= Len(run.log)
        /\ run.key = HeaderOf(x) /\ KeyOf(q) = HeaderOf(x) /\ x.answer.run = 0
        /\ Len(run.log) \in Nat \ {0}
    BY <1>1, AtWork DEF Starting
  <1>3. Version(x.run) \in Nat /\ Version(x.run) + 1 = Len(run.log)
    BY <1>2, Known
  <1>4. Len(runs) \in Nat /\ x.run \in 1 .. Len(runs) /\ x.run \in 0 .. Len(runs) /\ x.run # 0
    BY <1>2, Known DEF Runs
  <1>5. CASE Overtaken(q)
    <2>1. Version(x.run) # x.expected
      BY <1>5 DEF Overtaken
    <2>2. Len(run.log) >= 2
      BY <1>2, <1>3, <2>1
    <2>3. runs' = runs
      BY <1>5 DEF Commit
    <2>4. CASE TriesAgain(q)
      <3> DEFINE y == [x EXCEPT !.pc = "again", !.attempt = @ + 1]
      <3>1. Moves(q, y) /\ x.attempt = 0
        BY <1>5, <2>4 DEF Commit, TriesAgain
      <3> DEFINE again == x.attempt + 1
      <3> HIDE DEF x
      <3>2. y = [x EXCEPT !.pc = "again", !.attempt = again]
        BY DEF again
      <3>3. again \in 0 .. 1
        BY <3>1
      <3> HIDE DEF y, again
      <3>4. /\ y \in Request /\ y.pc = "again" /\ y.answer = x.answer /\ y.kind = x.kind
            /\ y.key = x.key /\ y.expected = x.expected /\ y.version = x.version /\ y.run = x.run
        BY <1>2, <3>2, <3>3 DEF Request
      <3>5. HeaderOf(y) = HeaderOf(x)
        BY <3>4 DEF HeaderOf
      <3>6. RequestOk(y, scenario, runs)
        BY <1>2, <1>4, <3>4, <3>5, WorksOn DEF Starting
      <3>7. Moves(q, y)
        BY <3>1 DEF y
      <3> QED
        BY <1>1, <2>3, <3>6, <3>7, Known, RequestSteps
    <2>5. CASE ~ TriesAgain(q)
      <3>1. Answers(q, x.run, "conflict")
        BY <1>5, <2>5 DEF Commit
      <3> QED
        BY <1>1, <1>2, <1>4, <2>2, <2>3, <3>1, AnswersKeep
    <2> QED
      BY <2>4, <2>5
  <1>6. CASE ~ Overtaken(q)
    <2> DEFINE e == Event("started", KeyOf(q))
               next == Appended(x.run, e)
               y == [x EXCEPT !.pc = "answer"]
    <2>1. runs' = [runs EXCEPT ![x.run] = next] /\ Moves(q, y)
      BY <1>6 DEF Commit
    <2>2. /\ e \in RunEvent /\ e.kind # "created" /\ ~ StartedBy(run, Len(run.log))
          /\ Len(run.log) = x.expected + 1
      BY <1>6, CommitAppends
    <2> HIDE DEF e
    <2>3. RunsOk(runs, scenario)
      BY Known
    <2>4. /\ RunOk(x.run, next, scenario) /\ Grown(runs[x.run], next)
          /\ Len(next.log) = Len(runs[x.run].log) + 1
      BY <1>2, <2>2, <2>3, AppendedKeeps
    <2> HIDE DEF next
    <2>5. LET u == [runs EXCEPT ![x.run] = next]
          IN  /\ RunsOk(u, scenario) /\ TableGrows(runs, u) /\ Len(u) = Len(runs)
              /\ u[x.run] = next
      BY <1>4, <2>3, <2>4, ReplaceRun
    <2>6. /\ RunsOk(runs', scenario') /\ TableGrows(runs, runs') /\ Len(runs') = Len(runs)
          /\ runs'[x.run] = next
      BY <1>1, <2>1, <2>5
    <2>7. Len(next.log) >= 2 /\ next.key = HeaderOf(x) /\ x.expected + 1 <= Len(next.log)
      BY <1>2, <2>2, <2>4 DEF Grown
    <2> HIDE DEF x, run
    <2>8. /\ y \in Request /\ y.pc = "answer" /\ y.answer = x.answer /\ y.kind = x.kind
           /\ y.key = x.key /\ y.expected = x.expected /\ y.version = x.version /\ y.run = x.run
      BY <1>2 DEF Request
    <2> HIDE DEF y
    <2>9. HeaderOf(y) = HeaderOf(x)
      BY <2>8 DEF HeaderOf
    <2>10. y.run \in 1 .. Len(runs') /\ Len(runs') \in Nat
      BY <1>4, <2>6, <2>8
    <2>11. RequestOk(y, scenario, runs')
      BY <1>2, <2>6, <2>7, <2>8, <2>9, <2>10, WorksOn DEF Starting
    <2> QED
      BY <1>1, <2>1, <2>6, <2>11, Known, RequestSteps
  <1> QED
    BY <1>5, <1>6

\* The parent keeps the state it is branched at, and the child inherits it: the
\* whole history behind it.
LEMMA BranchAdds ==
  ASSUME CreationIInv, NEW q \in Requests, Branch(q), RunsFor(q) = {},
         Version(requests[q].parent) = requests[q].expected
  PROVE  LET p == requests[q].parent
             from == requests[q].from
         IN  /\ p \in Runs /\ from \in 1 .. Len(runs[p].log) /\ requests[q].kind = "branch"
             /\ KeyOf(q) = <<"header", requests[q].key>> /\ requests[q].key \in Keys
             /\ Answers(q, Len(runs) + 1, "ok")
             /\ \E parent, child :
                  /\ runs' = Append([runs EXCEPT ![p] = parent], child)
                  /\ RunOk(p, parent, scenario) /\ Grown(runs[p], parent)
                  /\ parent.inherited = runs[p].inherited
                  /\ Len(parent.log) = Len(runs[p].log) + 1
                  /\ parent.log[Len(runs[p].log) + 1].kind = "branched"
                  /\ RunOk(Len(runs) + 1, child, scenario) /\ child.key = KeyOf(q)
                  /\ child.version = runs[p].version /\ Len(child.log) = 1
                  /\ child.inherited = runs[p].inherited \o Own(p, from) /\ ~ StartedBy(child, 1)
  <1> DEFINE x == requests[q]
             p == x.parent
             from == x.from
             e == Event("branched", NoKey)
             baseline == Baseline(q)
             facts == baseline.facts
             history == History(p, from)
             child == Created(KeyOf(q), runs[p].version, p, from, facts, history)
             parent == Appended(p, e)
             marked == WithSnapshot(parent, from, baseline)
  <1>1. /\ x \in Request /\ Found(x, scenario, runs) /\ KeyOf(q) = HeaderOf(x) /\ x.pc = "branch"
        /\ Len(runs) \in Nat /\ RunsOk(runs, scenario) /\ Len(scenario) \in Nat
    BY Known DEF RequestOk, Branch
  <1>2. /\ x.kind = "branch" /\ p \in Runs /\ p \in Nat /\ from \in Nat
        /\ from \in 1 .. Len(runs[p].log) /\ p \in 1 .. Len(runs) /\ x.key \in Keys
    <2>1. x.parent \in Nat /\ x.from \in Nat /\ x.kind = "branch"
      BY <1>1 DEF Found, Request
    <2> QED
      BY <1>1, <2>1 DEF Found, Runs, None
  <1>3. /\ runs' = Append([runs EXCEPT ![p] = marked], child)
        /\ Answers(q, Len(runs) + 1, "ok")
    BY Zenon DEF Branch
  <1>4. e \in RunEvent /\ e.kind = "branched"
    BY DEF Event, RunEvent, Header
  <1> HIDE DEF e
  <1>5. /\ RunOk(p, parent, scenario) /\ Grown(runs[p], parent)
        /\ parent.inherited = runs[p].inherited /\ Len(parent.log) = Len(runs[p].log) + 1
        /\ parent.log[Len(runs[p].log) + 1] = e
    BY <1>1, <1>2, <1>4, AppendedKeeps
  <1>6. baseline = StateAt(p, runs[p], from)
    BY <1>1, <1>2, LoadIs DEF Baseline
  <1>7. RunOk(p, runs[p], scenario)
    BY <1>2, Known
  <1>8. /\ Len(runs[p].log) \in Nat /\ runs[p].inherited \in Seq(Fact)
        /\ runs[p].inherited = runs[p].origin /\ runs[p].version \in 1 .. Len(scenario)
    BY <1>7, RunTypes DEF RunOk
  <1>9. facts = history /\ history \in Seq(Fact) /\ history = runs[p].inherited \o Own(p, from)
    <2>1. facts = runs[p].inherited \o Own(p, from)
      <3> HIDE DEF baseline, p, from
      <3> QED
        BY <1>6 DEF StateAt
    <2>2. history = runs[p].origin \o Own(p, from)
      BY Zenon DEF History, Own
    <2>3. runs[p].inherited \o Own(p, from) \in Seq(Fact)
      BY <1>2, <1>8, HistorySeq
    <2> HIDE DEF facts, history
    <2> QED
      BY <1>8, <2>1, <2>2, <2>3
  <1> HIDE DEF parent, baseline
  <1>10. baseline = StateAt(p, parent, from) /\ from \in 1 .. Len(parent.log)
    <2>1. StateAt(p, parent, from) = StateAt(p, runs[p], from)
      BY <1>2, <1>5, <1>8, StateStable
    <2>2. from \in 1 .. Len(parent.log)
      <3>1. Len(parent.log) = Len(runs[p].log) + 1
        BY <1>5
      <3> HIDE DEF from, p
      <3> QED
        BY <1>2, <1>8, <3>1
    <2> QED
      BY <1>6, <2>1, <2>2
  <1>11. /\ RunOk(p, marked, scenario) /\ Grown(parent, marked) /\ marked.log = parent.log
         /\ marked.inherited = parent.inherited
    BY <1>2, <1>5, <1>10, SnapshotKeeps
  <1> HIDE DEF marked
  <1>12. Grown(runs[p], marked)
    BY <1>5, <1>11 DEF Grown
  <1>13. /\ RunOk(Len(runs) + 1, child, scenario) /\ child.key = KeyOf(q)
         /\ child.version = runs[p].version /\ child.inherited = history
         /\ Len(child.log) = 1 /\ ~ StartedBy(child, 1)
    <2> DEFINE key == KeyOf(q)
               version == runs[p].version
    <2>1. /\ key \in Header /\ version \in 1 .. Len(scenario)
          /\ \A k \in Keys : key = <<"studio", k>> => MadeFor(scenario, version, k)
      <3>1. key = <<"header", x.key>>
        BY <1>1, <1>2 DEF HeaderOf
      <3>2. \A k \in Keys : key # <<"studio", k>>
        BY <3>1
      <3>3. key \in Header
        BY <1>1, HeaderType
      <3> QED
        BY <1>8, <3>2, <3>3
    <2>2. p \in 0 .. Len(runs) /\ from \in Nat
      BY <1>1, <1>2
    <2>3. child = Created(key, version, p, from, history, history)
      BY <1>9
    <2> HIDE DEF key, version, history, p, from, child
    <2>4. LET run == Created(key, version, p, from, history, history)
          IN  /\ RunOk(Len(runs) + 1, run, scenario) /\ run.key = key /\ run.version = version
              /\ run.inherited = history /\ Len(run.log) = 1 /\ ~ StartedBy(run, 1)
      BY <1>1, <1>9, <2>1, <2>2, CreatedOk
    <2> QED
      BY <2>3, <2>4 DEF key, version
  <1> HIDE DEF child
  <1>14. KeyOf(q) = <<"header", x.key>>
    BY <1>1, <1>2 DEF HeaderOf
  <1>15. marked.log[Len(runs[p].log) + 1].kind = "branched" /\ Len(marked.log) = Len(runs[p].log) + 1
         /\ marked.inherited = runs[p].inherited
    BY <1>4, <1>5, <1>11
  <1> HIDE DEF history
  <1> QED
    BY <1>2, <1>3, <1>9, <1>11, <1>12, <1>13, <1>14, <1>15

LEMMA BranchKeeps == ASSUME CreationIInv, NEW q \in Requests, Branch(q) PROVE CreationIInv'
  <1> DEFINE x == requests[q]
             p == x.parent
  <1>1. x.pc = "branch" /\ scenario' = scenario
    BY DEF Branch
  <1>2. /\ x \in Request /\ RequestOk(x, scenario, runs) /\ KeyOf(q) = HeaderOf(x)
        /\ Len(runs) \in Nat /\ RunsOk(runs, scenario) /\ VersionsOk(scenario)
        /\ VersionsGrow(scenario, scenario) /\ Len(scenario) \in Nat
    BY Known
  <1>3. /\ x.kind = "branch" /\ p \in Runs /\ p \in Nat /\ x.from \in Nat
        /\ x.from \in 1 .. Len(runs[p].log) /\ p \in 1 .. Len(runs) /\ x.key \in Keys
    <2>1. Found(x, scenario, runs) /\ x.parent \in Nat /\ x.from \in Nat
      BY <1>2 DEF RequestOk, Request
    <2>2. x.kind = "branch"
      BY <1>1, <2>1 DEF Found
    <2> QED
      BY <2>1, <2>2 DEF Found, Runs, None
  <1>4. CASE Version(p) # x.expected
    <2>1. Answers(q, 0, "conflict") /\ runs' = runs
      BY <1>4, Zenon DEF Branch
    <2>2. 0 \in 0 .. Len(runs)
      BY <1>2
    <2> QED
      BY <1>1, <1>3, <2>1, <2>2, AnswersKeep
  <1>5. CASE Version(p) = x.expected /\ RunsFor(q) # {}
    <2>1. (\E r \in RunsFor(q) : Answers(q, r, "ok")) /\ runs' = runs
      BY <1>5, Zenon DEF Branch
    <2>2. PICK r \in RunsFor(q) : Answers(q, r, "ok")
      BY <2>1
    <2>3. r \in 0 .. Len(runs) /\ runs[r].key = KeyOf(q)
      BY <1>2 DEF RunsFor, Runs
    <2> QED
      BY <1>1, <1>3, <2>1, <2>2, <2>3, AnswersKeep
  <1>6. CASE Version(p) = x.expected /\ RunsFor(q) = {}
    <2>1. PICK parent, child :
            /\ runs' = Append([runs EXCEPT ![p] = parent], child)
            /\ RunOk(p, parent, scenario) /\ Grown(runs[p], parent)
            /\ RunOk(Len(runs) + 1, child, scenario) /\ child.key = KeyOf(q)
      <3> HIDE DEF p
      <3>1. \E parent, child :
              /\ runs' = Append([runs EXCEPT ![p] = parent], child)
              /\ RunOk(p, parent, scenario) /\ Grown(runs[p], parent)
              /\ parent.inherited = runs[p].inherited
              /\ Len(parent.log) = Len(runs[p].log) + 1
              /\ parent.log[Len(runs[p].log) + 1].kind = "branched"
              /\ RunOk(Len(runs) + 1, child, scenario) /\ child.key = KeyOf(q)
              /\ child.version = runs[p].version /\ Len(child.log) = 1
              /\ child.inherited = runs[p].inherited \o Own(p, x.from) /\ ~ StartedBy(child, 1)
        BY <1>6, BranchAdds, Zenon DEF p
      <3> QED
        BY <3>1, Zenon
    <2> DEFINE u == [runs EXCEPT ![p] = parent]
    <2>2. Answers(q, Len(runs) + 1, "ok") /\ runs' = Append(u, child)
      BY <1>6, <2>1, BranchAdds, Zenon
    <2>3. /\ RunsOk(u, scenario) /\ TableGrows(runs, u) /\ Len(u) = Len(runs)
      BY <1>2, <1>3, <2>1, ReplaceRun
    <2> HIDE DEF u
    <2>4. \A r \in 1 .. Len(u) : u[r].key # child.key
      <3>1. \A r \in 1 .. Len(runs) : runs[r].key # KeyOf(q)
        BY <1>6 DEF RunsFor, Runs
      <3> QED
        BY <2>1, <2>3, <3>1 DEF TableGrows, Grown
    <2>5. /\ RunsOk(Append(u, child), scenario) /\ TableGrows(u, Append(u, child))
          /\ Len(Append(u, child)) = Len(u) + 1 /\ Append(u, child)[Len(u) + 1] = child
      BY <2>1, <2>3, <2>4, AddRun
    <2>6. TableGrows(runs, runs')
      <3> DEFINE w == runs'
      <3>1. TableGrows(runs, u) /\ TableGrows(u, w)
        BY <2>2, <2>3, <2>5
      <3>2. Len(w) \in Nat
        BY <2>2, <2>5 DEF RunsOk
      <3>3. \A r \in 1 .. Len(runs) : /\ Len(runs[r].log) \in Nat /\ Len(u[r].log) \in Nat
                                      /\ Len(w[r].log) \in Nat
        <4> SUFFICES ASSUME NEW r \in 1 .. Len(runs)
                     PROVE  /\ Len(runs[r].log) \in Nat /\ Len(u[r].log) \in Nat
                            /\ Len(w[r].log) \in Nat
          OBVIOUS
        <4>1. r \in 1 .. Len(u) /\ r \in 1 .. Len(w)
          BY <1>2, <2>2, <2>3, <2>5
        <4>2. RunOk(r, runs[r], scenario) /\ RunOk(r, u[r], scenario) /\ RunOk(r, w[r], scenario)
          BY <1>2, <2>2, <2>3, <2>5, <4>1 DEF RunsOk
        <4> QED
          BY <4>2, RunTypes
      <3> HIDE DEF w
      <3>4. ASSUME NEW r \in 1 .. Len(runs) PROVE Grown(runs[r], w[r])
        <4>1. Grown(runs[r], u[r]) /\ Grown(u[r], w[r])
          BY <2>3, <3>1 DEF TableGrows
        <4> QED
          BY <3>3, <4>1, GrownTrans
      <3>5. Len(runs) <= Len(w)
        BY <1>2, <2>3, <3>1, <3>2 DEF TableGrows
      <3>6. TableGrows(runs, w)
        BY <3>4, <3>5 DEF TableGrows
      <3> QED
        BY <3>6 DEF w
    <2>7. RequestOk(x, scenario, runs')
      BY <1>1, <1>2, <2>2, <2>5, <2>6, RequestStable
    <2> DEFINE n == Len(runs) + 1
    <2>8. Len(runs') = n /\ runs'[n].key = HeaderOf(x)
      BY <1>2, <2>1, <2>2, <2>3, <2>5
    <2>9. Moves(q, Answered(x, n, "ok"))
      BY <2>2 DEF Answers, Answered
    <2>10. n \in 0 .. Len(runs') /\ Len(runs') \in Nat
      BY <1>2, <2>8
    <2>11. RequestOk(Answered(x, n, "ok"), scenario, runs')
      <3> HIDE DEF n, x
      <3> QED
        BY <1>1, <1>3, <2>7, <2>8, <2>10, AnswerKeeps
    <2> QED
      BY <1>1, <1>2, <2>2, <2>5, <2>6, <2>9, <2>11, RequestSteps
  <1> QED
    BY <1>4, <1>5, <1>6

\* A member's command is one more event, and a start only of a run that has none.
LEMMA CommandAppends ==
  ASSUME CreationIInv, Command
  PROVE  \E r \in Runs, e \in RunEvent :
           /\ runs' = [runs EXCEPT ![r] = Appended(r, e)] /\ e.kind # "created"
           /\ e.kind = "started" => ~ StartedBy(runs[r], Len(runs[r].log))
  <1>1. PICK r \in Runs, kind \in {"started", "other"} :
          /\ kind = "started" => Load(r, Len(runs[r].log)).status = "created"
          /\ runs' = [runs EXCEPT ![r] = Appended(r, Event(kind, NoKey))]
    <2>1. PICK r \in Runs :
            LET kinds == IF Load(r, Len(runs[r].log)).status = "created" THEN {"started", "other"}
                         ELSE {"other"}
            IN  \E kind \in kinds : runs' = [runs EXCEPT ![r] = Appended(r, Event(kind, NoKey))]
      BY Zenon DEF Command
    <2>2. CASE Load(r, Len(runs[r].log)).status = "created"
      BY <2>1, <2>2
    <2>3. CASE Load(r, Len(runs[r].log)).status # "created"
      BY <2>1, <2>3
    <2> QED
      BY <2>2, <2>3
  <1> DEFINE e == Event(kind, NoKey)
             n == Len(runs[r].log)
  <1>2. e \in RunEvent /\ e.kind # "created" /\ e.kind = kind
    BY DEF Event, RunEvent, Header
  <1>3. e.kind = "started" => ~ StartedBy(runs[r], n)
    <2>1. n \in 1 .. Len(runs[r].log) /\ RunsOk(runs, scenario)
      BY Known DEF Runs
    <2>2. Load(r, n) = StateAt(r, runs[r], n)
      BY <2>1, LoadIs
    <2>3. Load(r, n).status = IF StartedBy(runs[r], n) THEN "running" ELSE "created"
      BY <2>2 DEF StateAt
    <2> QED
      BY <1>1, <1>2, <2>3
  <1> QED
    BY <1>1, <1>2, <1>3

LEMMA CommandKeeps == ASSUME CreationIInv, Command PROVE CreationIInv'
  <1>1. UNCHANGED <<scenario, requests>>
    BY DEF Command
  <1>2. PICK r \in Runs, e \in RunEvent :
          /\ runs' = [runs EXCEPT ![r] = Appended(r, e)] /\ e.kind # "created"
          /\ e.kind = "started" => ~ StartedBy(runs[r], Len(runs[r].log))
    BY CommandAppends
  <1> DEFINE next == Appended(r, e)
  <1>3. /\ RunsOk(runs, scenario) /\ VersionsOk(scenario) /\ VersionsGrow(scenario, scenario)
        /\ Len(runs[r].log) \in Nat \ {0} /\ r \in 1 .. Len(runs)
    BY Known DEF Runs
  <1>4. RunOk(r, next, scenario) /\ Grown(runs[r], next)
    BY <1>2, <1>3, AppendedKeeps
  <1>5. runs' = [runs EXCEPT ![r] = next]
    BY <1>2
  <1> HIDE DEF next
  <1>6. RunsOk(runs', scenario) /\ TableGrows(runs, runs')
    BY <1>3, <1>4, <1>5, ReplaceRun
  <1>7. \A q \in Requests : RequestOk(requests[q], scenario, runs')
    BY <1>3, <1>6, Known, RequestStable
  <1> QED
    BY <1>1, <1>3, <1>6, <1>7 DEF CreationIInv

\* A request that comes in.
LEMMA EnterKeeps ==
  ASSUME CreationIInv, UNCHANGED <<scenario, runs>>, NEW y, Enter(y), y \in Request,
         y.kind # None, y.key \in Keys, y.run = 0, y.answer.run = 0,
         \/ y.pc = "derive" /\ y.kind = "studio" /\ y.version = 0
         \/ y.pc = "find" /\ y.kind = "plain" /\ y.version = 1
         \/ /\ y.pc = "branch" /\ y.kind = "branch" /\ y.version = 0
            /\ y.parent \in Runs /\ y.from \in 1 .. Len(runs[y.parent].log)
  PROVE  CreationIInv'
  <1>1. PICK q \in Requests : Moves(q, y)
    <2> DEFINE unused == {q \in Requests : requests[q].pc = "unused"}
    <2>1. unused # {} /\ Moves(CHOOSE q \in unused : TRUE, y)
      BY Zenon DEF Enter
    <2>2. (CHOOSE q \in unused : TRUE) \in unused
      BY <2>1
    <2> QED
      BY <2>1, <2>2
  <1>2. Len(scenario) >= 1 /\ Len(scenario) \in Nat /\ Len(runs) \in Nat
    BY Known
  <1>3. Found(y, scenario, runs)
    BY <1>2 DEF Found, Starting, Runs
  <1>4. StartOk(y, runs)
    BY <1>2 DEF StartOk, Starting
  <1>5. AnswerOk(y, runs)
    BY <1>2 DEF AnswerOk
  <1>6. RequestOk(y, scenario, runs)
    BY <1>3, <1>4, <1>5 DEF RequestOk
  <1> QED
    BY <1>1, <1>6, Known, RequestSteps

LEMMA UnusedType == /\ Unused \in Request /\ Unused.run = 0 /\ Unused.answer.run = 0
                    /\ Unused.version = 0 /\ Unused.pc = "unused" /\ Unused.kind = None
  BY DEF Unused, Request, NoAnswer

LEMMA AskKeeps == ASSUME CreationIInv, Ask PROVE CreationIInv'
  <1>1. UNCHANGED <<scenario, runs>>
    BY DEF Ask
  <1>2. PICK kind \in Kinds, key \in Keys :
          LET before == {q \in Requests : requests[q].kind = kind /\ requests[q].key = key}
              request == [Unused EXCEPT !.kind = kind, !.key = key]
          IN  CASE kind = "studio" -> Enter([request EXCEPT !.pc = "derive"])
                [] kind = "plain" -> Enter([request EXCEPT !.pc = "find", !.version = 1])
                [] kind = "branch" /\ before # {} ->
                     LET q == CHOOSE x \in before : TRUE
                     IN  Enter([request EXCEPT !.pc = "branch", !.parent = requests[q].parent,
                                  !.from = requests[q].from, !.expected = requests[q].expected])
                [] OTHER ->
                     \E r \in Runs : \E n \in 1 .. Len(runs[r].log) :
                       Enter([request EXCEPT !.pc = "branch", !.parent = r, !.from = n,
                                             !.expected = Version(r)])
    BY Zenon DEF Ask
  <1> DEFINE before == {q \in Requests : requests[q].kind = kind /\ requests[q].key = key}
             request == [Unused EXCEPT !.kind = kind, !.key = key]
             Branches(p, n, m) ==
               [request EXCEPT !.pc = "branch", !.parent = p, !.from = n, !.expected = m]
  <1>3. kind \in {"studio", "plain", "branch"}
    BY CreationAssumption
  <1>4. /\ request \in Request /\ request.kind = kind /\ request.key = key /\ request.run = 0
        /\ request.answer.run = 0 /\ request.version = 0
    BY <1>3, UnusedType DEF Request
  <1>5. kind # None
    BY <1>3 DEF None
  <1>6. ASSUME NEW p \in Runs, NEW n \in 1 .. Len(runs[p].log), NEW m \in Nat, kind = "branch",
               Enter(Branches(p, n, m))
        PROVE  CreationIInv'
    <2> DEFINE y == Branches(p, n, m)
    <2>1. p \in Nat /\ n \in Nat
      BY Known DEF Runs
    <2> HIDE DEF request
    <2>2. /\ y \in Request /\ y.kind = kind /\ y.key = key /\ y.run = 0 /\ y.answer.run = 0
          /\ y.version = 0 /\ y.pc = "branch" /\ y.parent = p /\ y.from = n
      BY <1>4, <2>1 DEF Request
    <2> HIDE DEF y
    <2>3. Enter(y)
      BY <1>6 DEF y
    <2> QED
      BY <1>1, <1>5, <1>6, <2>2, <2>3, EnterKeeps
  <1>7. CASE kind = "studio"
    <2> DEFINE y == [request EXCEPT !.pc = "derive"]
    <2>1. Enter(y)
      BY <1>2, <1>7
    <2> HIDE DEF request
    <2>2. /\ y \in Request /\ y.kind = kind /\ y.key = key /\ y.run = 0 /\ y.answer.run = 0
          /\ y.version = 0 /\ y.pc = "derive"
      BY <1>4 DEF Request
    <2> HIDE DEF y
    <2> QED
      BY <1>1, <1>5, <1>7, <2>1, <2>2, EnterKeeps
  <1>8. CASE kind = "plain"
    <2> DEFINE y == [request EXCEPT !.pc = "find", !.version = 1]
    <2>1. Enter(y)
      BY <1>2, <1>8
    <2> HIDE DEF request
    <2>2. /\ y \in Request /\ y.kind = kind /\ y.key = key /\ y.run = 0 /\ y.answer.run = 0
          /\ y.version = 1 /\ y.pc = "find"
      BY <1>4 DEF Request
    <2> HIDE DEF y
    <2> QED
      BY <1>1, <1>5, <1>8, <2>1, <2>2, EnterKeeps
  <1>9. CASE kind = "branch" /\ before # {}
    <2> DEFINE q == CHOOSE x \in before : TRUE
               x == requests[q]
    <2>1. Enter(Branches(x.parent, x.from, x.expected))
      BY <1>2, <1>9
    <2>2. q \in Requests /\ x.kind = "branch"
      <3>1. q \in before
        BY <1>9
      <3> HIDE DEF q
      <3> QED
        BY <1>9, <3>1
    <2> HIDE DEF q
    <2>3. Found(x, scenario, runs) /\ x.expected \in Nat
      BY <2>2, Known DEF RequestOk, Request
    <2>4. x.parent \in Runs /\ x.from \in 1 .. Len(runs[x.parent].log)
      BY <2>2, <2>3 DEF Found, Runs
    <2> QED
      BY <1>6, <1>9, <2>1, <2>3, <2>4
  <1>10. CASE kind = "branch" /\ before = {}
    <2>1. PICK r \in Runs : \E n \in 1 .. Len(runs[r].log) : Enter(Branches(r, n, Version(r)))
      BY <1>2, <1>10
    <2>2. PICK n \in 1 .. Len(runs[r].log) : Enter(Branches(r, n, Version(r)))
      BY <2>1
    <2>3. Version(r) \in Nat
      BY Known
    <2> QED
      BY <1>6, <1>10, <2>2, <2>3
  <1> QED
    BY <1>3, <1>7, <1>8, <1>9, <1>10

LEMMA InitKeeps == ASSUME Init PROVE CreationIInv
  <1>1. VersionsOk(scenario)
    <2>1. scenario = <<None>>
      BY DEF Init
    <2>2. <<None>> \in Seq(Keys \cup {None}) /\ Len(<<None>>) = 1
      OBVIOUS
    <2>3. \A v \in 2 .. 1 : FALSE
      OBVIOUS
    <2> QED
      BY <2>1, <2>2, <2>3 DEF VersionsOk
  <1>2. RunsOk(runs, scenario)
    BY DEF Init, RunsOk
  <1>3. RequestOk(Unused, scenario, runs)
    <2>1. Len(scenario) \in Nat /\ Len(runs) = 0
      BY <1>1 DEF VersionsOk, Init
    <2>2. Found(Unused, scenario, runs)
      BY <2>1, UnusedType DEF Found, Starting, None
    <2>3. StartOk(Unused, runs)
      BY <2>1, UnusedType DEF StartOk, Starting
    <2>4. AnswerOk(Unused, runs)
      BY <2>1, UnusedType DEF AnswerOk
    <2> QED
      BY <2>2, <2>3, <2>4, UnusedType DEF RequestOk
  <1> QED
    BY <1>1, <1>2, <1>3, UnusedType DEF Init, CreationIInv

LEMMA NextKeeps == ASSUME CreationIInv, [Next]_vars PROVE CreationIInv'
  <1>1. ASSUME NEW q \in Requests, Step(q) PROVE CreationIInv'
    BY <1>1, DeriveKeeps, FindKeeps, CreateKeeps, ReadRowKeeps, LookupKeeps, CommitKeeps,
       ReadAgainKeeps, AnswerActionKeeps, BranchKeeps DEF Step
  <1>2. CASE UNCHANGED vars
    BY <1>2 DEF vars, CreationIInv
  <1> QED
    BY <1>1, <1>2, AskKeeps, CommandKeeps DEF Next

LEMMA CreationInductive == Spec => []CreationIInv
  <1>1. Init => CreationIInv
    BY InitKeeps
  <1>2. CreationIInv /\ [Next]_vars => CreationIInv'
    BY NextKeeps
  <1> QED
    BY <1>1, <1>2, PTL DEF Spec

-----------------------------------------------------------------------------
(* What follows                                                             *)

\* CreationInv: the types, and that requests with one key are answered with one
\* run, the scenario version in the answer being that of the run.
THEOREM RequestsAgree == Spec => []CreationInv
  <1>1. CreationIInv => TypeOK
    <2> SUFFICES ASSUME CreationIInv PROVE TypeOK
      OBVIOUS
    <2>1. ASSUME NEW r \in Runs
          PROVE  /\ runs[r].version \in 1 .. Len(scenario)
                 /\ runs[r].parent \in 0 .. r - 1 /\ runs[r].from \in Nat
                 /\ Len(runs[r].log) \in Nat \ {0}
                 /\ \A n \in 2 .. Len(runs[r].log) :
                      runs[r].log[n].kind \in {"started", "other", "branched"}
                 /\ \A x \in runs[r].snapshots : x.sequence \in 1 .. Len(runs[r].log)
      <3> DEFINE run == runs[r]
      <3>1. RunOk(r, run, scenario) /\ Len(run.log) \in Nat \ {0}
        BY Known
      <3> HIDE DEF run
      <3>2. /\ run.version \in 1 .. Len(scenario) /\ run.parent \in 0 .. r - 1 /\ run.from \in Nat
            /\ LogOk(run.log) /\ SnapshotsOk(r, run)
        BY <3>1 DEF RunOk, RunRow
      <3>3. \A n \in 1 .. Len(run.log) : run.log[n] \in RunEvent
        BY <3>1, RunTypes
      <3>4. ASSUME NEW n \in 2 .. Len(run.log)
            PROVE  run.log[n].kind \in {"started", "other", "branched"}
        <4>1. n \in 1 .. Len(run.log)
          BY <3>1
        <4> QED
          BY <3>2, <3>3, <4>1 DEF RunEvent, LogOk
      <3> QED
        BY <3>1, <3>2, <3>4 DEF SnapshotsOk, run
    <2>2. ASSUME NEW q \in Requests
          PROVE  /\ requests[q].pc \in {"unused", "derive", "find", "create", "start", "lookup",
                                        "commit", "again", "answer", "branch", "done"}
                 /\ requests[q].version \in 0 .. Len(scenario)
                 /\ requests[q].run \in 0 .. Len(runs)
                 /\ requests[q].attempt \in 0 .. 1
                 /\ requests[q].answer.status \in {None, "ok", "conflict"}
      <3>1. requests[q] \in Request /\ RequestOk(requests[q], scenario, runs)
        BY Known
      <3>2. requests[q].version <= Len(scenario) /\ requests[q].run <= Len(runs)
        BY <3>1 DEF RequestOk, Found, StartOk
      <3>3. Len(runs) \in Nat /\ Len(scenario) \in Nat
        BY Known
      <3> QED
        BY <3>1, <3>2, <3>3 DEF Request
    <2> QED
      BY <2>1, <2>2, Known DEF TypeOK
  <1>2. CreationIInv => AnswersAgree
    <2> SUFFICES ASSUME CreationIInv PROVE AnswersAgree
      OBVIOUS
    <2>1. \A v, w \in 2 .. Len(scenario) : scenario[v] = scenario[w] => v = w
      BY DEF CreationIInv, VersionsOk
    <2>2. ASSUME NEW q \in Requests, NEW p \in Requests, requests[q].answer.run # 0,
                 requests[p].answer.run # 0, KeyOf(q) = KeyOf(p)
          PROVE  /\ requests[q].answer.run = requests[p].answer.run
                 /\ requests[q].kind = "studio" =>
                      requests[q].answer.version = runs[requests[q].answer.run].version
      <3> DEFINE x == requests[q]
                 y == requests[p]
                 r == x.answer.run
                 s == y.answer.run
      <3>1. /\ x \in Request /\ y \in Request /\ KeyOf(q) = HeaderOf(x) /\ KeyOf(p) = HeaderOf(y)
            /\ Found(x, scenario, runs) /\ AnswerOk(x, runs) /\ AnswerOk(y, runs)
            /\ Len(runs) \in Nat
        BY Known DEF RequestOk
      <3>2. r \in 1 .. Len(runs) /\ s \in 1 .. Len(runs)
        <4>1. r \in Nat /\ s \in Nat
          BY <3>1 DEF Request
        <4>2. r <= Len(runs) /\ s <= Len(runs)
          BY <3>1 DEF AnswerOk
        <4> HIDE DEF r, s
        <4> QED
          BY <2>2, <3>1, <4>1, <4>2 DEF r, s
      <3>3. runs[r].key = HeaderOf(x) /\ runs[s].key = HeaderOf(y) /\ x.answer.version = x.version
            /\ x.pc = "done"
        BY <2>2, <3>1 DEF AnswerOk
      <3>4. \A a, b \in 1 .. Len(runs) : runs[a].key = runs[b].key => a = b
        BY DEF CreationIInv, RunsOk
      <3>5. runs[r].key = runs[s].key
        BY <2>2, <3>1, <3>3
      <3>6. r = s
        BY <3>2, <3>4, <3>5
      <3>7. ASSUME x.kind = "studio" PROVE x.answer.version = runs[r].version
        <4>1. MadeFor(scenario, x.version, x.key) /\ x.key \in Keys
          BY <3>1, <3>3, <3>7 DEF Found, None
        <4>2. runs[r].key = <<"studio", x.key>>
          BY <3>3, <3>7 DEF HeaderOf
        <4>3. RunOk(r, runs[r], scenario)
          BY <3>2, Known DEF Runs
        <4>4. MadeFor(scenario, runs[r].version, x.key)
          BY <4>1, <4>2, <4>3 DEF RunOk
        <4> QED
          BY <2>1, <3>3, <4>1, <4>4 DEF MadeFor
      <3> QED
        BY <3>6, <3>7
    <2> QED
      BY <2>1, <2>2 DEF AnswersAgree
  <1>3. CreationIInv => CreationInv
    BY <1>1, <1>2 DEF CreationInv
  <1> QED
    BY <1>3, CreationInductive, PTL

\* LoadsItsHistory: from whichever snapshot, a run is loaded at each of its events
\* as the history it lived through, its ancestors' included.
THEOREM HistoryIsLoaded == Spec => []LoadsItsHistory
  <1>1. CreationIInv => LoadsItsHistory
    <2> SUFFICES ASSUME CreationIInv, NEW r \in Runs, NEW n \in 1 .. Len(runs[r].log)
                 PROVE  /\ Load(r, n).facts = History(r, n)
                        /\ Load(r, n) = Replay(r, [status |-> "created", facts |-> <<>>], 1, n)
      BY DEF LoadsItsHistory
    <2>1. RunsOk(runs, scenario) /\ RunOk(r, runs[r], scenario)
      BY Known
    <2>2. /\ Load(r, n) = StateAt(r, runs[r], n)
          /\ Replay(r, [status |-> "created", facts |-> <<>>], 1, n) = StateAt(r, runs[r], n)
      BY <2>1, LoadIs
    <2>3. runs[r].inherited = runs[r].origin
      BY <2>1 DEF RunOk
    <2>4. StateAt(r, runs[r], n).facts = runs[r].inherited \o Own(r, n)
      BY DEF StateAt
    <2>5. History(r, n) = runs[r].origin \o Own(r, n)
      BY Zenon DEF History, Own
    <2> QED
      BY <2>2, <2>3, <2>4, <2>5
  <1> QED
    BY <1>1, CreationInductive, PTL

\* StartedOnce: whichever of the attempts and members start a run, it has one start.
THEOREM RunsStartOnce == Spec => []StartedOnce
  <1>1. CreationIInv => StartedOnce
    <2> SUFFICES ASSUME CreationIInv, NEW r \in Runs
                 PROVE  Cardinality({n \in 1 .. Len(runs[r].log) : runs[r].log[n].kind = "started"}) <= 1
      BY DEF StartedOnce
    <2> DEFINE S == {n \in 1 .. Len(runs[r].log) : runs[r].log[n].kind = "started"}
    <2>1. RunOk(r, runs[r], scenario)
      BY Known
    <2>2. \A m, n \in S : m = n
      BY <2>1 DEF RunOk, LogOk
    <2> HIDE DEF S
    <2>3. Cardinality(S) <= 1
      <3>1. CASE S = {}
        BY <3>1, FS_EmptySet
      <3>2. CASE S # {}
        <4>1. PICK n \in S : TRUE
          BY <3>2
        <4>2. S = {n}
          BY <2>2, <4>1
        <4>3. Cardinality({n}) = 1
          BY FS_Singleton, Zenon
        <4> QED
          BY <4>2, <4>3
      <3> QED
        BY <3>1, <3>2
    <2> QED
      BY <2>3 DEF S
  <1> QED
    BY <1>1, CreationInductive, PTL

\* StartsUnlessOvertaken: a run the Studio answers with has gone on from its creation.
THEOREM AnsweredRunsGoOn == Spec => []StartsUnlessOvertaken
  <1>1. CreationIInv => StartsUnlessOvertaken
    <2> SUFFICES ASSUME CreationIInv, NEW q \in Requests, requests[q].kind = "studio",
                        requests[q].pc = "done"
                 PROVE  Len(runs[requests[q].answer.run].log) > 1
      BY DEF StartsUnlessOvertaken
    <2> DEFINE r == requests[q].answer.run
    <2>1. requests[q] \in Request /\ AnswerOk(requests[q], runs) /\ Len(runs) \in Nat
      BY Known DEF RequestOk
    <2>2. r \in Runs /\ Len(runs[r].log) >= 2
      BY <2>1 DEF AnswerOk, Request, Runs
    <2>3. Len(runs[r].log) \in Nat
      BY <2>2, Known
    <2> QED
      BY <2>2, <2>3
  <1> QED
    BY <1>1, CreationInductive, PTL
-----------------------------------------------------------------------------
(* What is loaded of the runs is a tree of histories                        *)

\* The last state of a run, and a table as RunTree sees it.
Latest(r, run) == StateAt(r, run, Len(run.log))
Keyring(t) == [r \in 1 .. Len(t) |-> t[r].key]
Pins(t) == [r \in 1 .. Len(t) |-> t[r].version]
States(t) == [r \in 1 .. Len(t) |-> Latest(r, t[r])]
ReadIs == [r \in Runs |-> Load(r, Len(runs[r].log))] = States(runs)

\* The state behind one more fact, and that of a run that begins behind a history.
Older(r, state, status) ==
  [status |-> status, facts |-> Append(state.facts, <<r, state.facts[Len(state.facts)][2] + 1>>)]
NewBorn(r, past) == [status |-> "created", facts |-> Append(past, <<r, 1>>)]

LEMMA TableReads ==
  ASSUME NEW t, NEW v, RunsOk(t, v)
  PROVE  /\ Len(t) \in Nat /\ Keyring(t) \in [1 .. Len(t) -> Header]
         /\ Pins(t) \in [1 .. Len(t) -> Nat] /\ States(t) \in [1 .. Len(t) -> RunState]
  <1>1. Len(t) \in Nat /\ \A r \in 1 .. Len(t) : RunOk(r, t[r], v) /\ r \in Nat
    BY DEF RunsOk
  <1>2. \A r \in 1 .. Len(t) : t[r].key \in Header /\ t[r].version \in Nat
    BY <1>1 DEF RunOk, RunRow
  <1>3. ASSUME NEW r \in 1 .. Len(t) PROVE Latest(r, t[r]) \in RunState
    <2>1. Len(t[r].log) \in Nat /\ t[r].inherited \in Seq(Fact) /\ r \in Nat
      BY <1>1, RunTypes
    <2> QED
      BY <2>1, StateType DEF Latest
  <1> QED
    BY <1>1, <1>2, <1>3 DEF Keyring, Pins, States

LEMMA OneMore ==
  ASSUME NEW S, NEW n \in Nat, NEW f \in [1 .. n + 1 -> S], NEW g \in [1 .. n -> S],
         \A i \in 1 .. n : f[i] = g[i]
  PROVE  f = Append(g, f[n + 1])
  <1>1. f \in Seq(S) /\ Len(f) = n + 1 /\ g \in Seq(S) /\ Len(g) = n /\ f[n + 1] \in S
    OBVIOUS
  <1> DEFINE h == Append(g, f[n + 1])
  <1>2. /\ h \in Seq(S) /\ Len(h) = n + 1 /\ h[n + 1] = f[n + 1]
        /\ \A i \in 1 .. n : h[i] = g[i]
    BY <1>1, AppendProperties
  <1> HIDE DEF h
  <1>3. ASSUME NEW i \in 1 .. n + 1 PROVE f[i] = h[i]
    <2>1. i = n + 1 \/ i \in 1 .. n
      OBVIOUS
    <2> QED
      BY <1>2, <2>1
  <1> QED
    BY <1>1, <1>2, <1>3, SeqEqual DEF h

LEMMA ReplaceReads ==
  ASSUME NEW t, NEW v, RunsOk(t, v), NEW r \in 1 .. Len(t), NEW run, RunOk(r, run, v),
         Grown(t[r], run)
  PROVE  LET u == [t EXCEPT ![r] = run]
         IN  /\ Keyring(u) = Keyring(t) /\ Pins(u) = Pins(t)
             /\ States(u) = [States(t) EXCEPT ![r] = Latest(r, run)]
  <1> DEFINE u == [t EXCEPT ![r] = run]
  <1>1. /\ Len(u) = Len(t) /\ u[r] = run /\ \A s \in 1 .. Len(t) : s # r => u[s] = t[s]
    BY ReplaceRun
  <1> HIDE DEF u
  <1>2. \A s \in 1 .. Len(t) : u[s].key = t[s].key /\ u[s].version = t[s].version
    BY <1>1 DEF Grown
  <1>3. Keyring(u) = Keyring(t) /\ Pins(u) = Pins(t)
    BY <1>1, <1>2 DEF Keyring, Pins
  <1>4. States(u) = [States(t) EXCEPT ![r] = Latest(r, run)]
    BY <1>1 DEF States
  <1> QED
    BY <1>3, <1>4 DEF u

LEMMA AddReads ==
  ASSUME NEW t, NEW v, RunsOk(t, v), NEW run, RunOk(Len(t) + 1, run, v),
         \A r \in 1 .. Len(t) : t[r].key # run.key
  PROVE  LET u == Append(t, run)
         IN  /\ Keyring(u) = Append(Keyring(t), run.key) /\ Pins(u) = Append(Pins(t), run.version)
             /\ States(u) = Append(States(t), Latest(Len(t) + 1, run))
  <1> DEFINE u == Append(t, run)
             n == Len(t)
  <1>1. /\ RunsOk(u, v) /\ Len(u) = n + 1 /\ u[n + 1] = run /\ \A s \in 1 .. n : u[s] = t[s]
    BY AddRun
  <1> HIDE DEF u
  <1>2. /\ n \in Nat /\ Keyring(t) \in [1 .. n -> Header] /\ Pins(t) \in [1 .. n -> Nat]
        /\ States(t) \in [1 .. n -> RunState]
    BY TableReads
  <1>3. /\ Keyring(u) \in [1 .. n + 1 -> Header] /\ Pins(u) \in [1 .. n + 1 -> Nat]
        /\ States(u) \in [1 .. n + 1 -> RunState]
    BY <1>1, TableReads
  <1>4. ASSUME NEW s \in 1 .. n
        PROVE  Keyring(u)[s] = Keyring(t)[s] /\ Pins(u)[s] = Pins(t)[s] /\ States(u)[s] = States(t)[s]
    <2>1. s \in 1 .. Len(u) /\ s \in 1 .. Len(t)
      BY <1>1, <1>2
    <2> QED
      BY <1>1, <2>1 DEF Keyring, Pins, States
  <1>5. /\ Keyring(u)[n + 1] = run.key /\ Pins(u)[n + 1] = run.version
        /\ States(u)[n + 1] = Latest(n + 1, run)
    <2>1. n + 1 \in 1 .. Len(u)
      BY <1>1, <1>2
    <2> QED
      BY <1>1, <2>1 DEF Keyring, Pins, States
  <1> HIDE DEF n
  <1>6. Keyring(u) = Append(Keyring(t), Keyring(u)[n + 1])
    BY <1>2, <1>3, <1>4, OneMore
  <1>7. Pins(u) = Append(Pins(t), Pins(u)[n + 1])
    BY <1>2, <1>3, <1>4, OneMore
  <1>8. States(u) = Append(States(t), States(u)[n + 1])
    BY <1>2, <1>3, <1>4, OneMore
  <1> QED
    BY <1>5, <1>6, <1>7, <1>8 DEF u, n

\* One more event of the run is one more fact, which is its start if it is one.
LEMMA OneEventMore ==
  ASSUME NEW r \in Nat, NEW run, NEW next, NEW n \in Nat \ {0}, Len(run.log) = n,
         run.inherited \in Seq(Fact), Grown(run, next), next.inherited = run.inherited,
         Len(next.log) = n + 1
  PROVE  Latest(r, next) =
           Older(r, Latest(r, run),
                 IF next.log[n + 1].kind = "started" THEN "running" ELSE Latest(r, run).status)
  <1> DEFINE s == run.inherited
             past == s \o Own(r, n)
             started == next.log[n + 1].kind = "started"
  <1>1. /\ past \in Seq(Fact) /\ Len(past) = Len(s) + n /\ Len(s) \in Nat
        /\ \A i \in 1 .. Len(s) + n : past[i] = IF i <= Len(s) THEN s[i] ELSE <<r, i - Len(s)>>
    BY HistorySeq
  <1>2. (s \o Own(r, n)) \o << <<r, n + 1>> >> = s \o Own(r, n + 1)
    BY OwnNext
  <1>3. /\ Latest(r, run) = StateAt(r, run, n) /\ Latest(r, next) = StateAt(r, next, n + 1)
    BY DEF Latest
  <1>4. StateAt(r, next, n) = StateAt(r, run, n)
    BY StateStable
  <1>5. StartedBy(next, n + 1) <=> (StartedBy(next, n) \/ started)
    BY StartedNext
  <1>6. /\ Latest(r, run).status = IF StartedBy(next, n) THEN "running" ELSE "created"
        /\ Latest(r, run).facts = past
    BY <1>3, <1>4 DEF StateAt
  <1> HIDE DEF started
  <1>7. /\ Latest(r, next) = [status |-> IF StartedBy(next, n + 1) THEN "running" ELSE "created",
                              facts |-> s \o Own(r, n + 1)]
    BY <1>3 DEF StateAt
  <1>8. (IF StartedBy(next, n + 1) THEN "running" ELSE "created")
          = IF started THEN "running" ELSE Latest(r, run).status
    BY <1>5, <1>6
  <1>9. past[Len(past)][2] = n
    <2> HIDE DEF past, s
    <2>1. /\ Len(past) \in 1 .. Len(s) + n /\ ~ (Len(past) <= Len(s)) /\ Len(past) - Len(s) = n
      BY <1>1
    <2>2. past[Len(past)] = <<r, Len(past) - Len(s)>>
      BY <1>1, <2>1
    <2> QED
      BY <2>1, <2>2
  <1>10. Append(past, <<r, n + 1>>) = s \o Own(r, n + 1)
    <2>1. <<r, n + 1>> \in Fact
      BY DEF Fact
    <2>2. Append(past, <<r, n + 1>>) = past \o << <<r, n + 1>> >>
      <3> HIDE DEF past
      <3> QED
        BY <1>1, <2>1, AppendIsConcat
    <2> QED
      BY <1>2, <2>2
  <1> HIDE DEF past, s
  <1> QED
    BY <1>6, <1>7, <1>8, <1>9, <1>10 DEF Older, started

LEMMA FirstState ==
  ASSUME NEW r \in Nat, NEW run, run.inherited \in Seq(Fact), Len(run.log) = 1, ~ StartedBy(run, 1)
  PROVE  Latest(r, run) = NewBorn(r, run.inherited)
  <1> DEFINE s == run.inherited
  <1>1. Latest(r, run) = [status |-> "created", facts |-> s \o Own(r, 1)]
    BY DEF Latest, StateAt
  <1>2. s \o << <<r, 1>> >> = s \o Own(r, 1)
    <2>1. 0 \in Nat
      OBVIOUS
    <2> QED
      BY <2>1, OwnNext
  <1>3. Append(s, <<r, 1>>) = s \o << <<r, 1>> >>
    <2>1. <<r, 1>> \in Fact
      BY DEF Fact
    <2> HIDE DEF s
    <2> QED
      BY <2>1, AppendIsConcat DEF s
  <1> QED
    BY <1>1, <1>2, <1>3 DEF NewBorn

\* The history up to a number is the part of it up to that fact, which is the run's.
LEMMA PastIs ==
  ASSUME NEW r \in Nat, NEW s \in Seq(Fact), NEW m \in Nat, NEW from \in 1 .. m
  PROVE  LET facts == s \o Own(r, m)
             n == Len(s) + from
         IN  n \in 1 .. Len(facts) /\ facts[n][1] = r /\ SubSeq(facts, 1, n) = s \o Own(r, from)
  <1> DEFINE facts == s \o Own(r, m)
             n == Len(s) + from
             part == s \o Own(r, from)
             sub == SubSeq(facts, 1, n)
  <1>1. /\ facts \in Seq(Fact) /\ Len(facts) = Len(s) + m /\ Len(s) \in Nat
        /\ \A i \in 1 .. Len(s) + m : facts[i] = IF i <= Len(s) THEN s[i] ELSE <<r, i - Len(s)>>
    BY HistorySeq
  <1>2. /\ part \in Seq(Fact) /\ Len(part) = Len(s) + from
        /\ \A i \in 1 .. Len(s) + from : part[i] = IF i <= Len(s) THEN s[i] ELSE <<r, i - Len(s)>>
    <2>1. from \in Nat
      OBVIOUS
    <2> QED
      BY <2>1, HistorySeq
  <1> HIDE DEF facts, part
  <1>3. /\ n \in 1 .. Len(facts) /\ n \in Nat /\ n <= Len(s) + m /\ n = Len(s) + from
        /\ ~ (n <= Len(s)) /\ n - Len(s) = from
    BY <1>1
  <1> HIDE DEF n
  <1>4. facts[n][1] = r
    <2>1. facts[n] = <<r, n - Len(s)>>
      BY <1>1, <1>3
    <2> QED
      BY <2>1
  <1>5. sub \in Seq(Fact) /\ Len(sub) = n /\ \A i \in 1 .. n : sub[i] = facts[i]
    BY <1>1, <1>3
  <1> HIDE DEF sub
  <1>6. ASSUME NEW i \in 1 .. n PROVE sub[i] = part[i]
    <2>1. i \in 1 .. Len(s) + m /\ i \in 1 .. Len(s) + from
      BY <1>1, <1>3
    <2>2. part[i] = IF i <= Len(s) THEN s[i] ELSE <<r, i - Len(s)>>
      BY <1>2, <2>1
    <2>3. facts[i] = IF i <= Len(s) THEN s[i] ELSE <<r, i - Len(s)>>
      BY <1>1, <2>1
    <2>4. sub[i] = facts[i]
      BY <1>5
    <2> QED
      BY <2>2, <2>3, <2>4
  <1>7. sub = part
    BY <1>2, <1>3, <1>5, <1>6, SeqEqual
  <1> QED
    BY <1>3, <1>4, <1>7 DEF facts, part, sub, n
\* The words of RunTree, said of the runs.
LEMMA ReaderIs ==
  ASSUME ReadIs, Len(runs) \in Nat
  PROVE  /\ Reader!Nodes = Runs
         /\ \A r, status : Reader!Grown(r, status) = Older(r, States(runs)[r], status)
         /\ \A past : Reader!Born(past) = NewBorn(Len(runs) + 1, past)
         /\ [r \in Runs |-> runs[r].key] = Keyring(runs)
         /\ [r \in Runs |-> runs[r].version] = Pins(runs)
  <1>1. Len([r \in Runs |-> runs[r].key]) = Len(runs)
    BY DEF Runs
  <1>2. /\ [r \in Runs |-> runs[r].key] = Keyring(runs)
        /\ [r \in Runs |-> runs[r].version] = Pins(runs)
    BY DEF Runs, Keyring, Pins
  <1>3. Reader!Nodes = Runs
    BY <1>1 DEF Reader!Nodes, Runs
  <1>4. \A r, status : Reader!Grown(r, status) = Older(r, States(runs)[r], status)
    BY Zenon DEF ReadIs, Reader!Grown, Older
  <1>5. \A past : Reader!Born(past) = NewBorn(Len(runs) + 1, past)
    BY <1>1, Zenon DEF Reader!Born, NewBorn
  <1> QED
    BY <1>2, <1>3, <1>4, <1>5

LEMMA UnchangedReads ==
  ASSUME ReadIs, ReadIs', UNCHANGED runs, Len(scenario') = Len(scenario)
  PROVE  UNCHANGED Reader!treeVars
  <1>1. States(runs') = States(runs) /\ Runs' = Runs
    BY DEF Runs
  <1> QED
    BY <1>1 DEF ReadIs, Reader!treeVars

\* A run has one more event.
LEMMA ActReads ==
  ASSUME ReadIs, ReadIs', RunsOk(runs, scenario), UNCHANGED scenario, NEW r \in Runs,
         NEW e \in RunEvent, e.kind # "created",
         e.kind = "started" => ~ StartedBy(runs[r], Len(runs[r].log)),
         runs' = [runs EXCEPT ![r] = Appended(r, e)]
  PROVE  Reader!Act(r)
  <1> DEFINE next == Appended(r, e)
             n == Len(runs[r].log)
             status == IF e.kind = "started" THEN "running" ELSE Latest(r, runs[r]).status
  <1>1. /\ RunOk(r, next, scenario) /\ Grown(runs[r], next) /\ Len(next.log) = n + 1
        /\ next.inherited = runs[r].inherited /\ next.log[n + 1] = e
    BY AppendedKeeps
  <1>2. /\ r \in Nat /\ r \in 1 .. Len(runs) /\ RunOk(r, runs[r], scenario) /\ Len(runs) \in Nat
    BY DEF RunsOk, Runs
  <1>3. n \in Nat \ {0} /\ runs[r].inherited \in Seq(Fact)
    BY <1>2, RunTypes
  <1> HIDE DEF next
  <1>4. Latest(r, next) = Older(r, Latest(r, runs[r]), status)
    <2>1. Latest(r, next) =
            Older(r, Latest(r, runs[r]),
                  IF next.log[n + 1].kind = "started" THEN "running" ELSE Latest(r, runs[r]).status)
      BY <1>1, <1>2, <1>3, OneEventMore
    <2> QED
      BY <1>1, <2>1
  <1>5. runs' = [runs EXCEPT ![r] = next]
    BY DEF next
  <1>6. /\ Keyring(runs') = Keyring(runs) /\ Pins(runs') = Pins(runs)
        /\ States(runs') = [States(runs) EXCEPT ![r] = Latest(r, next)]
    <2>1. LET u == [runs EXCEPT ![r] = next]
          IN  /\ Keyring(u) = Keyring(runs) /\ Pins(u) = Pins(runs)
              /\ States(u) = [States(runs) EXCEPT ![r] = Latest(r, next)]
      <3>1. RunsOk(runs, scenario) /\ r \in 1 .. Len(runs) /\ RunOk(r, next, scenario)
            /\ Grown(runs[r], next)
        BY <1>1, <1>2
      <3> QED
        BY ONLY <3>1, ReplaceReads
    <2> QED
      BY <1>5, <2>1
  <1>7. States(runs)[r] = Latest(r, runs[r])
    BY <1>2 DEF States
  <1>8. status \in {States(runs)[r].status, "running"}
    BY <1>7
  <1> HIDE DEF status
  <1>9. States(runs') \in {[States(runs) EXCEPT ![r] = Reader!Grown(r, s)] :
                             s \in {States(runs)[r].status, "running"}}
    <2>1. Reader!Grown(r, status) = Latest(r, next)
      BY <1>2, <1>4, <1>7, ReaderIs
    <2>2. States(runs') = [States(runs) EXCEPT ![r] = Reader!Grown(r, status)]
      BY <1>6, <2>1
    <2> QED
      BY <1>8, <2>2
  <1> DEFINE state == [s \in Runs |-> Load(s, Len(runs[s].log))]
             keys == [s \in Runs |-> runs[s].key]
             versions == [s \in Runs |-> runs[s].version]
  <1>10. keys' = keys /\ versions' = versions
    BY <1>6 DEF Keyring, Pins, Runs
  <1>11. Len(scenario)' = Len(scenario)
    OBVIOUS
  <1>12. state = States(runs) /\ state' = States(runs')
    BY DEF ReadIs
  <1> HIDE DEF state, keys, versions
  <1>13. /\ state' \in {[state EXCEPT ![r] = Reader!Grown(r, s)] : s \in {state[r].status, "running"}}
    BY <1>9, <1>12
  <1> QED
    BY <1>10, <1>11, <1>13, Zenon DEF Reader!Act, state, keys, versions
\* A run has the key, which no other has.
LEMMA MadeReads ==
  ASSUME ReadIs, Len(runs) \in Nat, UNCHANGED scenario, NEW key, NEW v,
         \A r \in 1 .. Len(runs) : runs[r].key # key,
         Keyring(runs') = Append(Keyring(runs), key), Pins(runs') = Append(Pins(runs), v)
  PROVE  Reader!Made(key, v)
  <1> DEFINE keys == [r \in Runs |-> runs[r].key]
             version == [r \in Runs |-> runs[r].version]
  <1>1. keys = Keyring(runs) /\ version = Pins(runs)
    BY DEF Keyring, Pins, Runs
  <1>2. keys' = Keyring(runs') /\ version' = Pins(runs')
    BY DEF Keyring, Pins, Runs
  <1>3. \A r \in Reader!Nodes : keys[r] # key
    BY ReaderIs DEF Runs
  <1>4. Len(scenario)' = Len(scenario)
    OBVIOUS
  <1> HIDE DEF keys, version
  <1>5. keys' = Append(keys, key) /\ version' = Append(version, v)
    BY <1>1, <1>2
  <1> QED
    BY <1>3, <1>4, <1>5, Zenon DEF Reader!Made, keys, version

LEMMA CreateReads ==
  ASSUME CreationIInv, ReadIs, ReadIs', NEW q \in Requests, Create(q), RunsFor(q) = {}
  PROVE  Reader!Next
  <1> DEFINE x == requests[q]
             run == Created(KeyOf(q), x.version, 0, 0, <<>>, <<>>)
  <1>0. PICK key, v : key = KeyOf(q) /\ v = x.version
    OBVIOUS
  <1>1. /\ Found(x, scenario, runs) /\ x.pc = "create" /\ KeyOf(q) = HeaderOf(x)
        /\ RunsOk(runs, scenario) /\ Len(runs) \in Nat /\ UNCHANGED scenario
    BY Known DEF RequestOk, Create
  <1>2. key \in {"studio", "header"} \X Keys
    BY <1>0, <1>1 DEF Found, HeaderOf
  <1>3. /\ runs' = Append(runs, run) /\ RunOk(Len(runs) + 1, run, scenario) /\ run.key = key
        /\ run.version = v /\ run.inherited = <<>> /\ Len(run.log) = 1
        /\ ~ StartedBy(run, 1) /\ \A r \in 1 .. Len(runs) : runs[r].key # run.key
        /\ v \in 1 .. Len(scenario)
    BY <1>0, CreateAdds
  <1> HIDE DEF run
  <1>4. LET u == Append(runs, run)
        IN  /\ Keyring(u) = Append(Keyring(runs), run.key) /\ Pins(u) = Append(Pins(runs), run.version)
            /\ States(u) = Append(States(runs), Latest(Len(runs) + 1, run))
    BY <1>1, <1>3, AddReads
  <1>5. Latest(Len(runs) + 1, run) = NewBorn(Len(runs) + 1, <<>>)
    <2> DEFINE n == Len(runs) + 1
    <2>1. n \in Nat /\ run.inherited \in Seq(Fact)
      BY <1>1, <1>3
    <2> HIDE DEF n
    <2> QED
      BY <1>3, <2>1, FirstState DEF n
  <1>6. Reader!Made(key, v)
    <2>1. /\ Keyring(runs') = Append(Keyring(runs), key) /\ Pins(runs') = Append(Pins(runs), v)
      BY <1>3, <1>4
    <2>2. \A r \in 1 .. Len(runs) : runs[r].key # key
      BY <1>3
    <2> QED
      BY <1>1, <2>1, <2>2, MadeReads
  <1> DEFINE state == [s \in Runs |-> Load(s, Len(runs[s].log))]
  <1>7. state = States(runs) /\ state' = States(runs')
    BY DEF ReadIs
  <1> HIDE DEF state
  <1>8. state' = Append(state, Reader!Born(<<>>))
    <2>1. Reader!Born(<<>>) = NewBorn(Len(runs) + 1, <<>>)
      BY <1>1, ReaderIs
    <2>2. States(runs') = Append(States(runs), Latest(Len(runs) + 1, run))
      BY <1>3, <1>4
    <2> QED
      BY <1>5, <1>7, <2>1, <2>2
  <1>9. \E w \in 1 .. Len(scenario) : Reader!Made(key, w)
    BY <1>3, <1>6, Zenon
  <1>10. Reader!Create(key)
    BY <1>8, <1>9, Zenon DEF Reader!Create, state
  <1> QED
    BY <1>2, <1>10, Zenon DEF Reader!Next

LEMMA BranchReads ==
  ASSUME CreationIInv, ReadIs, ReadIs', NEW q \in Requests, Branch(q), RunsFor(q) = {},
         Version(requests[q].parent) = requests[q].expected
  PROVE  Reader!Next
  <1>1. RunsOk(runs, scenario) /\ Len(runs) \in Nat /\ UNCHANGED scenario
    BY Known DEF Branch
  <1>2. PICK p, from, key :
          p = requests[q].parent /\ from = requests[q].from /\ key = KeyOf(q)
    OBVIOUS
  <1>3. p \in Runs /\ from \in 1 .. Len(runs[p].log) /\ key \in {"studio", "header"} \X Keys
    <2>1. /\ requests[q].parent \in Runs
          /\ requests[q].from \in 1 .. Len(runs[requests[q].parent].log)
          /\ KeyOf(q) = <<"header", requests[q].key>> /\ requests[q].key \in Keys
      BY BranchAdds, Zenon
    <2> QED
      BY <1>2, <2>1
  <1>4. PICK parent, child :
          /\ runs' = Append([runs EXCEPT ![p] = parent], child)
          /\ RunOk(p, parent, scenario) /\ Grown(runs[p], parent)
          /\ parent.inherited = runs[p].inherited
          /\ Len(parent.log) = Len(runs[p].log) + 1
          /\ parent.log[Len(runs[p].log) + 1].kind = "branched"
          /\ RunOk(Len(runs) + 1, child, scenario) /\ child.key = key
          /\ child.version = runs[p].version /\ Len(child.log) = 1
          /\ child.inherited = runs[p].inherited \o Own(p, from) /\ ~ StartedBy(child, 1)
    BY <1>2, BranchAdds, Zenon
  <1>5. PICK version : version = runs[p].version
    OBVIOUS
  <1> DEFINE s == runs[p].inherited
             m == Len(runs[p].log)
             u == [runs EXCEPT ![p] = parent]
             n == Len(s) + from
             state == States(runs)
             past == s \o Own(p, from)
  <1>6. /\ p \in 1 .. Len(runs) /\ p \in Nat /\ RunOk(p, runs[p], scenario)
    BY <1>1, <1>3 DEF RunsOk, Runs
  <1>7. m \in Nat \ {0} /\ s \in Seq(Fact)
    BY <1>6, RunTypes
  <1>8. state[p] = Latest(p, runs[p]) /\ Pins(runs)[p] = version
    BY <1>5, <1>6 DEF States, Pins
  <1>9. state[p].facts = s \o Own(p, m)
    <2>1. Latest(p, runs[p]).facts = s \o Own(p, m)
      BY DEF Latest, StateAt
    <2> HIDE DEF state, s, m
    <2> QED
      BY <1>8, <2>1
  <1>10. Latest(p, parent) = Older(p, state[p], state[p].status)
    <2>1. Latest(p, parent) =
            Older(p, Latest(p, runs[p]),
                  IF parent.log[m + 1].kind = "started" THEN "running" ELSE Latest(p, runs[p]).status)
      BY <1>4, <1>6, <1>7, OneEventMore
    <2> QED
      BY <1>4, <1>8, <2>1
  <1>11. /\ Keyring(u) = Keyring(runs) /\ Pins(u) = Pins(runs)
        /\ States(u) = [state EXCEPT ![p] = Latest(p, parent)]
    <2>1. /\ RunsOk(runs, scenario) /\ p \in 1 .. Len(runs) /\ RunOk(p, parent, scenario)
          /\ Grown(runs[p], parent)
      BY <1>1, <1>4, <1>6
    <2> QED
      BY ONLY <2>1, ReplaceReads
  <1>12. RunsOk(u, scenario) /\ Len(u) = Len(runs) /\ TableGrows(runs, u)
    <2>1. /\ RunsOk(runs, scenario) /\ p \in 1 .. Len(runs) /\ RunOk(p, parent, scenario)
          /\ Grown(runs[p], parent)
      BY <1>1, <1>4, <1>6
    <2> QED
      BY ONLY <2>1, ReplaceRun
  <1> HIDE DEF u
  <1>13. \A r \in 1 .. Len(u) : u[r].key # child.key /\ runs[r].key # child.key
    <2>1. \A r \in 1 .. Len(runs) : runs[r].key # KeyOf(q)
      BY DEF RunsFor, Runs
    <2> QED
      BY <1>2, <1>4, <1>12, <2>1 DEF TableGrows, Grown
  <1>14. RunOk(Len(u) + 1, child, scenario)
    BY <1>4, <1>12
  <1>15. LET w == Append(u, child)
         IN  /\ Keyring(w) = Append(Keyring(u), child.key) /\ Pins(w) = Append(Pins(u), child.version)
             /\ States(w) = Append(States(u), Latest(Len(u) + 1, child))
    BY ONLY <1>12, <1>13, <1>14, AddReads
  <1>16. runs' = Append(u, child)
    BY <1>4 DEF u
  <1>17. Latest(Len(runs) + 1, child) = NewBorn(Len(runs) + 1, past)
    <2> DEFINE k == Len(runs) + 1
    <2>1. k \in Nat /\ RunOk(k, child, scenario)
      BY <1>1, <1>4
    <2> HIDE DEF k
    <2>2. child.inherited \in Seq(Fact)
      BY <2>1, RunTypes
    <2> QED
      BY <1>4, <2>1, <2>2, FirstState DEF k
  <1>18. n \in 1 .. Len(state[p].facts) /\ state[p].facts[n][1] = p /\ SubSeq(state[p].facts, 1, n) = past
    <2>1. LET facts == s \o Own(p, m)
          IN  n \in 1 .. Len(facts) /\ facts[n][1] = p /\ SubSeq(facts, 1, n) = past
      <3>1. p \in Nat /\ s \in Seq(Fact) /\ m \in Nat /\ from \in 1 .. m
        BY <1>3, <1>6, <1>7
      <3> HIDE DEF s, m
      <3> QED
        BY ONLY <3>1, PastIs
    <2> HIDE DEF n, past
    <2> QED
      BY <1>9, <2>1
  <1>19. States(runs') = Append([state EXCEPT ![p] = Reader!Grown(p, state[p].status)],
                                Reader!Born(SubSeq(state[p].facts, 1, n)))
    <2>1. Reader!Grown(p, state[p].status) = Latest(p, parent)
      BY <1>1, <1>10, ReaderIs
    <2>2. Reader!Born(SubSeq(state[p].facts, 1, n)) = Latest(Len(runs) + 1, child)
      BY <1>1, <1>17, <1>18, ReaderIs
    <2> HIDE DEF state, n
    <2> QED
      BY <1>11, <1>12, <1>15, <1>16, <2>1, <2>2
  <1>20. Reader!Made(key, version)
    <2>1. /\ Keyring(runs') = Append(Keyring(runs), key)
          /\ Pins(runs') = Append(Pins(runs), version)
      BY <1>4, <1>5, <1>11, <1>15, <1>16
    <2>2. \A r \in 1 .. Len(runs) : runs[r].key # key
      BY <1>4, <1>12, <1>13
    <2> QED
      BY <1>1, <2>1, <2>2, MadeReads
  <1> DEFINE now == [r \in Runs |-> Load(r, Len(runs[r].log))]
  <1>21. now = state /\ now' = States(runs')
    BY DEF ReadIs
  <1> HIDE DEF now, state, n
  <1>22. [r \in Runs |-> runs[r].version][p] = version
    BY <1>3, <1>5
  <1>23. \E k \in 1 .. Len(now[p].facts) :
           /\ now[p].facts[k][1] = p
           /\ now' = Append([now EXCEPT ![p] = Reader!Grown(p, now[p].status)],
                            Reader!Born(SubSeq(now[p].facts, 1, k)))
    BY <1>18, <1>19, <1>21
  <1>24. Reader!Branch(p, key)
    BY <1>20, <1>22, <1>23, Zenon DEF Reader!Branch, Reader!Made, now
  <1>25. p \in Reader!Nodes
    BY <1>1, <1>3, ReaderIs
  <1> QED
    BY <1>3, <1>24, <1>25, Zenon DEF Reader!Next

LEMMA DeriveReads ==
  ASSUME CreationIInv, ReadIs, ReadIs', NEW q \in Requests, Derive(q)
  PROVE  [Reader!Next]_(Reader!treeVars)
  <1>1. UNCHANGED runs /\ (UNCHANGED scenario \/ scenario' = Append(scenario, requests[q].key))
    BY Zenon DEF Derive
  <1>2. CASE UNCHANGED scenario
    <2>1. Len(scenario') = Len(scenario)
      BY <1>2
    <2> QED
      BY <1>1, <2>1, UnchangedReads, Zenon
  <1>3. CASE scenario' = Append(scenario, requests[q].key)
    <2> DEFINE keys == [r \in Runs |-> runs[r].key]
               version == [r \in Runs |-> runs[r].version]
               state == [r \in Runs |-> Load(r, Len(runs[r].log))]
    <2>1. Len(scenario)' = Len(scenario) + 1
      BY <1>3, Known DEF VersionsOk
    <2>2. keys' = keys /\ version' = version
      BY <1>1 DEF Runs
    <2>3. state' = state
      BY <1>1 DEF ReadIs
    <2> HIDE DEF keys, version, state
    <2>4. Reader!Derive
      BY <2>1, <2>2, <2>3, Zenon DEF Reader!Derive, keys, version, state
    <2> QED
      BY <2>4, Zenon DEF Reader!Next
  <1> QED
    BY <1>1, <1>2, <1>3

LEMMA StepReads ==
  ASSUME CreationIInv, ReadIs, ReadIs', [Next]_vars
  PROVE  [Reader!Next]_(Reader!treeVars)
  <1>1. CASE UNCHANGED <<scenario, runs>>
    <2>1. Len(scenario') = Len(scenario)
      BY <1>1
    <2> QED
      BY <1>1, <2>1, UnchangedReads, Zenon
  <1>2. RunsOk(runs, scenario) /\ Len(runs) \in Nat
    BY Known
  <1>3. ASSUME NEW r \in Runs, Reader!Act(r) PROVE Reader!Next
    <2>1. r \in Reader!Nodes
      BY <1>2, ReaderIs
    <2> QED
      BY <1>3, <2>1, Zenon DEF Reader!Next
  <1>4. CASE Command
    <2>1. PICK r \in Runs, e \in RunEvent :
            /\ runs' = [runs EXCEPT ![r] = Appended(r, e)] /\ e.kind # "created"
            /\ e.kind = "started" => ~ StartedBy(runs[r], Len(runs[r].log))
      BY <1>4, CommandAppends
    <2>2. Reader!Act(r)
      BY <1>2, <1>4, <2>1, ActReads DEF Command
    <2> QED
      BY <1>3, <2>2
  <1>5. ASSUME NEW q \in Requests, Commit(q), ~ Overtaken(q) PROVE Reader!Next
    <2> DEFINE r == requests[q].run
               e == Event("started", KeyOf(q))
    <2>1. /\ runs' = [runs EXCEPT ![r] = Appended(r, e)] /\ r \in Runs
          /\ e \in RunEvent /\ e.kind = "started" /\ ~ StartedBy(runs[r], Len(runs[r].log))
      BY <1>5, CommitAppends
    <2> HIDE DEF r, e
    <2>2. Reader!Act(r)
      BY <1>2, <1>5, <2>1, ActReads DEF Commit
    <2> QED
      BY <1>3, <2>1, <2>2
  <1>6. ASSUME NEW q \in Requests, Step(q)
        PROVE  \/ Derive(q) \/ (Create(q) /\ RunsFor(q) = {}) \/ (Commit(q) /\ ~ Overtaken(q))
               \/ /\ Branch(q) /\ RunsFor(q) = {}
                  /\ Version(requests[q].parent) = requests[q].expected
               \/ UNCHANGED <<scenario, runs>>
    <2>1. CASE Find(q) \/ ReadRow(q) \/ Lookup(q) \/ ReadAgain(q) \/ Answer(q)
      BY <2>1 DEF Find, ReadRow, Lookup, ReadAgain, Answer
    <2>2. CASE Create(q) /\ RunsFor(q) # {}
      BY <2>2 DEF Create
    <2>3. CASE Commit(q) /\ Overtaken(q)
      BY <2>3 DEF Commit
    <2>4. CASE Branch(q) /\ Version(requests[q].parent) # requests[q].expected
      BY <2>4, Zenon DEF Branch
    <2>5. CASE /\ Branch(q) /\ RunsFor(q) # {}
               /\ Version(requests[q].parent) = requests[q].expected
      BY <2>5, Zenon DEF Branch
    <2> QED
      BY <1>6, <2>1, <2>2, <2>3, <2>4, <2>5, Zenon DEF Step
  <1>7. CASE Ask \/ UNCHANGED vars
    <2>1. UNCHANGED <<scenario, runs>>
      BY <1>7 DEF Ask, vars
    <2> QED
      BY <1>1, <2>1
  <1>8. ASSUME NEW q \in Requests, Step(q) PROVE [Reader!Next]_(Reader!treeVars)
    BY <1>1, <1>5, <1>6, <1>8, DeriveReads, CreateReads, BranchReads
  <1> QED
    BY <1>4, <1>7, <1>8 DEF Next

\* ImplementsRunTree: whatever requests do to the runs, who loads them sees a tree
\* of histories grow by one run, fact or branch at a time.
THEOREM CreationImplementsRunTree == Spec => ImplementsRunTree
  <1>1. Init => Reader!Init
    BY DEF Init, Reader!Init, Runs
  <1>2. CreationIInv => ReadIs
    <2> SUFFICES ASSUME CreationIInv PROVE ReadIs
      OBVIOUS
    <2>1. ASSUME NEW r \in Runs PROVE Load(r, Len(runs[r].log)) = Latest(r, runs[r])
      <3>1. RunsOk(runs, scenario) /\ Len(runs[r].log) \in 1 .. Len(runs[r].log)
        BY Known
      <3> QED
        BY <3>1, LoadIs DEF Latest
    <2> QED
      BY <2>1, Zenon DEF ReadIs, States, Runs
  <1>3. CreationIInv /\ ReadIs /\ ReadIs' /\ [Next]_vars => [Reader!Next]_(Reader!treeVars)
    BY StepReads
  <1> QED
    BY <1>1, <1>2, <1>3, CreationInductive, PTL DEF Spec, ImplementsRunTree, Reader!Spec
=============================================================================
