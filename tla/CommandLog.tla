------------------------------ MODULE CommandLog ------------------------------
(***************************************************************************)
(* What the command store promises: the event stream of a Run is the work  *)
(* of its commands one after the other.  Each one that was asked for takes *)
(* effect at most once, in a single step, and on the state the whole       *)
(* stream stands for at that moment (src/plan.md, sections 6.3 and 10.5).  *)
(***************************************************************************)
EXTENDS RunCommands

VARIABLES
  log,      \* the event stream
  asked     \* request |-> [key, op] of the command it carries, or NotAsked

logVars == <<log, asked>>

NotAsked == [key |-> None, op |-> NoOp]

Init == log = StartedLog /\ asked = [r \in Requests |-> NotAsked]

Ask(r) ==
  /\ asked[r] = NotAsked
  /\ asked'[r] \in [key : Requests, op : Op]
  /\ asked' = [asked EXCEPT ![r] = asked'[r]]
  /\ UNCHANGED log

\* An approval that is late is resolved as expired, whatever was decided.
Decided(op) ==
  {op} \cup (IF op.kind = "resolve-approval" THEN {[op EXCEPT !.decision = "expired"]} ELSE {})

TakeEffect(r) ==
  /\ asked[r] # NotAsked /\ UNCHANGED asked /\ log' # log
  /\ LET s == Replay(Created, log)
     IN  \E op \in Decided(asked[r].op) :
           LET c == [command |-> r, key |-> asked[r].key, expected |-> Version(s), op |-> op]
           IN  /\ ~ Duplicate(s, c)
               /\ Types(s, op) # <<>>
               /\ log' = log \o Effects(s, c)

Next == \E r \in Requests : Ask(r) \/ TakeEffect(r)

Spec == Init /\ [][Next]_logVars
=============================================================================
