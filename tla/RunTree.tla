-------------------------------- MODULE RunTree --------------------------------
(***************************************************************************)
(* What the creation of runs promises to whoever reads one: runs are kept  *)
(* as a tree of histories.  A history only grows, by the run's own next    *)
(* fact, and a run that was started stays so; a branch begins anew with a  *)
(* part of its parent's history, as that was, and with the parent's        *)
(* scenario version; and an idempotency key makes one run.  There are no   *)
(* requests, snapshots or replays here.                                    *)
(***************************************************************************)
EXTENDS Naturals, Sequences

CONSTANT Headers     \* the idempotency keys that runs are made with

VARIABLES
  versions,   \* how many versions the scenario has
  keys,       \* for each run, the key it was made with,
  version,    \* the version of the scenario,
  state       \* and its status with the facts it has lived through

treeVars == <<versions, keys, version, state>>

Init == versions = 1 /\ keys = <<>> /\ version = <<>> /\ state = <<>>

Nodes == 1 .. Len(keys)

\* The facts of a run are numbered; the last one is always its own.
Grown(r, status) ==
  LET past == state[r].facts
  IN  [status |-> status, facts |-> Append(past, <<r, past[Len(past)][2] + 1>>)]

\* A run with a key that was not used, and what it remembers.
Made(key, v) ==
  /\ \A r \in Nodes : keys[r] # key
  /\ keys' = Append(keys, key)
  /\ version' = Append(version, v)
  /\ UNCHANGED versions
Born(past) == [status |-> "created", facts |-> Append(past, <<Len(keys) + 1, 1>>)]

Derive == versions' = versions + 1 /\ UNCHANGED <<keys, version, state>>

Create(key) ==
  /\ \E v \in 1 .. versions : Made(key, v)
  /\ state' = Append(state, Born(<<>>))

\* The run lives through one more fact, which may be its start.
Act(r) ==
  /\ state' \in {[state EXCEPT ![r] = Grown(r, status)] : status \in {state[r].status, "running"}}
  /\ UNCHANGED <<versions, keys, version>>

\* The parent notes the branch, which starts behind a fact of the parent's own.
Branch(p, key) ==
  /\ Made(key, version[p])
  /\ \E n \in 1 .. Len(state[p].facts) :
       /\ state[p].facts[n][1] = p
       /\ state' = Append([state EXCEPT ![p] = Grown(p, @.status)],
                          Born(SubSeq(state[p].facts, 1, n)))

Next ==
  \/ Derive
  \/ \E key \in Headers : Create(key)
  \/ \E r \in Nodes : Act(r)
  \/ \E p \in Nodes, key \in Headers : Branch(p, key)

Spec == Init /\ [][Next]_treeVars
================================================================================
