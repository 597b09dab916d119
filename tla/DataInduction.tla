---------------------------- MODULE DataInduction ----------------------------
(***************************************************************************)
(* Induction over the natural numbers, and what follows from it for the    *)
(* replay of an event stream: a state that is computed from event to event *)
(* exists, and is determined by the events.                                *)
(*                                                                         *)
(* The induction theorems of the library range over a predicate, which the *)
(* SMT solver cannot instantiate.  Here the predicate is the set of the    *)
(* numbers that have it; the least number outside of it comes from the     *)
(* well-foundedness of the naturals.                                       *)
(***************************************************************************)
EXTENDS Integers, Sequences, WellFoundedInduction, TLAPS

\* A set that has 0, and with a number its successor, has all numbers.
LEMMA Induction ==
  ASSUME NEW S, 0 \in S, \A n \in Nat : n \in S => n + 1 \in S
  PROVE  Nat \subseteq S
  <1> DEFINE T == Nat \ S
             R == OpToRel(<, Nat)
  <1>1. SUFFICES ASSUME T # {} PROVE FALSE
    OBVIOUS
  <1>2. IsWellFoundedOn(R, Nat)
    BY NatLessThanWellFounded
  <1>3. \A x, y \in Nat : y < x => <<y, x>> \in R
    BY DEF OpToRel
  <1> HIDE DEF R
  <1>4. PICK x \in T : \A y \in T : <<y, x>> \notin R
    <2>1. T \subseteq Nat
      OBVIOUS
    <2> HIDE DEF T
    <2> QED
      BY <1>1, <1>2, <2>1, WFMin
  <1>5. x \in Nat /\ x # 0
    OBVIOUS
  <1>6. x - 1 \in T
    BY <1>5
  <1>7. x - 1 \in Nat /\ x - 1 < x
    BY <1>5
  <1>8. <<x - 1, x>> \in R
    BY <1>3, <1>5, <1>7
  <1> QED
    BY <1>4, <1>6, <1>8

\* The same up to a number n.
LEMMA BoundedInduction ==
  ASSUME NEW n \in Nat, NEW S, 0 \in S, \A i \in 1 .. n : i - 1 \in S => i \in S
  PROVE  0 .. n \subseteq S
  <1> DEFINE T == {i \in Nat : i <= n => i \in S}
  <1>1. 0 \in T
    OBVIOUS
  <1>2. ASSUME NEW i \in Nat, i \in T PROVE i + 1 \in T
    <2>1. CASE i + 1 <= n
      <3>1. i \in S /\ i + 1 \in 1 .. n /\ (i + 1) - 1 = i
        BY <1>2, <2>1
      <3> QED
        BY <3>1
    <2>2. CASE ~ (i + 1 <= n)
      BY <2>2
    <2> QED
      BY <2>1, <2>2
  <1>3. Nat \subseteq T
    <2> HIDE DEF T
    <2> QED
      BY <1>1, <1>2, Induction
  <1> QED
    BY <1>3

\* A set of numbers that are at most n, and one of them, have a greatest.
LEMMA Greatest ==
  ASSUME NEW n \in Nat, NEW S, S \subseteq 0 .. n, S # {}
  PROVE  \E m \in S : \A k \in S : k <= m
  <1> DEFINE T == {b \in Nat : \A k \in S : k <= n - b}
  <1>1. SUFFICES ASSUME \A m \in S : \E k \in S : ~ (k <= m) PROVE FALSE
    OBVIOUS
  <1>2. 0 \in T
    OBVIOUS
  <1>3. ASSUME NEW b \in Nat, b \in T PROVE b + 1 \in T
    <2>1. ASSUME NEW k \in S PROVE k <= n - (b + 1)
      <3>1. k <= n - b /\ k \in 0 .. n
        BY <1>3
      <3>2. k # n - b
        <4>1. PICK j \in S : ~ (j <= k)
          BY <1>1
        <4>2. j <= n - b /\ j \in 0 .. n
          BY <1>3
        <4> QED
          BY <3>1, <4>1, <4>2
      <3> QED
        BY <3>1, <3>2
    <2> QED
      BY <2>1
  <1>4. Nat \subseteq T
    <2> HIDE DEF T
    <2> QED
      BY <1>2, <1>3, Induction
  <1>5. n + 1 \in T
    BY <1>4
  <1>6. PICK k \in S : TRUE
    OBVIOUS
  <1>7. k <= n - (n + 1) /\ k \in 0 .. n
    BY <1>5
  <1> QED
    BY <1>7

\* Two runs that begin alike and go on alike are alike.
LEMMA SameRun ==
  ASSUME NEW n \in Nat, NEW f, NEW g, f[0] = g[0],
         \A i \in 1 .. n : f[i - 1] = g[i - 1] => f[i] = g[i]
  PROVE  \A i \in 0 .. n : f[i] = g[i]
  <1> DEFINE S == {i \in 0 .. n : f[i] = g[i]}
  <1>1. 0 \in S /\ \A i \in 1 .. n : i - 1 \in S => i \in S
    OBVIOUS
  <1>2. 0 .. n \subseteq S
    <2> HIDE DEF S
    <2> QED
      BY <1>1, BoundedInduction
  <1> QED
    BY <1>2

Steps(n, S) == [S \X (1 .. n) -> S]

\* The states from s on, where step gives the i-th from the one before it.
IsRun(f, s, step, n, S) ==
  /\ f \in [0 .. n -> S] /\ f[0] = s
  /\ \A i \in 1 .. n : f[i] = step[<<f[i - 1], i>>]

\* A run of n steps exists from every state, whatever the steps do.
LEMMA RunExists ==
  ASSUME NEW n \in Nat, NEW S, NEW s \in S, NEW step \in Steps(n, S)
  PROVE  \E f : IsRun(f, s, step, n, S)
  <1> DEFINE Run(m) == {f \in [0 .. m -> S] :
                          f[0] = s /\ \A i \in 1 .. m : f[i] = step[<<f[i - 1], i>>]}
             T == {m \in 0 .. n : Run(m) # {}}
  <1>1. 0 \in T
    <2>1. [i \in 0 .. 0 |-> s] \in Run(0)
      OBVIOUS
    <2> QED
      BY <2>1
  <1>2. ASSUME NEW m \in 1 .. n, m - 1 \in T PROVE m \in T
    <2>1. PICK f : f \in Run(m - 1)
      BY <1>2
    <2> DEFINE g == [i \in 0 .. m |-> IF i = m THEN step[<<f[m - 1], m>>] ELSE f[i]]
    <2>2. f \in [0 .. m - 1 -> S] /\ f[m - 1] \in S
      BY <2>1
    <2>3. step[<<f[m - 1], m>>] \in S
      BY <2>2 DEF Steps
    <2>4. g \in [0 .. m -> S]
      BY <2>2, <2>3
    <2>5. g[0] = s
      BY <2>1
    <2>6. ASSUME NEW i \in 1 .. m PROVE g[i] = step[<<g[i - 1], i>>]
      <3>1. CASE i = m
        <4>1. i - 1 \in 0 .. m /\ i - 1 # m /\ g[i - 1] = f[i - 1]
          BY <3>1
        <4> QED
          BY <3>1, <4>1
      <3>2. CASE i # m
        <4>1. i \in 1 .. m - 1 /\ i - 1 \in 0 .. m /\ i - 1 # m
          BY <3>2
        <4>2. g[i] = f[i] /\ g[i - 1] = f[i - 1]
          BY <3>2, <4>1
        <4> QED
          BY <2>1, <4>1, <4>2
      <3> QED
        BY <3>1, <3>2
    <2>7. g \in Run(m)
      <3> HIDE DEF g
      <3> QED
        BY <2>4, <2>5, <2>6
    <2>8. m \in 0 .. n /\ Run(m) # {}
      <3> HIDE DEF g, Run
      <3> QED
        BY <2>7
    <2> QED
      BY <2>8
  <1>3. 0 .. n \subseteq T
    <2> HIDE DEF T
    <2> QED
      BY <1>1, <1>2, BoundedInduction
  <1>4. PICK f : f \in Run(n)
    BY <1>3
  <1> QED
    BY <1>4 DEF IsRun
=============================================================================
