---------------------------- MODULE LoopTheorems ----------------------------
(***************************************************************************)
(* Induction over the passes of a loop that is written as a recursive      *)
(* function.  The states that a loop may be in are given as sets, so that  *)
(* everything is first order.                                              *)
(***************************************************************************)
EXTENDS Integers, WellFoundedInduction, TLAPS

(***************************************************************************)
(* Numbers: what an induction over the passes of a loop needs, in first    *)
(* order.                                                                  *)
(***************************************************************************)

\* A nonempty set of natural numbers has a least element.
LEMMA LeastNat ==
  ASSUME NEW T, T \subseteq Nat, T # {}
  PROVE  \E x \in T : \A y \in T : x <= y
<1> DEFINE R == OpToRel(<, Nat)
<1>1. \E x \in T : \A y \in T : ~ (<<y, x>> \in R)
  <2>1. IsWellFoundedOn(R, Nat)
    BY NatLessThanWellFounded, Zenon
  <2> HIDE DEF R
  <2> QED  BY <2>1, WFMin
<1>2. PICK x \in T : \A y \in T : ~ (<<y, x>> \in R)
  BY <1>1
<1>3. ASSUME NEW y \in T PROVE ~ (y < x)
  <2>1. R = {ss \in Nat \X Nat : ss[1] < ss[2]}
    BY DEF OpToRel
  <2>2. <<y, x>> \in Nat \X Nat
    OBVIOUS
  <2> HIDE DEF R
  <2> QED  BY <1>2, <2>1, <2>2
<1> QED  BY <1>3

\* One of numbers up to a bound has a greatest.
LEMMA GreatestNat ==
  ASSUME NEW T, NEW n \in Nat, T \subseteq 0..n, T # {}
  PROVE  \E x \in T : \A y \in T : y <= x
<1> DEFINE U == {n - x : x \in T}
<1>1. U \subseteq Nat /\ U # {}
  <2>1. \A x \in T : n - x \in Nat
    OBVIOUS
  <2>2. PICK x : x \in T
    OBVIOUS
  <2>3. n - x \in U
    BY <2>2
  <2> QED  BY <2>1, <2>3
<1>2. PICK u \in U : \A v \in U : u <= v
  <2> HIDE DEF U
  <2> QED  BY <1>1, LeastNat
<1>3. PICK x \in T : u = n - x
  BY <1>2
<1>4. \A y \in T : n - x <= n - y
  BY <1>2, <1>3
<1> QED  BY <1>4

\* What holds of 0 and passes from each number to the next holds up to n.
LEMMA LoopInduction ==
  ASSUME NEW n \in Nat, NEW G, 0 \in G,
         \A i \in 1..n : i - 1 \in G => i \in G
  PROVE  \A i \in 0..n : i \in G
<1> DEFINE T == (0..n) \ G
<1>1. SUFFICES ASSUME T # {} PROVE FALSE
  OBVIOUS
<1>2. T \subseteq Nat
  OBVIOUS
<1>3. PICK x \in T : \A y \in T : x <= y
  <2> HIDE DEF T
  <2> QED  BY <1>1, <1>2, LeastNat
<1>4. x \in 1..n /\ x \notin G
  BY <1>3
<1>5. x - 1 \in 0..n /\ x - 1 \notin T
  BY <1>3, <1>4
<1> QED  BY <1>4, <1>5

\* A loop of n passes: X[i] holds the states it may be in after pass i, pass[i]
\* is what pass i makes of a state of X[i - 1].
IsLoop(n, X, pass, s) ==
  s \in X[0] /\ \A i \in 1..n : \A x \in X[i - 1] : pass[i][x] \in X[i]

\* f[i] is the state after pass i.
IsRun(n, X, pass, s, f) ==
  /\ f = [i \in 0..n |-> f[i]]
  /\ f[0] = s
  /\ \A i \in 1..n : f[i] = pass[i][f[i - 1]]
  /\ \A i \in 0..n : f[i] \in X[i]

\* A loop runs to its end.
LEMMA LoopRuns ==
  ASSUME NEW n \in Nat, NEW X, NEW pass, NEW s, IsLoop(n, X, pass, s)
  PROVE  \E f : IsRun(n, X, pass, s, f)
<1> DEFINE Run(i, g) == IsRun(i, X, pass, s, g)
           G == {i \in 0..n : \E g : Run(i, g)}
<1> USE DEF IsLoop, IsRun
<1>1. 0 \in G
  <2> DEFINE g == [j \in 0..0 |-> s]
  <2>1. Run(0, g)
    OBVIOUS
  <2> HIDE DEF g, Run
  <2> QED  BY <2>1
<1>2. ASSUME NEW i \in 1..n, i - 1 \in G PROVE i \in G
  <2>1. PICK g : Run(i - 1, g)
    BY <1>2
  <2> DEFINE h == [j \in 0..i |-> IF j = i THEN pass[i][g[i - 1]] ELSE g[j]]
  <2>2. g[i - 1] \in X[i - 1]
    BY <2>1
  <2>3. \A j \in 0..i : h[j] \in X[j]
    BY <2>1, <2>2
  <2>4. ASSUME NEW j \in 1..i PROVE h[j] = pass[j][h[j - 1]]
    <3>1. h[j - 1] = g[j - 1]
      OBVIOUS
    <3>2. CASE j = i
      BY <3>1, <3>2
    <3>3. CASE j # i
      <4>1. j \in 1..(i - 1) /\ h[j] = g[j]
        BY <3>3
      <4> QED  BY <2>1, <3>1, <4>1
    <3> QED  BY <3>2, <3>3
  <2>5. h = [j \in 0..i |-> h[j]] /\ h[0] = s
    BY <2>1
  <2> HIDE DEF h
  <2>6. Run(i, h)
    BY <2>3, <2>4, <2>5
  <2> HIDE DEF Run
  <2> QED  BY <2>6
<1>3. n \in G
  <2> HIDE DEF G
  <2> QED  BY <1>1, <1>2, LoopInduction
<1> QED  BY <1>3

\* A function that takes the passes from state to state ends in the last set.
LEMMA LoopEnds ==
  ASSUME NEW n \in Nat, NEW X, NEW pass, NEW s, IsLoop(n, X, pass, s),
         NEW f, f[0] = s,
         \A i \in 1..n : f[i - 1] \in X[i - 1] => f[i] = pass[i][f[i - 1]]
  PROVE  f[n] \in X[n]
<1> DEFINE G == {i \in 0..n : f[i] \in X[i]}
<1>1. 0 \in G
  BY DEF IsLoop
<1>2. ASSUME NEW i \in 1..n, i - 1 \in G PROVE i \in G
  BY <1>2 DEF IsLoop
<1>3. n \in G
  <2> HIDE DEF G
  <2> QED  BY <1>1, <1>2, LoopInduction
<1> QED  BY <1>3
=============================================================================
