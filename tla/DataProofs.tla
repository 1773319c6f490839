----------------------------- MODULE DataProofs ------------------------------
(***************************************************************************)
(* Facts about the data the models compute with, for every input: what a   *)
(* recursive function is, and the delays of Backoff.                       *)
(*                                                                         *)
(* The induction theorems of the library take a predicate as parameter,    *)
(* which the provers cannot instantiate; Induction is about a set instead, *)
(* and Recursion about a step that is a function, so that both can be      *)
(* cited with what they are used for.                                      *)
(***************************************************************************)
EXTENDS Backoff, WellFoundedInduction, TLAPS

\* A set that has 0, and n + 1 with n, has every natural number: otherwise the
\* least that is missing has a predecessor, which is not missing.
LEMMA Induction ==
  ASSUME NEW T, 0 \in T, \A n \in Nat : n \in T => n + 1 \in T
  PROVE  Nat \subseteq T
<1> DEFINE R == OpToRel(<, Nat)
           C == Nat \ T
<1>1. IsWellFoundedOn(R, Nat)
  BY NatLessThanWellFounded
<1>2. \A x, y \in Nat : <<y, x>> \in R <=> y < x
  BY DEF OpToRel
<1> HIDE DEF R
<1> SUFFICES ASSUME C # {} PROVE FALSE
  OBVIOUS
<1>3. PICK x \in C : \A y \in C : <<y, x>> \notin R
  <2>1. C \subseteq Nat
    OBVIOUS
  <2> HIDE DEF C
  <2> QED BY <1>1, <2>1, WFMin
<1>4. x \in Nat /\ x # 0
  OBVIOUS
<1>5. x - 1 \in Nat /\ x - 1 < x /\ (x - 1) + 1 = x
  BY <1>4
<1>6. x - 1 \in T
  BY <1>2, <1>3, <1>5
<1> QED BY <1>5, <1>6

\* d is what the recursion from c by step gives, up to n.
Iterates(d, n, S, c, step) ==
  /\ d \in [0..n -> S]
  /\ d[0] = c
  /\ \A i \in 1..n : d[i] = step[<<d[i - 1], i>>]

\* There is one for every n.
LEMMA IterationExists ==
  ASSUME NEW S, NEW c \in S, NEW step \in [S \X Nat -> S], NEW n \in Nat
  PROVE  \E d : Iterates(d, n, S, c, step)
<1> DEFINE T == {k \in Nat : \E d : Iterates(d, k, S, c, step)}
<1>1. 0 \in T
  <2>1. Iterates([i \in 0..0 |-> c], 0, S, c, step)
    BY DEF Iterates
  <2> QED BY <2>1
<1>2. ASSUME NEW k \in Nat, k \in T PROVE k + 1 \in T
  <2>1. PICK d : Iterates(d, k, S, c, step)
    BY <1>2
  <2> DEFINE e == [i \in 0 .. k + 1 |-> IF i = k + 1 THEN step[<<d[k], k + 1>>] ELSE d[i]]
  <2>2. d[k] \in S /\ k + 1 \in Nat
    BY <2>1 DEF Iterates
  <2>3. step[<<d[k], k + 1>>] \in S
    BY <2>2
  <2>4. e \in [0 .. k + 1 -> S]
    BY <2>1, <2>3 DEF Iterates
  <2>5. e[0] = c
    BY <2>1 DEF Iterates
  <2>6. ASSUME NEW i \in 1 .. k + 1 PROVE e[i] = step[<<e[i - 1], i>>]
    <3>1. CASE i = k + 1
      <4>1. e[i] = step[<<d[k], k + 1>>] /\ e[i - 1] = d[k]
        BY <3>1
      <4> QED BY <4>1, <3>1
    <3>2. CASE i # k + 1
      <4>1. i \in 1..k /\ e[i] = d[i] /\ e[i - 1] = d[i - 1]
        BY <3>2
      <4> QED BY <4>1, <2>1 DEF Iterates
    <3> QED BY <3>1, <3>2
  <2> HIDE DEF e
  <2>7. Iterates(e, k + 1, S, c, step)
    BY <2>4, <2>5, <2>6 DEF Iterates
  <2> QED BY <2>7
<1> HIDE DEF T
<1>3. Nat \subseteq T
  BY <1>1, <1>2, Induction
<1> QED BY <1>3 DEF T

\* Two of them agree as far as both go.
LEMMA IterationUnique ==
  ASSUME NEW S, NEW c, NEW step, NEW n \in Nat, NEW m \in Nat, NEW d, NEW e,
         Iterates(d, n, S, c, step), Iterates(e, m, S, c, step)
  PROVE  \A i \in Nat : i <= n /\ i <= m => d[i] = e[i]
<1> DEFINE T == {i \in Nat : i <= n /\ i <= m => d[i] = e[i]}
<1>1. 0 \in T
  BY DEF Iterates
<1>2. ASSUME NEW k \in Nat, k \in T PROVE k + 1 \in T
  <2> SUFFICES ASSUME k + 1 <= n, k + 1 <= m PROVE d[k + 1] = e[k + 1]
    OBVIOUS
  <2>1. d[k] = e[k]
    BY <1>2
  <2>2. d[k + 1] = step[<<d[k], k + 1>>] /\ e[k + 1] = step[<<e[k], k + 1>>]
    BY DEF Iterates
  <2> QED BY <2>1, <2>2
<1> HIDE DEF T
<1>3. Nat \subseteq T
  BY <1>1, <1>2, Induction
<1> QED BY <1>3 DEF T

\* The recursive function on all the naturals.  (Its equations are a definition
\* to leave folded, so that the provers find the instance.)
Recurses(f, S, c, step) ==
  /\ f \in [Nat -> S]
  /\ f[0] = c
  /\ \A i \in Nat \ {0} : f[i] = step[<<f[i - 1], i>>]

Steps(S) == [S \X Nat -> S]

LEMMA Recursion ==
  ASSUME NEW S, NEW c \in S, NEW step \in Steps(S)
  PROVE  \E f : Recurses(f, S, c, step)
<1> DEFINE D(n) == CHOOSE d : Iterates(d, n, S, c, step)
           f == [n \in Nat |-> D(n)[n]]
<1>1. \A n \in Nat : Iterates(D(n), n, S, c, step)
  BY IterationExists DEF Steps
<1> HIDE DEF D
<1>2. f \in [Nat -> S]
  BY <1>1 DEF Iterates
<1>3. f[0] = c
  BY <1>1 DEF Iterates
<1>4. ASSUME NEW i \in Nat, i # 0 PROVE f[i] = step[<<f[i - 1], i>>]
  <2>0. i - 1 \in Nat /\ i - 1 <= i
    BY <1>4
  <2>1. D(i)[i] = step[<<D(i)[i - 1], i>>]
    BY <1>1, <1>4 DEF Iterates
  <2>2. Iterates(D(i - 1), i - 1, S, c, step) /\ Iterates(D(i), i, S, c, step)
    BY <1>1, <2>0
  <2>3. D(i)[i - 1] = D(i - 1)[i - 1]
    BY <2>0, <2>2, IterationUnique
  <2> QED BY <2>0, <2>1, <2>3
<1> HIDE DEF f
<1> QED BY <1>2, <1>3, <1>4 DEF Recurses

-----------------------------------------------------------------------------

LEMMA Power2Def ==
  /\ Power2[0] = 1
  /\ \A n \in Nat : Power2[n] \in Nat \ {0} /\ Power2[n + 1] = 2 * Power2[n]
<1> DEFINE step == [x \in Nat \X Nat |-> 2 * x[1]]
           T == {n \in Nat : Power2[n] \in Nat \ {0}}
<1>1. step \in Steps(Nat) /\ \A x, y \in Nat : step[<<x, y>>] = 2 * x
  BY DEF Steps
<1> HIDE DEF step
<1>2. PICK f : Recurses(f, Nat, 1, step)
  BY <1>1, Recursion
<1>3. f = [i \in Nat |-> IF i = 0 THEN 1 ELSE 2 * f[i - 1]]
  <2>1. \A i \in Nat : i # 0 => step[<<f[i - 1], i>>] = 2 * f[i - 1]
    BY <1>1, <1>2 DEF Recurses
  <2> QED BY <1>2, <2>1 DEF Recurses
<1>4. Power2 = [i \in Nat |-> IF i = 0 THEN 1 ELSE 2 * Power2[i - 1]]
  BY <1>3 DEF Power2
<1>5. Power2[0] = 1 /\ \A n \in Nat : Power2[n + 1] = 2 * Power2[n]
  BY <1>4
<1>6. Nat \subseteq T
  <2>1. 0 \in T
    BY <1>5
  <2>2. \A n \in Nat : n \in T => n + 1 \in T
    BY <1>5
  <2> HIDE DEF T
  <2> QED BY <2>1, <2>2, Induction
<1> QED BY <1>5, <1>6

LEMMA TimesTwo == ASSUME NEW b \in Nat, NEW p \in Nat PROVE b * (2 * p) = 2 * (b * p)
OBVIOUS

\* The loop of backoff and backoffDelay computes the formula: what is left of
\* it when both are capped.
THEOREM CappedIs ==
  ASSUME NEW attempt \in Int, NEW base \in Nat \ {0}, NEW max \in Nat \ {0}
  PROVE  /\ Capped(attempt, base, max) =
              Least(base * Power2[IF attempt < 0 THEN 0 ELSE attempt], max)
         /\ Capped(attempt, base, max) \in 1..max
<1> DEFINE n == IF attempt < 0 THEN 0 ELSE attempt
           step == [x \in Nat \X Nat |-> IF x[1] < max THEN 2 * x[1] ELSE x[1]]
           d[i \in 0..n] == IF i = 0 THEN base
                            ELSE IF d[i - 1] < max THEN 2 * d[i - 1] ELSE d[i - 1]
           T == {i \in Nat : i <= n => /\ d[i] \in Nat \ {0}
                                      /\ Least(d[i], max) = Least(base * Power2[i], max)}
<1>0. n \in Nat
  OBVIOUS
<1>1. Doubled(n, base, max) = d[n]
  BY DEF Doubled
<1> HIDE DEF n
<1>2. d = [i \in 0..n |-> IF i = 0 THEN base
                         ELSE IF d[i - 1] < max THEN 2 * d[i - 1] ELSE d[i - 1]]
  <2>1. /\ step \in Steps(Nat)
        /\ \A x, y \in Nat : step[<<x, y>>] = IF x < max THEN 2 * x ELSE x
    BY DEF Steps
  <2> HIDE DEF step
  <2>2. PICK f : Recurses(f, Nat, base, step)
    BY <2>1, Recursion
  <2> DEFINE g == [i \in 0..n |-> f[i]]
  <2>3. g = [i \in 0..n |-> IF i = 0 THEN base
                           ELSE IF g[i - 1] < max THEN 2 * g[i - 1] ELSE g[i - 1]]
    <3>1. ASSUME NEW i \in 0..n
          PROVE  g[i] = IF i = 0 THEN base
                        ELSE IF g[i - 1] < max THEN 2 * g[i - 1] ELSE g[i - 1]
      <4>1. CASE i = 0
        BY <2>2, <4>1 DEF Recurses
      <4>2. CASE i # 0
        <5>1. i \in Nat /\ i - 1 \in 0..n /\ i - 1 \in Nat
          BY <1>0, <4>2
        <5>2. f[i] = step[<<f[i - 1], i>>] /\ f[i - 1] \in Nat
          BY <2>2, <4>2, <5>1 DEF Recurses
        <5>3. step[<<f[i - 1], i>>] = IF f[i - 1] < max THEN 2 * f[i - 1] ELSE f[i - 1]
          BY <2>1, <5>1, <5>2
        <5> QED BY <4>2, <5>1, <5>2, <5>3
      <4> QED BY <4>1, <4>2
    <3> QED BY <3>1
  <2> HIDE DEF g
  <2> QED BY <2>3
<1> HIDE DEF d
<1>3. 0 \in T
  <2>1. d[0] = base
    BY <1>0, <1>2
  <2>2. base * Power2[0] = base
    BY Power2Def
  <2> QED BY <2>1, <2>2
<1>4. ASSUME NEW i \in Nat, i \in T PROVE i + 1 \in T
  <2> SUFFICES ASSUME i + 1 <= n
               PROVE  /\ d[i + 1] \in Nat \ {0}
                      /\ Least(d[i + 1], max) = Least(base * Power2[i + 1], max)
    OBVIOUS
  <2>1. d[i] \in Nat \ {0} /\ Least(d[i], max) = Least(base * Power2[i], max)
    BY <1>0, <1>4
  <2>2. d[i + 1] = IF d[i] < max THEN 2 * d[i] ELSE d[i]
    BY <1>0, <1>2
  <2>3. base * Power2[i + 1] = 2 * (base * Power2[i])
    BY Power2Def, TimesTwo
  <2>4. base * Power2[i] \in Nat
    BY Power2Def
  <2> QED BY <2>1, <2>2, <2>3, <2>4 DEF Least
<1> HIDE DEF T
<1>5. n \in T
  BY <1>0, <1>3, <1>4, Induction
<1>6. d[n] \in Nat \ {0} /\ Least(d[n], max) = Least(base * Power2[n], max)
  BY <1>0, <1>5 DEF T
<1>7. Capped(attempt, base, max) = Least(d[n], max)
  BY <1>1 DEF Capped, n
<1>8. Least(d[n], max) \in 1..max
  BY <1>6 DEF Least
<1> QED BY <1>6, <1>7, <1>8 DEF n

\* A fifth rounded down.
LEMMA Fifth == ASSUME NEW d \in Nat PROVE d \div 5 \in Nat /\ 5 * (d \div 5) <= d
OBVIOUS

\* The integer division of backoff and backoffDelay: a delay that is at most
\* max stays at most max, is moved by at most a fifth of itself, and never
\* becomes 0, so that no loop of retries spins.
THEOREM JitterBounds ==
  ASSUME NEW max \in Nat \ {0}, NEW d \in 1..max, NEW x \in Jittered(d, max)
  PROVE  /\ x \in 1..max
         /\ 4 * d <= 5 * x /\ 5 * x <= 6 * d
<1> DEFINE j == d \div 5
<1>1. d \in Nat /\ j \in Nat /\ 5 * j <= d /\ 1 <= d /\ d <= max
  BY Fifth
<1> HIDE DEF j
<1>2. PICK r \in 0 .. 2 * j : x = Least(d - j + r, max)
  BY DEF Jittered, j
<1>3. /\ d - j + r \in Int /\ 5 * (d - j + r) <= 6 * d
      /\ 4 * d <= 5 * (d - j + r) /\ 1 <= d - j + r
  BY <1>1, <1>2
<1>4. CASE d - j + r < max
  BY <1>1, <1>2, <1>3, <1>4 DEF Least
<1>5. CASE ~(d - j + r < max)
  BY <1>1, <1>2, <1>3, <1>5 DEF Least
<1> QED BY <1>4, <1>5

\* Every delay that is waited for is in 1..max.
LEMMA DelaysType ==
  ASSUME NEW attempt \in Int, NEW base \in Nat \ {0}, NEW max \in Nat \ {0},
         NEW x \in Delays(attempt, base, max)
  PROVE  x \in 1..max
BY CappedIs, JitterBounds DEF Delays
=============================================================================
