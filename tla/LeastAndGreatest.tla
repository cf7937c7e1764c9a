--------------------------- MODULE LeastAndGreatest ---------------------------
(***************************************************************************)
(* Lemmas that the proofs of several components share: the least and the   *)
(* greatest number of a set, which Min and Max of FiniteSetsExt choose and *)
(* which have to be shown to exist, induction over numbers stated as a set *)
(* that has them all, and functions defined by recursion over numbers.     *)
(***************************************************************************)
EXTENDS Integers, FiniteSetsExt, FiniteSetTheorems, WellFoundedInduction, TLAPS

-----------------------------------------------------------------------------
\* Of finitely many intervals, one contains no other.
LEMMA SmallestSegment ==
    ASSUME NEW T \in SUBSET FiniteSubsetsOf(Int), T # {}
    PROVE  \E t \in T : \A u \in T : u \subseteq t => u = t
<1>2. PICK t \in T : \A u \in T : <<u, t>> \notin StrictSubsetOrdering(Int)
  BY FS_StrictSubsetOrderingWellFounded, WFMin
<1>3. \A u \in T : <<u, t>> \in (SUBSET Int) \X SUBSET Int
  BY DEF FiniteSubsetsOf
<1>. QED
  BY <1>2, <1>3 DEF StrictSubsetOrdering

\* The least of some natural numbers is one of them.
LEMMA MinType ==
    ASSUME NEW S \in SUBSET Nat, S # {}
    PROVE  Min(S) \in S /\ \A y \in S : Min(S) <= y
<1>. DEFINE T == {0..x : x \in S}
<1>0. \A x \in S : 0..x \in FiniteSubsetsOf(Int)
  <2>1. ASSUME NEW x \in S
        PROVE  IsFiniteSet(0..x) /\ 0..x \in SUBSET Int
    BY FS_Interval
  <2>. QED
    BY <2>1 DEF FiniteSubsetsOf
<1>1. PICK t \in T : \A u \in T : u \subseteq t => u = t
  <2>1. T \in SUBSET FiniteSubsetsOf(Int) /\ T # {}
    BY <1>0
  <2>. HIDE DEF T
  <2>. QED
    BY <2>1, SmallestSegment
<1>2. PICK x \in S : t = 0..x
  OBVIOUS
<1>3. ASSUME NEW y \in S, y < x
      PROVE  FALSE
  <2>1. 0..y \subseteq 0..x /\ x \in 0..x /\ x \notin 0..y
    BY <1>3
  <2>. QED
    BY <1>1, <1>2, <2>1
<1>4. \A y \in S : x <= y
  BY <1>3
<1>. QED
  BY <1>4 DEF Min

\* So is the greatest of some numbers up to n.
LEMMA MaxType ==
    ASSUME NEW n \in Nat, NEW S \in SUBSET (1..n), S # {}
    PROVE  Max(S) \in S /\ \A y \in S : y <= Max(S)
<1>. DEFINE T == {x..n : x \in S}
<1>0. \A x \in S : x..n \in FiniteSubsetsOf(Int)
  <2>1. ASSUME NEW x \in S
        PROVE  IsFiniteSet(x..n) /\ x..n \in SUBSET Int
    BY FS_Interval
  <2>. QED
    BY <2>1 DEF FiniteSubsetsOf
<1>1. PICK t \in T : \A u \in T : u \subseteq t => u = t
  <2>1. T \in SUBSET FiniteSubsetsOf(Int) /\ T # {}
    BY <1>0
  <2>. HIDE DEF T
  <2>. QED
    BY <2>1, SmallestSegment
<1>2. PICK x \in S : t = x..n
  OBVIOUS
<1>3. ASSUME NEW y \in S, y > x
      PROVE  FALSE
  <2>1. y..n \subseteq x..n /\ x \in x..n /\ x \notin y..n
    BY <1>3
  <2>. QED
    BY <1>1, <1>2, <2>1
<1>4. \A y \in S : x >= y
  BY <1>3
<1>. QED
  BY <1>4 DEF Max

-----------------------------------------------------------------------------
(* Induction, and functions defined by recursion.  The induction theorems of *)
(* the library take the statement as an operator, which no prover here can   *)
(* instantiate; a set of numbers does as well.                               *)

\* What holds of 0 and, with n, of n + 1 holds of every number.
LEMMA Induction ==
    ASSUME NEW P \in SUBSET Nat, 0 \in P, \A n \in P : n + 1 \in P
    PROVE  P = Nat
<1>. SUFFICES ASSUME Nat \ P # {} PROVE FALSE
  OBVIOUS
<1>. DEFINE m == Min(Nat \ P)
<1>1. m \in Nat \ P /\ \A n \in Nat \ P : m <= n
  BY MinType
<1>. HIDE DEF m
<1>2. m - 1 \in P
  BY <1>1
<1>. QED
  BY <1>1, <1>2

\* The same up to a bound.
LEMMA InductionUpTo ==
    ASSUME NEW N \in Nat, NEW P \in SUBSET (0..N), 0 \in P,
           \A n \in P : n < N => n + 1 \in P
    PROVE  P = 0..N
<1>. DEFINE Q == P \cup {n \in Nat : n > N}
<1>1. Q = Nat
  <2>1. Q \in SUBSET Nat /\ 0 \in Q
    <3>1. 0..N \subseteq Nat
      OBVIOUS
    <3>. QED
      BY <3>1
  <2>2. ASSUME NEW n \in Q
        PROVE  n + 1 \in Q
    <3>1. CASE n \in P /\ n < N
      BY <3>1
    <3>2. CASE n \in P /\ ~(n < N)
      <4>1. n = N
        BY <3>2
      <4>. QED
        BY <4>1
    <3>3. CASE n > N
      BY <3>3, n \in Nat
    <3>. QED
      BY <3>1, <3>2, <3>3
  <2>. HIDE DEF Q
  <2>. QED
    BY <2>1, <2>2, Induction
<1>2. \A n \in 0..N : n \in Nat /\ ~(n > N)
  OBVIOUS
<1>. QED
  BY <1>1, <1>2

\* step, taken n times from a.
Iterations(S, a, step, n) ==
    {f \in [0..n -> S] : f[0] = a /\ \A k \in 0..(n - 1) : f[k + 1] = step[k][f[k]]}

LEMMA IterationsAgree ==
    ASSUME NEW S, NEW a \in S, NEW step \in [Nat -> [S -> S]],
           NEW n \in Nat, NEW m \in Nat, n <= m, NEW f \in Iterations(S, a, step, n), NEW g \in Iterations(S, a, step, m)
    PROVE  f[n] = g[n]
<1>. DEFINE P == {k \in 0..n : f[k] = g[k]}
<1>1. P = 0..n
  <2>1. P \in SUBSET (0..n) /\ 0 \in P
    BY DEF Iterations
  <2>2. ASSUME NEW k \in P, k < n
        PROVE  k + 1 \in P
    <3>1. k \in 0..(n - 1) /\ k \in 0..(m - 1) /\ k + 1 \in 0..n /\ f[k] = g[k]
      BY <2>2
    <3>. QED
      BY <3>1 DEF Iterations
  <2>. HIDE DEF P
  <2>. QED
    BY <2>1, <2>2, InductionUpTo
<1>. QED
  BY <1>1

LEMMA IterationsExist ==
    ASSUME NEW S, NEW a \in S, NEW step \in [Nat -> [S -> S]], NEW n \in Nat
    PROVE  Iterations(S, a, step, n) # {}
<1>. DEFINE P == {k \in Nat : Iterations(S, a, step, k) # {}}
<1>1. 0 \in P
  <2>1. [k \in 0..0 |-> a] \in Iterations(S, a, step, 0)
    BY DEF Iterations
  <2>. QED
    BY <2>1
<1>2. ASSUME NEW k \in P
      PROVE  k + 1 \in P
  <2>1. PICK f \in Iterations(S, a, step, k) : TRUE
    OBVIOUS
  <2>2. f \in [0..k -> S] /\ f[0] = a /\ \A i \in 0..(k - 1) : f[i + 1] = step[i][f[i]]
    BY <2>1 DEF Iterations
  <2>. DEFINE g == [i \in 0..(k + 1) |-> IF i = k + 1 THEN step[k][f[k]] ELSE f[i]]
  <2>3. g \in [0..(k + 1) -> S] /\ g[0] = a
    <3>1. f[k] \in S
      BY <2>2
    <3>2. step[k][f[k]] \in S
      BY <3>1
    <3>. QED
      BY <2>2, <3>2
  <2>4. ASSUME NEW i \in 0..(k + 1 - 1)
        PROVE  g[i + 1] = step[i][g[i]]
    <3>1. CASE i = k
      BY <3>1
    <3>2. CASE i < k
      <4>1. i \in 0..(k - 1) /\ i + 1 # k + 1 /\ i # k + 1 /\ i + 1 \in 0..(k + 1)
        BY <3>2
      <4>2. g[i + 1] = f[i + 1] /\ g[i] = f[i]
        BY <4>1
      <4>. QED
        BY <2>2, <4>1, <4>2
    <3>. QED
      BY <3>1, <3>2
  <2>5. g \in Iterations(S, a, step, k + 1)
    <3>. HIDE DEF g
    <3>. QED
      BY <2>3, <2>4 DEF Iterations
  <2>. QED
    BY <2>5
<1>3. P = Nat
  <2>1. P \in SUBSET Nat
    OBVIOUS
  <2>. HIDE DEF P
  <2>. QED
    BY <1>1, <1>2, <2>1, Induction
<1>. QED
  BY <1>3

Behaviour(S, a, step) == {f \in [Nat -> S] : f[0] = a /\ \A n \in Nat : f[n + 1] = step[n][f[n]]}

\* There is a function that starts at a and goes on by step.
LEMMA Recursion ==
    ASSUME NEW S, NEW a \in S, NEW step \in [Nat -> [S -> S]]
    PROVE  Behaviour(S, a, step) # {}
<1>. DEFINE R(n) == CHOOSE f : f \in Iterations(S, a, step, n)
            g == [n \in Nat |-> R(n)[n]]
<1>1. \A n \in Nat : R(n) \in Iterations(S, a, step, n)
  BY IterationsExist
<1>2. \A n \in Nat : R(n) \in [0..n -> S] /\ R(n)[0] = a
                     /\ \A k \in 0..(n - 1) : R(n)[k + 1] = step[k][R(n)[k]]
  BY <1>1 DEF Iterations
<1>3. \A n \in Nat : R(n)[n] = R(n + 1)[n]
  <2>1. ASSUME NEW n \in Nat
        PROVE  R(n)[n] = R(n + 1)[n]
    <3>. DEFINE f == R(n)
                h == R(n + 1)
    <3>1. f \in Iterations(S, a, step, n) /\ h \in Iterations(S, a, step, n + 1) /\ n + 1 \in Nat /\ n <= n + 1
      BY <1>1
    <3>. HIDE DEF f, h
    <3>2. f[n] = h[n]
      BY <3>1, IterationsAgree
    <3>. QED
      BY <3>2 DEF f, h
  <2>. QED
    BY <2>1
<1>. HIDE DEF R
<1>4. g \in [Nat -> S] /\ g[0] = a
  BY <1>2
<1>5. ASSUME NEW n \in Nat
      PROVE  g[n + 1] = step[n][g[n]]
  <2>1. n + 1 \in Nat /\ n \in 0..(n + 1 - 1)
    OBVIOUS
  <2>2. R(n + 1)[n + 1] = step[n][R(n + 1)[n]]
    BY <1>2, <2>1
  <2>3. R(n)[n] = R(n + 1)[n]
    BY <1>3
  <2>. QED
    BY <2>1, <2>2, <2>3
<1>. QED
  BY <1>4, <1>5 DEF Behaviour

BehaviourUpTo(N, S, a, step) ==
    {f \in [0..N -> S] : f[0] = a /\ \A n \in 1..N : f[n] = step[n - 1][f[n - 1]]}

\* The same up to a bound.
LEMMA RecursionUpTo ==
    ASSUME NEW N \in Nat, NEW S, NEW a \in S, NEW step \in [Nat -> [S -> S]]
    PROVE  BehaviourUpTo(N, S, a, step) # {}
<1>0. Behaviour(S, a, step) # {}
  BY Recursion
<1>. PICK f : f \in Behaviour(S, a, step)
  BY <1>0
<1>1. f \in [Nat -> S] /\ f[0] = a /\ \A n \in Nat : f[n + 1] = step[n][f[n]]
  BY DEF Behaviour
<1>. DEFINE g == [n \in 0..N |-> f[n]]
<1>2. g \in [0..N -> S] /\ g[0] = a
  BY <1>1
<1>3. ASSUME NEW n \in 1..N
      PROVE  g[n] = step[n - 1][g[n - 1]]
  <2>1. n - 1 \in Nat /\ n - 1 + 1 = n /\ n - 1 \in 0..N
    OBVIOUS
  <2>. QED
    BY <1>1, <2>1
<1>4. g \in BehaviourUpTo(N, S, a, step)
  <2>. HIDE DEF g
  <2>. QED
    BY <1>2, <1>3 DEF BehaviourUpTo
<1>. QED
  BY <1>4

\* The same with zero.
LEMMA MaxTypeFromZero ==
    ASSUME NEW n \in Nat, NEW S \in SUBSET (0..n), S # {}
    PROVE  Max(S) \in S /\ \A y \in S : y <= Max(S)
<1>. DEFINE T == {x..n : x \in S}
<1>0. \A x \in S : x..n \in FiniteSubsetsOf(Int)
  <2>1. ASSUME NEW x \in S
        PROVE  IsFiniteSet(x..n) /\ x..n \in SUBSET Int
    BY FS_Interval
  <2>. QED
    BY <2>1 DEF FiniteSubsetsOf
<1>1. PICK t \in T : \A u \in T : u \subseteq t => u = t
  <2>1. T \in SUBSET FiniteSubsetsOf(Int) /\ T # {}
    BY <1>0
  <2>. HIDE DEF T
  <2>. QED
    BY <2>1, SmallestSegment
<1>2. PICK x \in S : t = x..n
  OBVIOUS
<1>3. ASSUME NEW y \in S, y > x
      PROVE  FALSE
  <2>1. y..n \subseteq x..n /\ x \in x..n /\ x \notin y..n
    BY <1>3
  <2>. QED
    BY <1>1, <1>2, <2>1
<1>4. \A y \in S : x >= y
  BY <1>3
<1>. QED
  BY <1>4 DEF Max

=============================================================================
