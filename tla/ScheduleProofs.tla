----------------------------- MODULE ScheduleProofs -----------------------------
(***************************************************************************)
(* Theorems about the schedule of a release: for any subnets, excluded     *)
(* days, sizes of stages and days on which the release is ready, and       *)
(* whatever is submitted, executed or rejected in which order.  With them  *)
(* comes the type invariant of the four parts together.                    *)
(***************************************************************************)
EXTENDS PlanningProofs

-----------------------------------------------------------------------------
(* The elements of a list that are in a set.                                 *)

IsChosen(f, list, set) ==
    f = [n \in 0..Len(list) |->
           IF n = 0 THEN <<>> ELSE IF list[n] \in set THEN Append(f[n - 1], list[n]) ELSE f[n - 1]]

LEMMA ChosenExists ==
    ASSUME NEW S, NEW list \in Seq(S), NEW set
    PROVE  \E f : f[Len(list)] = Schedules!Chosen(list, set) /\ IsChosen(f, list, set)
<1>. PICK N \in Nat : N = Len(list)
  OBVIOUS
<1>. DEFINE Grown(n, s) == IF n < N /\ list[n + 1] \in set THEN Append(s, list[n + 1]) ELSE s
            step == [n \in Nat |-> [s \in Seq(S) |-> Grown(n, s)]]
<1>1. ASSUME NEW n \in Nat, NEW s \in Seq(S)
      PROVE  Grown(n, s) \in Seq(S)
  <2>1. n < N => list[n + 1] \in S
    OBVIOUS
  <2>2. n < N => Append(s, list[n + 1]) \in Seq(S)
    BY <2>1
  <2>. QED
    BY <2>2
<1>. HIDE DEF Grown
<1>2. step \in [Nat -> [Seq(S) -> Seq(S)]] /\ \A n \in Nat, s \in Seq(S) : step[n][s] = Grown(n, s)
  BY <1>1
<1>. HIDE DEF step
<1>3. <<>> \in Seq(S)
  OBVIOUS
<1>4. BehaviourUpTo(N, Seq(S), <<>>, step) # {}
  BY <1>2, <1>3, RecursionUpTo
<1>. PICK f : f \in BehaviourUpTo(N, Seq(S), <<>>, step)
  BY <1>4
<1>5. f \in [0..N -> Seq(S)] /\ f[0] = <<>> /\ \A n \in 1..N : f[n] = step[n - 1][f[n - 1]]
  BY DEF BehaviourUpTo
<1>6. ASSUME NEW n \in 1..N
      PROVE  f[n] = IF list[n] \in set THEN Append(f[n - 1], list[n]) ELSE f[n - 1]
  <2>. PICK m \in Nat : m = n - 1
    OBVIOUS
  <2>1. m < N /\ m + 1 = n /\ m \in 0..N
    OBVIOUS
  <2>2. f[m] \in Seq(S) /\ f[n] = step[m][f[m]]
    BY <1>5, <2>1
  <2>3. f[n] = Grown(m, f[m])
    BY <1>2, <2>2
  <2>4. f[n] = IF list[m + 1] \in set THEN Append(f[m], list[m + 1]) ELSE f[m]
    BY <2>1, <2>3 DEF Grown
  <2>. QED
    BY <2>1, <2>4
<1>7. \A n \in 0..N : n = 0 \/ n \in 1..N
  OBVIOUS
<1>8. \A n \in 0..N : f[n] = IF n = 0 THEN <<>> ELSE IF list[n] \in set THEN Append(f[n - 1], list[n]) ELSE f[n - 1]
  BY <1>5, <1>6, <1>7
<1>9. f = [n \in 0..N |-> IF n = 0 THEN <<>> ELSE IF list[n] \in set THEN Append(f[n - 1], list[n]) ELSE f[n - 1]]
  BY <1>5, <1>8
<1>10. IsChosen(f, list, set)
  BY <1>9 DEF IsChosen
<1>. DEFINE g == CHOOSE h : IsChosen(h, list, set)
<1>11. IsChosen(g, list, set)
  BY <1>10
<1>12. Schedules!Chosen(list, set) = g[N]
  BY DEF Schedules!Chosen, IsChosen
<1>. QED
  BY <1>11, <1>12

Unrepeated(list) == \A i, j \in 1..Len(list) : i # j => list[i] # list[j]

Filtered(c, n, S, list, set) ==
    /\ c \in Seq(S) /\ Len(c) <= n
    /\ \A k \in 1..Len(c) : \E i \in 1..n : list[i] \in set /\ c[k] = list[i]
    /\ \A i \in 1..n : list[i] \in set => \E k \in 1..Len(c) : c[k] = list[i]
    /\ Unrepeated(list) => Unrepeated(c)

\* The elements that are in the set, no other, as often as they are in the list.
LEMMA ChosenAre ==
    ASSUME NEW S, NEW list \in Seq(S), NEW set
    PROVE  Filtered(Schedules!Chosen(list, set), Len(list), S, list, set)
<1>. PICK N \in Nat : N = Len(list)
  OBVIOUS
<1>. PICK f : f[N] = Schedules!Chosen(list, set) /\ IsChosen(f, list, set)
  BY ChosenExists
<1>1. f = [n \in 0..N |-> IF n = 0 THEN <<>> ELSE IF list[n] \in set THEN Append(f[n - 1], list[n]) ELSE f[n - 1]]
  BY DEF IsChosen
<1>2. f[0] = <<>> /\ \A n \in 1..N : f[n] = IF list[n] \in set THEN Append(f[n - 1], list[n]) ELSE f[n - 1]
  <2>1. 0 \in 0..N /\ \A n \in 1..N : n \in 0..N /\ n # 0
    OBVIOUS
  <2>2. f[0] = <<>>
    BY <1>1, <2>1
  <2>3. ASSUME NEW n \in 1..N
        PROVE  f[n] = IF list[n] \in set THEN Append(f[n - 1], list[n]) ELSE f[n - 1]
    BY <1>1, <2>1
  <2>. QED
    BY <2>2, <2>3
<1>. DEFINE P == {n \in 0..N : Filtered(f[n], n, S, list, set)}
<1>3. 0 \in P
  <2>1. Filtered(<<>>, 0, S, list, set)
    <3>1. Len(<<>>) = 0 /\ 1..0 = {} /\ <<>> \in Seq(S)
      OBVIOUS
    <3>. QED
      BY <3>1 DEF Filtered, Unrepeated
  <2>2. 0 \in 0..N
    OBVIOUS
  <2>. QED
    BY <1>2, <2>1, <2>2
<1>4. ASSUME NEW n \in P, n < N
      PROVE  n + 1 \in P
  <2>1. n + 1 \in 1..N /\ n + 1 \in 0..N /\ n + 1 - 1 = n /\ n \in Nat
    BY <1>4
  <2>. PICK x \in S : x = list[n + 1]
    BY <2>1
  <2>2. PICK c \in Seq(S) : c = f[n] /\ Filtered(c, n, S, list, set)
    BY DEF Filtered
  <2>3. f[n + 1] = IF x \in set THEN Append(c, x) ELSE c
    BY <1>2, <2>1, <2>2
  <2>4. CASE x \in set
    <3>. DEFINE d == Append(c, x)
    <3>1. d \in Seq(S) /\ Len(d) = Len(c) + 1 /\ d[Len(c) + 1] = x /\ \A k \in 1..Len(c) : d[k] = c[k]
      OBVIOUS
    <3>2. \A k \in 1..(Len(c) + 1) : k \in 1..Len(c) \/ k = Len(c) + 1
      OBVIOUS
    <3>. HIDE DEF d
    <3>3. \A k \in 1..Len(d) : \E i \in 1..(n + 1) : list[i] \in set /\ d[k] = list[i]
      BY <2>1, <2>2, <2>4, <3>1, <3>2 DEF Filtered
    <3>4. \A i \in 1..(n + 1) : list[i] \in set => \E k \in 1..Len(d) : d[k] = list[i]
      <4>1. \A i \in 1..(n + 1) : i \in 1..n \/ i = n + 1
        BY <2>1
      <4>2. Len(c) + 1 \in 1..Len(d) /\ \A k \in 1..Len(c) : k \in 1..Len(d)
        BY <3>1
      <4>. QED
        BY <2>2, <3>1, <4>1, <4>2 DEF Filtered
    <3>5. ASSUME Unrepeated(list)
          PROVE  Unrepeated(d)
      <4>1. Unrepeated(c)
        BY <2>2, <3>5 DEF Filtered
      <4>2. ASSUME NEW k \in 1..Len(c)
            PROVE  c[k] # x
        <5>. PICK i \in 1..n : c[k] = list[i]
          BY <2>2 DEF Filtered
        <5>1. i \in 1..N /\ i # n + 1
          BY <1>4
        <5>. QED
          BY <2>1, <3>5, <5>1 DEF Unrepeated
      <4>. QED
        BY <3>1, <3>2, <4>1, <4>2 DEF Unrepeated
    <3>6. Filtered(d, n + 1, S, list, set)
      <4>1. Len(d) <= n + 1
        BY <2>1, <2>2, <3>1 DEF Filtered
      <4>. QED
        BY <3>1, <3>3, <3>4, <3>5, <4>1 DEF Filtered
    <3>. QED
      BY <2>1, <2>3, <2>4, <3>6 DEF d, P
  <2>5. CASE x \notin set
    <3>1. \A i \in 1..(n + 1) : i \in 1..n \/ i = n + 1
      BY <2>1
    <3>2. 1..n \subseteq 1..(n + 1)
      BY <2>1
    <3>3. Filtered(c, n + 1, S, list, set)
      BY <2>1, <2>2, <2>5, <3>1, <3>2 DEF Filtered
    <3>. QED
      BY <2>1, <2>3, <2>5, <3>3
  <2>. QED
    BY <2>4, <2>5
<1>5. P = 0..N
  <2>1. P \in SUBSET (0..N)
    OBVIOUS
  <2>. HIDE DEF P
  <2>. QED
    BY <1>3, <1>4, <2>1, InductionUpTo
<1>6. Filtered(f[N], N, S, list, set)
  <2>1. N \in 0..N
    OBVIOUS
  <2>. QED
    BY <1>5, <2>1
<1>. QED
  BY <1>6

-----------------------------------------------------------------------------
(* The sum of a list of numbers.                                             *)

IsSum(t, s) == t = [n \in 0..Len(s) |-> IF n = 0 THEN 0 ELSE t[n - 1] + s[n]]

\* The sums of the first n, for every n.
Sums(s) == CHOOSE t : IsSum(t, s)

Total(s) == Sums(s)[Len(s)]

LEMMA SumsExist ==
    ASSUME NEW s \in Seq(Nat)
    PROVE  /\ IsSum(Sums(s), s) /\ Sums(s) \in [0..Len(s) -> Nat] /\ Total(s) \in Nat
           /\ Sums(s)[0] = 0 /\ \A n \in 1..Len(s) : Sums(s)[n] = Sums(s)[n - 1] + s[n]
<1>. PICK N \in Nat : N = Len(s)
  OBVIOUS
<1>. DEFINE step == [n \in Nat |-> [x \in Nat |-> IF n < N THEN x + s[n + 1] ELSE x]]
<1>1. step \in [Nat -> [Nat -> Nat]] /\ \A n \in Nat, x \in Nat : step[n][x] = IF n < N THEN x + s[n + 1] ELSE x
  <2>1. ASSUME NEW n \in Nat, NEW x \in Nat
        PROVE  (IF n < N THEN x + s[n + 1] ELSE x) \in Nat
    <3>1. n < N => s[n + 1] \in Nat
      OBVIOUS
    <3>. QED
      BY <3>1
  <2>. QED
    BY <2>1
<1>. HIDE DEF step
<1>2. BehaviourUpTo(N, Nat, 0, step) # {}
  BY <1>1, RecursionUpTo
<1>. PICK f : f \in BehaviourUpTo(N, Nat, 0, step)
  BY <1>2
<1>3. f \in [0..N -> Nat] /\ f[0] = 0 /\ \A n \in 1..N : f[n] = step[n - 1][f[n - 1]]
  BY DEF BehaviourUpTo
<1>4. ASSUME NEW n \in 1..N
      PROVE  f[n] = f[n - 1] + s[n]
  <2>. PICK m \in Nat : m = n - 1
    OBVIOUS
  <2>1. m < N /\ m + 1 = n /\ m \in 0..N
    OBVIOUS
  <2>2. f[m] \in Nat /\ f[n] = step[m][f[m]]
    BY <1>3, <2>1
  <2>3. f[n] = f[m] + s[m + 1]
    BY <1>1, <2>1, <2>2
  <2>. QED
    BY <2>1, <2>3
<1>5. \A n \in 0..N : n = 0 \/ n \in 1..N
  OBVIOUS
<1>6. \A n \in 0..N : f[n] = IF n = 0 THEN 0 ELSE f[n - 1] + s[n]
  BY <1>3, <1>4, <1>5
<1>7. IsSum(f, s)
  BY <1>3, <1>6 DEF IsSum
<1>8. IsSum(Sums(s), s)
  BY <1>7 DEF Sums
<1>. DEFINE t == Sums(s)
<1>9. t = [n \in 0..N |-> IF n = 0 THEN 0 ELSE t[n - 1] + s[n]]
  BY <1>8 DEF IsSum
<1>. HIDE DEF t
<1>10. t[0] = 0 /\ \A n \in 1..N : t[n] = t[n - 1] + s[n]
  <2>1. 0 \in 0..N /\ \A n \in 1..N : n \in 0..N /\ n # 0
    OBVIOUS
  <2>2. t[0] = 0
    BY <1>9, <2>1
  <2>3. ASSUME NEW n \in 1..N
        PROVE  t[n] = t[n - 1] + s[n]
    BY <1>9, <2>1
  <2>. QED
    BY <2>2, <2>3
<1>. DEFINE P == {n \in 0..N : t[n] \in Nat}
<1>11. P = 0..N
  <2>1. P \in SUBSET (0..N) /\ 0 \in P
    BY <1>10
  <2>2. ASSUME NEW n \in P, n < N
        PROVE  n + 1 \in P
    <3>1. n + 1 \in 1..N /\ n + 1 \in 0..N /\ n + 1 - 1 = n /\ t[n] \in Nat
      BY <2>2
    <3>2. t[n + 1] = t[n] + s[n + 1] /\ s[n + 1] \in Nat
      BY <1>10, <3>1
    <3>. QED
      BY <3>1, <3>2
  <2>. HIDE DEF P
  <2>. QED
    BY <2>1, <2>2, InductionUpTo
<1>12. t \in [0..N -> Nat]
  BY <1>9, <1>11
<1>13. t[N] \in Nat
  BY <1>12
<1>. QED
  BY <1>8, <1>10, <1>12, <1>13 DEF t, Total

\* There is one function of that kind.
LEMMA SumsAgree ==
    ASSUME NEW s \in Seq(Nat), NEW f, f[0] = 0, \A n \in 1..Len(s) : f[n] = f[n - 1] + s[n]
    PROVE  \A n \in 0..Len(s) : f[n] = Sums(s)[n]
<1>. PICK N \in Nat : N = Len(s)
  OBVIOUS
<1>. DEFINE t == Sums(s)
<1>1. t[0] = 0 /\ \A n \in 1..N : t[n] = t[n - 1] + s[n]
  BY SumsExist
<1>. HIDE DEF t
<1>. DEFINE P == {n \in 0..N : f[n] = t[n]}
<1>2. P = 0..N
  <2>1. P \in SUBSET (0..N) /\ 0 \in P
    BY <1>1
  <2>2. ASSUME NEW n \in P, n < N
        PROVE  n + 1 \in P
    <3>1. n + 1 \in 1..N /\ n + 1 \in 0..N /\ n + 1 - 1 = n /\ f[n] = t[n]
      BY <2>2
    <3>2. t[n + 1] = t[n] + s[n + 1] /\ f[n + 1] = f[n] + s[n + 1]
      BY <1>1, <3>1
    <3>. QED
      BY <3>1, <3>2
  <2>. HIDE DEF P
  <2>. QED
    BY <2>1, <2>2, InductionUpTo
<1>. QED
  BY <1>2 DEF t

LEMMA SumsGrow ==
    ASSUME NEW s \in Seq(Nat)
    PROVE  \A n \in 0..Len(s) : \A m \in 0..n : Sums(s)[m] <= Sums(s)[n]
<1>. PICK N \in Nat : N = Len(s)
  OBVIOUS
<1>. DEFINE t == Sums(s)
            P == {n \in 0..N : \A m \in 0..n : t[m] <= t[n]}
<1>1. t[0] = 0 /\ t \in [0..N -> Nat] /\ \A n \in 1..N : t[n] = t[n - 1] + s[n]
  BY SumsExist
<1>. HIDE DEF t
<1>2. P = 0..N
  <2>1. P \in SUBSET (0..N) /\ 0 \in P
    <3>1. \A m \in 0..0 : m = 0
      OBVIOUS
    <3>. QED
      BY <1>1, <3>1
  <2>2. ASSUME NEW n \in P, n < N
        PROVE  n + 1 \in P
    <3>1. n + 1 \in 1..N /\ n + 1 \in 0..N /\ n + 1 - 1 = n
      BY <2>2
    <3>2. t[n + 1] = t[n] + s[n + 1] /\ s[n + 1] \in Nat
      BY <1>1, <3>1
    <3>. PICK x \in Nat : x = t[n]
      BY <1>1, n \in 0..N
    <3>. PICK y \in Nat : y = t[n + 1]
      BY <3>2
    <3>3. ASSUME NEW m \in 0..(n + 1)
          PROVE  t[m] <= t[n + 1]
      <4>1. CASE m = n + 1
        <5>1. y <= y
          OBVIOUS
        <5>. QED
          BY <4>1, <5>1
      <4>2. CASE m \in 0..n
        <5>1. t[m] <= t[n] /\ t[m] \in Nat
          <6>1. m \in 0..N
            BY <4>2, n \in 0..N
          <6>. QED
            BY <1>1, <4>2, <6>1
        <5>. QED
          BY <3>2, <5>1
      <4>. QED
        BY <4>1, <4>2
    <3>. QED
      BY <3>1, <3>3
  <2>. HIDE DEF P
  <2>. QED
    BY <2>1, <2>2, InductionUpTo
<1>. QED
  BY <1>2 DEF t

LEMMA TotalOfNone == Total(<<>>) = 0
<1>1. <<>> \in Seq(Nat) /\ Len(<<>>) = 0
  OBVIOUS
<1>2. Sums(<<>>)[0] = 0
  BY <1>1, SumsExist
<1>. QED
  BY <1>1, <1>2 DEF Total

LEMMA TotalOfBoth ==
    ASSUME NEW s \in Seq(Nat), NEW u \in Seq(Nat)
    PROVE  Total(s \o u) = Total(s) + Total(u)
<1>. PICK N \in Nat : N = Len(s)
  OBVIOUS
<1>. PICK M \in Nat : M = Len(u)
  OBVIOUS
<1>. DEFINE w == s \o u
            a == Sums(s)
            b == Sums(u)
            f == [n \in 0..(N + M) |-> IF n <= N THEN a[n] ELSE a[N] + b[n - N]]
<1>1. w \in Seq(Nat) /\ Len(w) = N + M /\ (\A n \in 1..N : w[n] = s[n]) /\ \A n \in 1..M : w[N + n] = u[n]
  <2>1. w \in Seq(Nat) /\ Len(w) = N + M
    BY ConcatProperties
  <2>2. ASSUME NEW n \in 1..N
        PROVE  w[n] = s[n]
    BY ConcatProperties
  <2>3. ASSUME NEW n \in 1..M
        PROVE  w[N + n] = u[n]
    <3>1. N + n \in 1..(N + M) /\ N + n > N /\ N + n - N = n
      OBVIOUS
    <3>2. w[N + n] = IF N + n <= Len(s) THEN s[N + n] ELSE u[N + n - Len(s)]
      BY <3>1, ConcatProperties
    <3>. QED
      BY <3>1, <3>2
  <2>. QED
    BY <2>1, <2>2, <2>3
<1>. HIDE DEF w
<1>2. /\ a[0] = 0 /\ a \in [0..N -> Nat] /\ \A n \in 1..N : a[n] = a[n - 1] + s[n]
      /\ b[0] = 0 /\ b \in [0..M -> Nat] /\ \A n \in 1..M : b[n] = b[n - 1] + u[n]
  BY SumsExist
<1>. HIDE DEF a, b
<1>3. f[0] = 0
  BY <1>2
<1>4. ASSUME NEW n \in 1..Len(w)
      PROVE  f[n] = f[n - 1] + w[n]
  <2>1. n \in 0..(N + M) /\ n - 1 \in 0..(N + M)
    BY <1>1
  <2>2. CASE n <= N
    <3>1. n \in 1..N /\ n - 1 <= N
      BY <2>2
    <3>2. f[n] = a[n] /\ f[n - 1] = a[n - 1]
      BY <2>1, <2>2, <3>1
    <3>. QED
      BY <1>1, <1>2, <3>1, <3>2
  <2>3. CASE n > N
    <3>. PICK k \in 1..M : n = N + k
      <4>1. n - N \in 1..M /\ n = N + (n - N)
        BY <2>1, <2>3
      <4>. QED
        BY <4>1
    <3>1. f[n] = a[N] + b[k]
      BY <2>1, <2>3
    <3>2. b[k] = b[k - 1] + u[k] /\ w[n] = u[k] /\ b[k - 1] \in Nat /\ u[k] \in Nat /\ a[N] \in Nat
      <4>1. k - 1 \in 0..M /\ N \in 0..N
        OBVIOUS
      <4>2. b[k - 1] \in Nat /\ a[N] \in Nat
        BY <1>2, <4>1
      <4>3. u[k] \in Nat
        OBVIOUS
      <4>4. b[k] = b[k - 1] + u[k]
        BY <1>2
      <4>5. w[n] = u[k]
        BY <1>1
      <4>. QED
        BY <4>2, <4>3, <4>4, <4>5
    <3>3. f[n - 1] = a[N] + b[k - 1]
      <4>1. CASE k = 1
        <5>1. n - 1 = N /\ k - 1 = 0
          BY <4>1
        <5>2. f[n - 1] = a[N]
          BY <2>1, <5>1
        <5>. QED
          BY <1>2, <3>2, <5>1, <5>2
      <4>2. CASE k # 1
        <5>1. n - 1 > N /\ n - 1 - N = k - 1
          BY <4>2
        <5>. QED
          BY <2>1, <5>1
      <4>. QED
        BY <4>1, <4>2
    <3>. QED
      BY <3>1, <3>2, <3>3
  <2>. QED
    BY <2>1, <2>2, <2>3
<1>5. f[N + M] = a[N] + b[M]
  <2>1. N + M \in 0..(N + M)
    OBVIOUS
  <2>2. CASE M = 0
    <3>1. N + M <= N /\ N + M = N
      BY <2>2
    <3>2. a[N] \in Nat
      BY <1>2, N \in 0..N
    <3>. QED
      BY <1>2, <2>1, <2>2, <3>1, <3>2
  <2>3. CASE M # 0
    <3>1. ~(N + M <= N) /\ N + M - N = M
      BY <2>3
    <3>. QED
      BY <2>1, <3>1
  <2>. QED
    BY <2>2, <2>3
<1>. HIDE DEF f
<1>6. \A n \in 0..Len(w) : f[n] = Sums(w)[n]
  BY <1>1, <1>3, <1>4, SumsAgree
<1>7. Sums(w)[N + M] = a[N] + b[M]
  <2>1. N + M \in 0..Len(w)
    BY <1>1
  <2>. QED
    BY <1>5, <1>6, <2>1
<1>. QED
  BY <1>1, <1>7 DEF Total, a, b, w

LEMMA TotalOfOne ==
    ASSUME NEW x \in Nat
    PROVE  Total(<<x>>) = x
<1>. DEFINE s == <<x>>
<1>1. s \in Seq(Nat) /\ Len(s) = 1 /\ s[1] = x
  OBVIOUS
<1>. HIDE DEF s
<1>2. Sums(s)[0] = 0 /\ Sums(s)[1] = Sums(s)[1 - 1] + s[1]
  BY <1>1, SumsExist
<1>3. Sums(s)[1] = x
  BY <1>1, <1>2
<1>. QED
  BY <1>1, <1>3 DEF Total, s

LEMMA TotalOfMore ==
    ASSUME NEW s \in Seq(Nat), NEW x \in Nat
    PROVE  Total(Append(s, x)) = Total(s) + x
<1>1. Append(s, x) = s \o <<x>> /\ <<x>> \in Seq(Nat)
  OBVIOUS
<1>. QED
  BY <1>1, TotalOfBoth, TotalOfOne

\* One of the numbers grows.
LEMMA TotalGrows ==
    ASSUME NEW s \in Seq(Nat), NEW i \in 1..Len(s), NEW x \in Nat
    PROVE  Total([s EXCEPT ![i] = s[i] + x]) = Total(s) + x
<1>. PICK N \in Nat : N = Len(s)
  OBVIOUS
<1>. DEFINE w == [s EXCEPT ![i] = s[i] + x]
            a == Sums(s)
            f == [n \in 0..N |-> a[n] + IF n < i THEN 0 ELSE x]
<1>1. w \in Seq(Nat) /\ Len(w) = N /\ \A n \in 1..N : w[n] = IF n = i THEN s[n] + x ELSE s[n]
  <2>1. s \in [1..N -> Nat]
    OBVIOUS
  <2>2. s[i] + x \in Nat
    OBVIOUS
  <2>3. w \in [1..N -> Nat] /\ \A n \in 1..N : w[n] = IF n = i THEN s[n] + x ELSE s[n]
    BY <2>1, <2>2
  <2>. HIDE DEF w
  <2>4. w \in Seq(Nat) /\ Len(w) = N
    <3>1. w \in Seq(Nat)
      BY <2>3, IsASeq
    <3>2. DOMAIN w = 1..N /\ DOMAIN w = 1..Len(w) /\ Len(w) \in Nat
      BY <2>3, <3>1
    <3>. QED
      BY <3>1, <3>2
  <2>. QED
    BY <2>3, <2>4
<1>. HIDE DEF w
<1>2. a[0] = 0 /\ a \in [0..N -> Nat] /\ \A n \in 1..N : a[n] = a[n - 1] + s[n]
  BY SumsExist
<1>. HIDE DEF a
<1>3. f[0] = 0
  BY <1>2
<1>4. ASSUME NEW n \in 1..Len(w)
      PROVE  f[n] = f[n - 1] + w[n]
  <2>1. n \in 1..N /\ n \in 0..N /\ n - 1 \in 0..N
    BY <1>1
  <2>2. a[n] = a[n - 1] + s[n] /\ a[n - 1] \in Nat /\ s[n] \in Nat /\ a[n] \in Nat
    <3>1. a[n - 1] \in Nat /\ a[n] \in Nat
      BY <1>2, <2>1
    <3>2. s[n] \in Nat
      BY <2>1
    <3>3. a[n] = a[n - 1] + s[n]
      BY <1>2, <2>1
    <3>. QED
      BY <3>1, <3>2, <3>3
  <2>3. f[n] = (a[n] + IF n < i THEN 0 ELSE x) /\ f[n - 1] = (a[n - 1] + IF n - 1 < i THEN 0 ELSE x)
    BY <2>1
  <2>4. w[n] = IF n = i THEN s[n] + x ELSE s[n]
    BY <1>1, <2>1
  <2>. HIDE DEF f
  <2>. QED
    BY <2>1, <2>2, <2>3, <2>4
<1>5. f[N] = a[N] + x
  OBVIOUS
<1>. HIDE DEF f
<1>6. \A n \in 0..Len(w) : f[n] = Sums(w)[n]
  BY <1>1, <1>3, <1>4, SumsAgree
<1>7. Sums(w)[N] = a[N] + x
  BY <1>1, <1>5, <1>6
<1>. QED
  BY <1>1, <1>7 DEF Total, a, w

-----------------------------------------------------------------------------
(* The loop that sizes the stages.                                           *)

LEMMA SchedulesOperators ==
    ASSUME NEW S
    PROVE  Schedules!Cardinality(S) = Cardinality(S) /\ Schedules!Min(S) = Min(S) /\ Schedules!Max(S) = Max(S)
  BY DEF Schedules!Cardinality, Cardinality, Schedules!Min, Min, Schedules!Max, Max

SubnetCount == Len(Scheduled)

StageSizes == Seq(1..MaxStageSize)

AreLimits(limits, m) == limits \in [1..m -> [0..SubnetCount -> 1..MaxStageSize]]

\* What is left, and the sizes of the stages of m days.
Plan(m) == [left : Nat, sizes : [1..m -> StageSizes]]

Rows(sizes, m) == [i \in 1..m |-> Total(sizes[i])]

\* What is planned and what is left is everything.
Complete(m, count, a) == a \in Plan(m) /\ Total(Rows(a.sizes, m)) + a.left = count

LEMMA RowsType ==
    ASSUME NEW m \in Nat, NEW sizes \in [1..m -> StageSizes], MaxStageSize \in Nat \ {0}
    PROVE  /\ Rows(sizes, m) \in Seq(Nat) /\ Len(Rows(sizes, m)) = m
           /\ \A i \in 1..m : sizes[i] \in Seq(Nat)
<1>1. 1..MaxStageSize \subseteq Nat
  OBVIOUS
<1>2. \A i \in 1..m : sizes[i] \in Seq(Nat)
  BY <1>1, SeqMonotonic DEF StageSizes
<1>3. \A i \in 1..m : Total(sizes[i]) \in Nat
  BY <1>2, SumsExist
<1>4. Rows(sizes, m) \in [1..m -> Nat]
  BY <1>3 DEF Rows
<1>. DEFINE r == Rows(sizes, m)
<1>. HIDE DEF r
<1>5. r \in [1..m -> Nat]
  BY <1>4 DEF r
<1>6. r \in Seq(Nat) /\ Len(r) = m
  <2>1. r \in Seq(Nat)
    BY <1>5
  <2>2. DOMAIN r = 1..m /\ DOMAIN r = 1..Len(r) /\ Len(r) \in Nat
    BY <1>5, <2>1
  <2>. QED
    BY <2>1, <2>2
<1>. QED
  BY <1>2, <1>6 DEF r

\* What a stage of day i does to a plan.
PlaceDone(m, count, a, i, least, overhead, b) ==
    /\ b \in Plan(m) /\ (Complete(m, count, a) => Complete(m, count, b))
    /\ \A j \in 1..m : j # i => b.sizes[j] = a.sizes[j]
    /\ b.left <= a.left /\ Len(b.sizes[i]) <= Len(a.sizes[i]) + 1
    /\ overhead + Len(a.sizes[i]) <= least /\ a.left > 0 => b.left < a.left

LEMMA PlaceOne ==
    ASSUME MaxStageSize \in Nat \ {0}, NEW m \in Nat, NEW count \in Nat, NEW a \in Plan(m), NEW i \in 1..m, NEW least \in Nat,
           NEW overhead \in Nat, NEW limit \in [0..SubnetCount -> 1..MaxStageSize], Len(a.sizes[i]) \in 0..SubnetCount,
           NEW b, b = Schedules!Place(a, i, least, overhead, limit)
    PROVE  PlaceDone(m, count, a, i, least, overhead, b)
<1>. DEFINE size == Min({limit[Len(a.sizes[i])], a.left})
<1>1. /\ a.left \in Nat /\ a.sizes \in [1..m -> StageSizes] /\ a.sizes[i] \in StageSizes
      /\ Len(a.sizes[i]) \in Nat
  <2>1. a.left \in Nat /\ a.sizes \in [1..m -> StageSizes]
    BY DEF Plan
  <2>2. a.sizes[i] \in StageSizes
    BY <2>1
  <2>. QED
    BY <2>1, <2>2
<1>2. b = IF overhead + Len(a.sizes[i]) > least \/ a.left = 0 THEN a
          ELSE [left |-> a.left - size, sizes |-> [a.sizes EXCEPT ![i] = Append(a.sizes[i], size)]]
  BY SchedulesOperators DEF Schedules!Place
<1>3. CASE overhead + Len(a.sizes[i]) > least \/ a.left = 0
  <2>1. b = a
    BY <1>2, <1>3
  <2>2. ~(overhead + Len(a.sizes[i]) <= least /\ a.left > 0)
    BY <1>1, <1>3
  <2>. QED
    BY <1>1, <2>1, <2>2 DEF PlaceDone
<1>4. CASE ~(overhead + Len(a.sizes[i]) > least \/ a.left = 0)
  <2>1. size \in 1..MaxStageSize /\ size <= a.left
    <3>. PICK x \in 1..MaxStageSize : x = limit[Len(a.sizes[i])]
      OBVIOUS
    <3>. PICK y \in Nat : y = a.left
      BY <1>1
    <3>1. y > 0
      BY <1>4
    <3>2. {x, y} \in SUBSET Nat /\ {x, y} # {}
      OBVIOUS
    <3>3. Min({x, y}) \in {x, y} /\ Min({x, y}) <= x /\ Min({x, y}) <= y
      BY <3>2, MinType
    <3>. QED
      BY <3>1, <3>3
  <2>. HIDE DEF size
  <2>. DEFINE row == Append(a.sizes[i], size)
              grown == [a.sizes EXCEPT ![i] = row]
  <2>2. row \in StageSizes /\ Len(row) = Len(a.sizes[i]) + 1
    BY <1>1, <2>1 DEF StageSizes
  <2>3. grown \in [1..m -> StageSizes] /\ grown[i] = row /\ \A j \in 1..m : j # i => grown[j] = a.sizes[j]
    <3>. HIDE DEF row
    <3>. QED
      BY <1>1, <2>2
  <2>4. a.left - size \in Nat /\ a.left - size < a.left
    BY <1>1, <2>1
  <2>5. b = [left |-> a.left - size, sizes |-> grown]
    BY <1>2, <1>4
  <2>6. b.left = a.left - size /\ b.sizes = grown /\ b \in Plan(m)
    BY <2>3, <2>4, <2>5 DEF Plan
  <2>7. Total(Rows(grown, m)) = Total(Rows(a.sizes, m)) + size
    <3>. DEFINE r == Rows(a.sizes, m)
    <3>1. r \in Seq(Nat) /\ Len(r) = m /\ a.sizes[i] \in Seq(Nat)
      BY <1>1, RowsType
    <3>2. Total(row) = Total(a.sizes[i]) + size
      BY <2>1, <3>1, TotalOfMore
    <3>3. r = [j \in 1..m |-> Total(a.sizes[j])]
      BY DEF Rows
    <3>4. Rows(grown, m) = [r EXCEPT ![i] = r[i] + size]
      <4>1. Rows(grown, m) = [j \in 1..m |-> Total(grown[j])]
        BY DEF Rows
      <4>2. \A j \in 1..m : Total(grown[j]) = IF j = i THEN Total(a.sizes[i]) + size ELSE Total(a.sizes[j])
        <5>. HIDE DEF grown, row
        <5>. QED
          BY <2>3, <3>2
      <4>. HIDE DEF grown, r
      <4>. QED
        BY <3>3, <4>1, <4>2
    <3>. HIDE DEF r, grown
    <3>5. size \in Nat /\ i \in 1..Len(r)
      BY <2>1, <3>1
    <3>. QED
      BY <3>1, <3>4, <3>5, TotalGrows DEF r
  <2>8. Complete(m, count, a) => Complete(m, count, b)
    <3>. DEFINE t == Total(Rows(a.sizes, m))
    <3>1. t \in Nat
      BY <1>1, RowsType, SumsExist
    <3>. PICK y \in Nat : y = a.left
      BY <1>1
    <3>2. Total(Rows(b.sizes, m)) = t + size
      BY <2>6, <2>7
    <3>. HIDE DEF t
    <3>3. t + y = count => t + size + (y - size) = count
      BY <2>1, <3>1
    <3>. QED
      BY <2>6, <3>2, <3>3 DEF Complete, t
  <2>. HIDE DEF grown, row
  <2>. QED
    BY <1>1, <2>2, <2>3, <2>4, <2>6, <2>8 DEF PlaceDone
<1>. QED
  BY <1>3, <1>4

IsRound(f, m, a, least, overheads, limits) ==
    f = [n \in 0..m |-> IF n = 0 THEN a
                        ELSE Schedules!Place(f[n - 1], m + 1 - n, least, overheads[m + 1 - n], limits[m + 1 - n])]

\* What a round has done when it has been to the last n days.
RoundDone(m, count, a, least, overheads, b, n) ==
    /\ b \in Plan(m) /\ (Complete(m, count, a) => Complete(m, count, b))
    /\ \A j \in 1..m : j < m + 1 - n => b.sizes[j] = a.sizes[j]
    /\ \A j \in 1..m : Len(b.sizes[j]) <= Len(a.sizes[j]) + 1
    /\ b.left <= a.left
    /\ \A j \in 1..m : j >= m + 1 - n /\ overheads[j] + Len(a.sizes[j]) <= least /\ a.left > 0 => b.left < a.left

LEMMA RoundGoesOn ==
    ASSUME MaxStageSize \in Nat \ {0}, NEW m \in Nat, NEW count \in Nat, NEW a \in Plan(m), NEW least \in Nat,
           NEW overheads \in [1..m -> Nat], NEW limits \in [1..m -> [0..SubnetCount -> 1..MaxStageSize]],
           \A j \in 1..m : Len(a.sizes[j]) \in 0..SubnetCount,
           NEW n \in 0..m, n < m, NEW b \in Plan(m), RoundDone(m, count, a, least, overheads, b, n),
           NEW c, c = Schedules!Place(b, m - n, least, overheads[m - n], limits[m - n])
    PROVE  Len(b.sizes[m - n]) \in 0..SubnetCount /\ RoundDone(m, count, a, least, overheads, c, n + 1)
<1>. PICK i \in 1..m : i = m - n
  OBVIOUS
<1>1. i < m + 1 - n /\ m + 1 - (n + 1) = i
  OBVIOUS
<1>2. /\ (Complete(m, count, a) => Complete(m, count, b))
      /\ \A j \in 1..m : j < m + 1 - n => b.sizes[j] = a.sizes[j]
      /\ \A j \in 1..m : Len(b.sizes[j]) <= Len(a.sizes[j]) + 1
      /\ b.left <= a.left
      /\ \A j \in 1..m : j >= m + 1 - n /\ overheads[j] + Len(a.sizes[j]) <= least /\ a.left > 0 => b.left < a.left
  BY DEF RoundDone
<1>3. b.sizes[i] = a.sizes[i] /\ Len(b.sizes[i]) \in 0..SubnetCount
  BY <1>1, <1>2
<1>4. overheads[i] \in Nat /\ limits[i] \in [0..SubnetCount -> 1..MaxStageSize]
  OBVIOUS
<1>5. /\ c \in Plan(m) /\ (Complete(m, count, b) => Complete(m, count, c))
      /\ \A j \in 1..m : j # i => c.sizes[j] = b.sizes[j]
      /\ c.left <= b.left /\ Len(c.sizes[i]) <= Len(b.sizes[i]) + 1
      /\ overheads[i] + Len(b.sizes[i]) <= least /\ b.left > 0 => c.left < b.left
  <2>. PICK overhead \in Nat : overhead = overheads[i]
    BY <1>4
  <2>. PICK limit \in [0..SubnetCount -> 1..MaxStageSize] : limit = limits[i]
    BY <1>4
  <2>1. c = Schedules!Place(b, i, least, overhead, limit)
    OBVIOUS
  <2>2. PlaceDone(m, count, b, i, least, overhead, c)
    BY <1>3, <2>1, PlaceOne
  <2>. QED
    BY <2>2 DEF PlaceDone
<1>6. a.left \in Nat /\ b.left \in Nat /\ c.left \in Nat
  BY <1>5 DEF Plan
<1>7. c.left <= a.left
  BY <1>2, <1>5, <1>6
<1>8. ASSUME NEW j \in 1..m, j < i
      PROVE  c.sizes[j] = a.sizes[j]
  <2>1. j < m + 1 - n /\ j # i
    BY <1>8
  <2>. QED
    BY <1>2, <1>5, <2>1
<1>9. ASSUME NEW j \in 1..m
      PROVE  Len(c.sizes[j]) <= Len(a.sizes[j]) + 1
  BY <1>2, <1>3, <1>5
<1>10. ASSUME NEW j \in 1..m, j >= i, overheads[j] + Len(a.sizes[j]) <= least, a.left > 0
       PROVE  c.left < a.left
  <2>1. CASE j = i
    <3>1. CASE b.left > 0
      <4>1. c.left < b.left
        BY <1>3, <1>5, <1>10, <2>1, <3>1
      <4>. QED
        BY <1>2, <1>6, <4>1
    <3>2. CASE ~(b.left > 0)
      BY <1>5, <1>6, <1>10, <3>2
    <3>. QED
      BY <3>1, <3>2
  <2>2. CASE j # i
    <3>1. j >= m + 1 - n
      BY <1>10, <2>2
    <3>2. b.left < a.left
      BY <1>2, <1>10, <3>1
    <3>. QED
      BY <1>5, <1>6, <3>2
  <2>. QED
    BY <2>1, <2>2
<1>11. RoundDone(m, count, a, least, overheads, c, n + 1)
  BY <1>1, <1>2, <1>5, <1>7, <1>8, <1>9, <1>10 DEF RoundDone
<1>. QED
  BY <1>3, <1>11

LEMMA OneRound ==
    ASSUME MaxStageSize \in Nat \ {0}, NEW m \in Nat, NEW count \in Nat, NEW a \in Plan(m), NEW least \in Nat,
           NEW overheads \in Seq(Nat), Len(overheads) = m, NEW limits \in [1..m -> [0..SubnetCount -> 1..MaxStageSize]],
           \A j \in 1..m : Len(a.sizes[j]) \in 0..SubnetCount
    PROVE  RoundDone(m, count, a, least, overheads, Schedules!Round(a, least, overheads, limits), m)
<1>0. overheads \in [1..m -> Nat]
  OBVIOUS
<1>. DEFINE Placed(n, b) == IF n < m /\ RoundDone(m, count, a, least, overheads, b, n)
                            THEN Schedules!Place(b, m - n, least, overheads[m - n], limits[m - n]) ELSE b
            step == [n \in Nat |-> [b \in Plan(m) |-> Placed(n, b)]]
<1>1. ASSUME NEW n \in Nat, NEW b \in Plan(m)
      PROVE  Placed(n, b) \in Plan(m)
  <2>1. CASE n < m /\ RoundDone(m, count, a, least, overheads, b, n)
    <3>. PICK c : c = Schedules!Place(b, m - n, least, overheads[m - n], limits[m - n])
      OBVIOUS
    <3>1. n \in 0..m
      BY <2>1
    <3>2. RoundDone(m, count, a, least, overheads, c, n + 1)
      BY <1>0, <2>1, <3>1, RoundGoesOn
    <3>. QED
      BY <2>1, <3>2 DEF RoundDone
  <2>. QED
    BY <2>1
<1>. HIDE DEF Placed
<1>2. step \in [Nat -> [Plan(m) -> Plan(m)]] /\ \A n \in Nat, b \in Plan(m) : step[n][b] = Placed(n, b)
  BY <1>1
<1>. HIDE DEF step
<1>3. BehaviourUpTo(m, Plan(m), a, step) # {}
  BY <1>2, RecursionUpTo
<1>. PICK f : f \in BehaviourUpTo(m, Plan(m), a, step)
  BY <1>3
<1>4. f \in [0..m -> Plan(m)] /\ f[0] = a /\ \A n \in 1..m : f[n] = step[n - 1][f[n - 1]]
  BY DEF BehaviourUpTo
<1>. DEFINE P == {n \in 0..m : RoundDone(m, count, a, least, overheads, f[n], n)}
<1>5. ASSUME NEW n \in P, n < m
      PROVE  /\ n + 1 \in P
             /\ f[n + 1] = Schedules!Place(f[n], m - n, least, overheads[m - n], limits[m - n])
  <2>1. n \in 0..m /\ n + 1 \in 1..m /\ n + 1 \in 0..m /\ n + 1 - 1 = n /\ n \in Nat
    BY <1>5
  <2>. PICK b \in Plan(m) : b = f[n]
    BY <1>4, <2>1
  <2>2. RoundDone(m, count, a, least, overheads, b, n)
    OBVIOUS
  <2>3. f[n + 1] = Placed(n, b)
    BY <1>2, <1>4, <2>1
  <2>4. f[n + 1] = Schedules!Place(b, m - n, least, overheads[m - n], limits[m - n])
    BY <1>5, <2>2, <2>3 DEF Placed
  <2>5. RoundDone(m, count, a, least, overheads, f[n + 1], n + 1)
    BY <1>0, <1>5, <2>1, <2>2, <2>4, RoundGoesOn
  <2>. QED
    BY <2>1, <2>4, <2>5
<1>6. P = 0..m
  <2>1. RoundDone(m, count, a, least, overheads, a, 0)
    <3>1. a.left \in Nat /\ \A j \in 1..m : ~(j >= m + 1 - 0) /\ Len(a.sizes[j]) \in Nat
      BY DEF Plan
    <3>. QED
      BY <3>1 DEF RoundDone
  <2>2. P \in SUBSET (0..m) /\ 0 \in P
    BY <1>4, <2>1
  <2>3. \A n \in P : n < m => n + 1 \in P
    BY <1>5
  <2>. HIDE DEF P
  <2>. QED
    BY <2>2, <2>3, InductionUpTo
<1>7. ASSUME NEW n \in 1..m
      PROVE  f[n] = Schedules!Place(f[n - 1], m + 1 - n, least, overheads[m + 1 - n], limits[m + 1 - n])
  <2>. PICK k \in 0..m : k = n - 1
    OBVIOUS
  <2>1. k \in P /\ k < m /\ k + 1 = n /\ m - k = m + 1 - n
    BY <1>6
  <2>. HIDE DEF P
  <2>. QED
    BY <1>5, <2>1
<1>8. \A n \in 0..m : n = 0 \/ n \in 1..m
  OBVIOUS
<1>9. IsRound(f, m, a, least, overheads, limits)
  <2>1. \A n \in 0..m : f[n] = IF n = 0 THEN a
                  ELSE Schedules!Place(f[n - 1], m + 1 - n, least, overheads[m + 1 - n], limits[m + 1 - n])
    BY <1>4, <1>7, <1>8
  <2>. QED
    BY <1>4, <2>1 DEF IsRound
<1>. DEFINE g == CHOOSE h : IsRound(h, m, a, least, overheads, limits)
<1>10. IsRound(g, m, a, least, overheads, limits)
  BY <1>9
<1>11. Schedules!Round(a, least, overheads, limits) = g[m]
  BY DEF Schedules!Round, IsRound
<1>. HIDE DEF g
<1>12. g = f
  <2>1. g = [n \in 0..m |-> IF n = 0 THEN a
                  ELSE Schedules!Place(g[n - 1], m + 1 - n, least, overheads[m + 1 - n], limits[m + 1 - n])]
    BY <1>10 DEF IsRound
  <2>. DEFINE Q == {n \in 0..m : g[n] = f[n]}
  <2>2. 0 \in Q
    <3>1. 0 \in 0..m
      OBVIOUS
    <3>. QED
      BY <1>4, <2>1, <3>1
  <2>3. ASSUME NEW n \in Q, n < m
        PROVE  n + 1 \in Q
    <3>1. n + 1 \in 0..m /\ n + 1 \in 1..m /\ n + 1 # 0 /\ n + 1 - 1 = n /\ g[n] = f[n]
      BY <2>3
    <3>. PICK k \in 1..m : k = n + 1
      BY <3>1
    <3>2. g[k] = Schedules!Place(g[k - 1], m + 1 - k, least, overheads[m + 1 - k], limits[m + 1 - k])
      BY <2>1, <3>1
    <3>3. f[k] = Schedules!Place(f[k - 1], m + 1 - k, least, overheads[m + 1 - k], limits[m + 1 - k])
      BY <1>7
    <3>. QED
      BY <3>1, <3>2, <3>3
  <2>4. Q = 0..m
    <3>1. Q \in SUBSET (0..m)
      OBVIOUS
    <3>. HIDE DEF Q
    <3>. QED
      BY <2>2, <2>3, <3>1, InductionUpTo
  <2>5. g = [n \in 0..m |-> g[n]] /\ f = [n \in 0..m |-> f[n]]
    BY <1>4, <2>1
  <2>. QED
    BY <2>4, <2>5
<1>13. RoundDone(m, count, a, least, overheads, f[m], m)
  <2>1. m \in 0..m
    OBVIOUS
  <2>. QED
    BY <1>6, <2>1
<1>. QED
  BY <1>11, <1>12, <1>13

RoundsDone(m, count, b, k) ==
    /\ Complete(m, count, b) /\ b.left <= count - k
    /\ \A j \in 1..m : Len(b.sizes[j]) <= k

LEMMA RoundsGoOn ==
    ASSUME MaxStageSize \in Nat \ {0}, SubnetCount \in Nat, NEW m \in Nat, NEW count \in 0..SubnetCount, m > 0,
           NEW overheads \in Seq(Nat), Len(overheads) = m, NEW limits, AreLimits(limits, m),
           NEW k \in 0..count, k < count, NEW a, RoundsDone(m, count, a, k)
    PROVE  RoundsDone(m, count, Schedules!NextRound(a, overheads, limits), k + 1)
<1>1. /\ a \in Plan(m) /\ a.left \in Nat /\ a.sizes \in [1..m -> StageSizes] /\ Complete(m, count, a)
      /\ a.left <= count - k /\ \A j \in 1..m : Len(a.sizes[j]) <= k
  BY DEF RoundsDone, Complete, Plan
<1>2. \A j \in 1..m : Len(a.sizes[j]) \in Nat
  <2>1. \A j \in 1..m : a.sizes[j] \in StageSizes
    BY <1>1
  <2>. QED
    BY <2>1 DEF StageSizes
<1>3. CASE a.left = 0
  <2>1. Schedules!NextRound(a, overheads, limits) = a
    BY <1>3 DEF Schedules!NextRound
  <2>2. \A j \in 1..m : Len(a.sizes[j]) <= k + 1
    BY <1>1, <1>2
  <2>. QED
    BY <1>1, <1>3, <2>1, <2>2 DEF RoundsDone
<1>4. CASE a.left # 0
  <2>. DEFINE L == {Len(a.sizes[i]) + overheads[i] : i \in 1..m}
  <2>1. L \in SUBSET Nat /\ L # {}
    <3>1. ASSUME NEW i \in 1..m
          PROVE  Len(a.sizes[i]) + overheads[i] \in Nat
      <4>. PICK x \in Nat : x = overheads[i]
        OBVIOUS
      <4>. PICK y \in Nat : y = Len(a.sizes[i])
        BY <1>2
      <4>1. y + x \in Nat
        OBVIOUS
      <4>. QED
        BY <4>1
    <3>2. 1 \in 1..m
      OBVIOUS
    <3>. QED
      BY <3>1, <3>2
  <2>2. Min(L) \in L
    BY <2>1, MinType
  <2>. PICK i \in 1..m : Min(L) = Len(a.sizes[i]) + overheads[i]
    BY <2>2
  <2>. PICK least \in Nat : least = Min(L)
    BY <2>1, <2>2
  <2>3. Schedules!NextRound(a, overheads, limits) = Schedules!Round(a, least, overheads, limits)
    <3>1. DOMAIN overheads = 1..m
      OBVIOUS
    <3>. QED
      BY <1>4, <3>1, SchedulesOperators DEF Schedules!NextRound
  <2>4. ASSUME NEW j \in 1..m
        PROVE  Len(a.sizes[j]) \in 0..SubnetCount
    <3>. PICK x \in Nat : x = Len(a.sizes[j])
      BY <1>2
    <3>1. x <= k /\ k <= SubnetCount
      BY <1>1
    <3>. QED
      BY <3>1
  <2>. PICK b : b = Schedules!Round(a, least, overheads, limits)
    OBVIOUS
  <2>5. RoundDone(m, count, a, least, overheads, b, m)
    <3>1. limits \in [1..m -> [0..SubnetCount -> 1..MaxStageSize]] /\ count \in Nat
      BY DEF AreLimits
    <3>. QED
      BY <1>1, <2>4, <3>1, OneRound
  <2>6. Complete(m, count, b) /\ b.left \in Nat
    BY <1>1, <2>5 DEF RoundDone, Plan
  <2>7. b.left < a.left
    <3>1. i >= m + 1 - m /\ overheads[i] + Len(a.sizes[i]) <= least /\ a.left > 0
      <4>1. overheads[i] \in Nat /\ Len(a.sizes[i]) \in Nat
        BY <1>2
      <4>. QED
        BY <1>1, <1>4, <4>1
    <3>. QED
      BY <2>5, <3>1 DEF RoundDone
  <2>8. b.left <= count - (k + 1)
    BY <1>1, <2>6, <2>7
  <2>9. ASSUME NEW j \in 1..m
        PROVE  Len(b.sizes[j]) <= k + 1
    <3>1. Len(b.sizes[j]) <= Len(a.sizes[j]) + 1
      BY <2>5 DEF RoundDone
    <3>2. Len(b.sizes[j]) \in Nat
      <4>1. b.sizes[j] \in StageSizes
        BY <2>5 DEF RoundDone, Plan
      <4>. QED
        BY <4>1 DEF StageSizes
    <3>. PICK x \in Nat : x = Len(a.sizes[j])
      BY <1>2
    <3>. PICK y \in Nat : y = Len(b.sizes[j])
      BY <3>2
    <3>3. x <= k /\ y <= x + 1 /\ k \in Nat
      BY <1>1, <3>1
    <3>4. \A u, v \in Nat : u <= k /\ v <= u + 1 => v <= k + 1
      BY <3>3
    <3>. QED
      BY <3>3, <3>4
  <2>. QED
    BY <2>3, <2>6, <2>8, <2>9 DEF RoundsDone
<1>. QED
  BY <1>3, <1>4

LEMMA TotalOfZeros ==
    ASSUME NEW m \in Nat, NEW s \in Seq(Nat), Len(s) = m, \A i \in 1..m : s[i] = 0
    PROVE  Total(s) = 0
<1>. DEFINE f == [n \in 0..m |-> 0]
<1>1. f[0] = 0 /\ \A n \in 1..Len(s) : f[n] = f[n - 1] + s[n]
  <2>1. \A n \in 1..m : n \in 0..m /\ n - 1 \in 0..m
    OBVIOUS
  <2>. QED
    BY <2>1
<1>2. f[m] = 0
  OBVIOUS
<1>. HIDE DEF f
<1>3. \A n \in 0..Len(s) : f[n] = Sums(s)[n]
  BY <1>1, SumsAgree
<1>. QED
  BY <1>2, <1>3 DEF Total

IsRounds(f, m, overheads, limits, count) ==
    f = [k \in 0..count |->
           IF k = 0 THEN [left |-> count, sizes |-> [i \in DOMAIN overheads |-> <<>>]]
           ELSE Schedules!NextRound(f[k - 1], overheads, limits)]

\* Everything is planned after as many rounds as there are subnets.
LEMMA SizesAddUp ==
    ASSUME MaxStageSize \in Nat \ {0}, SubnetCount \in Nat, NEW m \in Nat, NEW count \in 0..SubnetCount, m > 0 \/ count = 0,
           NEW overheads \in Seq(Nat), Len(overheads) = m, NEW limits, AreLimits(limits, m)
    PROVE  /\ Schedules!Sizes(overheads, limits, count) \in [1..m -> StageSizes]
           /\ Total(Rows(Schedules!Sizes(overheads, limits, count), m)) = count
<1>. DEFINE start == [left |-> count, sizes |-> [i \in DOMAIN overheads |-> <<>>]]
<1>1. RoundsDone(m, count, start, 0) /\ start \in Plan(m)
  <2>1. DOMAIN overheads = 1..m /\ <<>> \in StageSizes /\ Len(<<>>) = 0
    BY DEF StageSizes
  <2>. DEFINE none == [i \in 1..m |-> <<>>]
  <2>2. none \in [1..m -> StageSizes] /\ \A i \in 1..m : none[i] = <<>>
    BY <2>1
  <2>3. start = [left |-> count, sizes |-> none] /\ start.left = count /\ start.sizes = none
    BY <2>1
  <2>4. Total(Rows(none, m)) = 0
    <3>1. \A i \in 1..m : Rows(none, m)[i] = 0
      BY <2>2, TotalOfNone DEF Rows
    <3>. HIDE DEF none
    <3>. QED
      BY <2>2, <3>1, RowsType, TotalOfZeros
  <2>. HIDE DEF none, start
  <2>5. count \in Nat
    OBVIOUS
  <2>6. start \in Plan(m)
    BY <2>2, <2>3, <2>5 DEF Plan
  <2>. QED
    BY <2>1, <2>2, <2>3, <2>4, <2>5, <2>6 DEF RoundsDone, Complete
<1>. HIDE DEF start
<1>. DEFINE Gone(k, b) == IF k < count /\ RoundsDone(m, count, b, k) THEN Schedules!NextRound(b, overheads, limits) ELSE b
            step == [k \in Nat |-> [b \in Plan(m) |-> Gone(k, b)]]
<1>2. ASSUME NEW k \in Nat, NEW b \in Plan(m)
      PROVE  Gone(k, b) \in Plan(m)
  <2>1. CASE k < count /\ RoundsDone(m, count, b, k)
    <3>1. k \in 0..count /\ m > 0
      BY <2>1
    <3>2. RoundsDone(m, count, Schedules!NextRound(b, overheads, limits), k + 1)
      BY <2>1, <3>1, RoundsGoOn
    <3>. QED
      BY <2>1, <3>2 DEF RoundsDone, Complete
  <2>. QED
    BY <2>1
<1>. HIDE DEF Gone
<1>3. step \in [Nat -> [Plan(m) -> Plan(m)]] /\ \A k \in Nat, b \in Plan(m) : step[k][b] = Gone(k, b)
  BY <1>2
<1>. HIDE DEF step
<1>. PICK N \in Nat : N = count
  OBVIOUS
<1>4. BehaviourUpTo(N, Plan(m), start, step) # {}
  BY <1>1, <1>3, RecursionUpTo
<1>. PICK f : f \in BehaviourUpTo(N, Plan(m), start, step)
  BY <1>4
<1>5. f \in [0..N -> Plan(m)] /\ f[0] = start /\ \A n \in 1..N : f[n] = step[n - 1][f[n - 1]]
  BY DEF BehaviourUpTo
<1>. DEFINE P == {k \in 0..N : RoundsDone(m, count, f[k], k)}
<1>6. ASSUME NEW k \in P, k < N
      PROVE  k + 1 \in P /\ f[k + 1] = Schedules!NextRound(f[k], overheads, limits)
  <2>1. k \in 0..N /\ k + 1 \in 1..N /\ k + 1 \in 0..N /\ k + 1 - 1 = k /\ k \in Nat /\ m > 0
    BY <1>6
  <2>. PICK b \in Plan(m) : b = f[k]
    BY <1>5, <2>1
  <2>2. f[k + 1] = Gone(k, b)
    BY <1>3, <1>5, <2>1
  <2>3. f[k + 1] = Schedules!NextRound(b, overheads, limits)
    BY <1>6, <2>2 DEF Gone
  <2>4. RoundsDone(m, count, f[k + 1], k + 1)
    BY <1>6, <2>1, <2>3, RoundsGoOn
  <2>. QED
    BY <2>1, <2>3, <2>4
<1>7. P = 0..N
  <2>1. P \in SUBSET (0..N) /\ 0 \in P
    BY <1>1, <1>5
  <2>2. \A k \in P : k < N => k + 1 \in P
    BY <1>6
  <2>. HIDE DEF P
  <2>. QED
    BY <2>1, <2>2, InductionUpTo
<1>8. ASSUME NEW n \in 1..N
      PROVE  f[n] = Schedules!NextRound(f[n - 1], overheads, limits)
  <2>. PICK k \in 0..N : k = n - 1
    OBVIOUS
  <2>1. k \in P /\ k < N /\ k + 1 = n
    BY <1>7
  <2>. HIDE DEF P
  <2>. QED
    BY <1>6, <2>1
<1>9. \A n \in 0..N : n = 0 \/ n \in 1..N
  OBVIOUS
<1>10. IsRounds(f, m, overheads, limits, count)
  <2>1. \A n \in 0..N : f[n] = IF n = 0 THEN start ELSE Schedules!NextRound(f[n - 1], overheads, limits)
    BY <1>5, <1>8, <1>9
  <2>2. f = [n \in 0..N |-> IF n = 0 THEN start ELSE Schedules!NextRound(f[n - 1], overheads, limits)]
    BY <1>5, <2>1
  <2>. QED
    BY <2>2 DEF IsRounds, start
<1>. DEFINE g == CHOOSE h : IsRounds(h, m, overheads, limits, count)
<1>11. IsRounds(g, m, overheads, limits, count)
  BY <1>10
<1>12. Schedules!Sizes(overheads, limits, count) = g[N].sizes
  BY DEF Schedules!Sizes, IsRounds
<1>. HIDE DEF g
<1>13. g = [n \in 0..N |-> IF n = 0 THEN start ELSE Schedules!NextRound(g[n - 1], overheads, limits)]
  BY <1>11 DEF IsRounds, start
<1>. DEFINE Q == {n \in 0..N : g[n] = f[n]}
<1>14. Q = 0..N
  <2>1. Q \in SUBSET (0..N) /\ 0 \in Q
    <3>1. 0 \in 0..N
      OBVIOUS
    <3>2. g[0] = start
      BY <1>13, <3>1
    <3>. QED
      BY <1>5, <3>1, <3>2
  <2>2. ASSUME NEW n \in Q, n < N
        PROVE  n + 1 \in Q
    <3>1. n + 1 \in 0..N /\ n + 1 \in 1..N /\ n + 1 # 0 /\ n + 1 - 1 = n /\ g[n] = f[n]
      BY <2>2
    <3>. PICK k \in 1..N : k = n + 1
      BY <3>1
    <3>2. g[k] = Schedules!NextRound(g[k - 1], overheads, limits)
      BY <1>13, <3>1
    <3>. QED
      BY <1>8, <3>1, <3>2
  <2>. HIDE DEF Q
  <2>. QED
    BY <2>1, <2>2, InductionUpTo
<1>15. g[N] = f[N] /\ RoundsDone(m, count, f[N], N)
  <2>1. N \in 0..N
    OBVIOUS
  <2>. QED
    BY <1>7, <1>14, <2>1
<1>16. f[N] \in Plan(m) /\ f[N].left = 0
  <2>1. f[N] \in Plan(m) /\ f[N].left \in Nat
    BY <1>5, N \in 0..N DEF Plan
  <2>2. f[N].left <= count - N
    BY <1>15 DEF RoundsDone
  <2>. QED
    BY <2>1, <2>2
<1>. DEFINE sizes == f[N].sizes
<1>17. sizes \in [1..m -> StageSizes]
  BY <1>16 DEF Plan
<1>18. Total(Rows(sizes, m)) + 0 = count
  BY <1>15, <1>16 DEF RoundsDone, Complete
<1>19. Total(Rows(sizes, m)) \in Nat
  BY <1>17, RowsType, SumsExist
<1>. QED
  BY <1>12, <1>15, <1>17, <1>18, <1>19

-----------------------------------------------------------------------------
(* The stages to come.                                                       *)

LEMMA ListOf ==
    ASSUME NEW S, NEW n \in Nat, NEW f \in [1..n -> S]
    PROVE  f \in Seq(S) /\ Len(f) = n
<1>1. f \in Seq(S)
  OBVIOUS
<1>2. DOMAIN f = 1..n /\ DOMAIN f = 1..Len(f) /\ Len(f) \in Nat
  BY <1>1
<1>. QED
  BY <1>1, <1>2

Stage == Int \X (1..MaxStageSize)

\* The sizes of the stages.
Amounts(stages) == [k \in 1..Len(stages) |-> stages[k][2]]

LEMMA AmountsType ==
    ASSUME MaxStageSize \in Nat \ {0}, NEW stages \in Seq(Stage)
    PROVE  Amounts(stages) \in Seq(Nat) /\ Len(Amounts(stages)) = Len(stages)
<1>. PICK N \in Nat : N = Len(stages)
  OBVIOUS
<1>1. \A k \in 1..N : stages[k][2] \in Nat
  <2>1. \A k \in 1..N : stages[k] \in Stage
    OBVIOUS
  <2>. QED
    BY <2>1 DEF Stage
<1>. DEFINE r == Amounts(stages)
<1>2. r \in [1..N -> Nat]
  BY <1>1 DEF Amounts
<1>. HIDE DEF r
<1>3. r \in Seq(Nat)
  BY <1>2
<1>4. DOMAIN r = 1..N /\ DOMAIN r = 1..Len(r) /\ Len(r) \in Nat
  BY <1>2, <1>3
<1>. QED
  BY <1>3, <1>4 DEF r

LEMMA AmountsOfBoth ==
    ASSUME MaxStageSize \in Nat \ {0}, NEW s \in Seq(Stage), NEW u \in Seq(Stage)
    PROVE  Amounts(s \o u) = Amounts(s) \o Amounts(u)
<1>. PICK N \in Nat : N = Len(s)
  OBVIOUS
<1>. PICK M \in Nat : M = Len(u)
  OBVIOUS
<1>. DEFINE w == s \o u
            a == Amounts(s)
            b == Amounts(u)
            c == a \o b
<1>1. w \in Seq(Stage) /\ Len(w) = N + M
  BY ConcatProperties
<1>2. a \in Seq(Nat) /\ b \in Seq(Nat) /\ Len(a) = N /\ Len(b) = M
  BY AmountsType
<1>3. a = [k \in 1..N |-> s[k][2]] /\ b = [k \in 1..M |-> u[k][2]]
  BY DEF Amounts
<1>. HIDE DEF a, b
<1>4. c \in Seq(Nat) /\ Len(c) = N + M
  <2>1. a \o b \in Seq(Nat) /\ Len(a \o b) = Len(a) + Len(b)
    BY <1>2, ConcatProperties
  <2>. QED
    BY <1>2, <2>1
<1>5. ASSUME NEW k \in 1..(N + M)
      PROVE  c[k] = w[k][2]
  <2>1. w[k] = IF k <= Len(s) THEN s[k] ELSE u[k - Len(s)]
    BY ConcatProperties
  <2>2. c[k] = IF k <= Len(a) THEN a[k] ELSE b[k - Len(a)]
    BY <1>2, ConcatProperties
  <2>3. CASE k <= N
    BY <1>2, <1>3, <2>1, <2>2, <2>3
  <2>4. CASE ~(k <= N)
    <3>1. k - N \in 1..M
      BY <2>4
    <3>. QED
      BY <1>2, <1>3, <2>1, <2>2, <2>4, <3>1
  <2>. QED
    BY <2>3, <2>4
<1>. HIDE DEF w, c
<1>6. c = [k \in 1..(N + M) |-> w[k][2]]
  <2>1. c = [k \in 1..Len(c) |-> c[k]]
    BY <1>4
  <2>. QED
    BY <1>4, <1>5, <2>1
<1>7. Amounts(w) = [k \in 1..(N + M) |-> w[k][2]]
  BY <1>1 DEF Amounts
<1>. QED
  BY <1>6, <1>7 DEF w, c, a, b

\* The stages of the first n days, of the sizes that were planned for them, and
\* none before the first of the days.
StagesUpTo(stages, n, days, sizes) ==
    /\ stages \in Seq(Stage)
    /\ Total(Amounts(stages)) = Sums(Rows(sizes, Len(days)))[n]
    /\ \A k \in 1..Len(stages) : stages[k][1] >= days[1]

LEMMA StagesGoOn ==
    ASSUME MaxStageSize \in Nat \ {0}, NEW days \in Seq(Int), NEW sizes \in [1..Len(days) -> StageSizes],
           NEW n \in 1..Len(days), NEW s, StagesUpTo(s, n - 1, days, sizes)
    PROVE  StagesUpTo(s \o [j \in DOMAIN sizes[n] |-> <<days[1] + n - 1, sizes[n][j]>>], n, days, sizes)
<1>. PICK m \in Nat : m = Len(days)
  OBVIOUS
<1>. PICK first \in Int : first = days[1]
  OBVIOUS
<1>. PICK row \in StageSizes : row = sizes[n]
  OBVIOUS
<1>. PICK N \in Nat : N = Len(row)
  BY DEF StageSizes
<1>. DEFINE u == [j \in DOMAIN row |-> <<first + n - 1, row[j]>>]
<1>1. DOMAIN row = 1..N /\ \A j \in 1..N : row[j] \in 1..MaxStageSize
  BY DEF StageSizes
<1>2. u \in [1..N -> Stage] /\ \A j \in 1..N : u[j][1] = first + n - 1 /\ u[j][2] = row[j]
  <2>1. ASSUME NEW j \in 1..N
        PROVE  <<first + n - 1, row[j]>> \in Stage
    BY <1>1 DEF Stage
  <2>. QED
    BY <1>1, <2>1
<1>. HIDE DEF u
<1>3. u \in Seq(Stage) /\ Len(u) = N
  BY <1>2, ListOf
<1>4. Amounts(u) = row
  <2>1. Amounts(u) = [j \in 1..N |-> row[j]]
    BY <1>2, <1>3 DEF Amounts
  <2>2. row = [j \in 1..N |-> row[j]]
    BY <1>1 DEF StageSizes
  <2>. QED
    BY <2>1, <2>2
<1>5. s \in Seq(Stage) /\ Total(Amounts(s)) = Sums(Rows(sizes, m))[n - 1] /\ \A k \in 1..Len(s) : s[k][1] >= first
  BY DEF StagesUpTo
<1>. DEFINE r == Rows(sizes, m)
<1>6. r \in Seq(Nat) /\ Len(r) = m /\ row \in Seq(Nat)
  BY RowsType
<1>7. r[n] = Total(row)
  BY DEF Rows
<1>. HIDE DEF r
<1>8. Sums(r)[n] = Sums(r)[n - 1] + r[n]
  BY <1>6, SumsExist
<1>9. Total(Amounts(s \o u)) = Sums(r)[n]
  <2>1. Amounts(s) \in Seq(Nat) /\ Amounts(s \o u) = Amounts(s) \o row
    BY <1>3, <1>4, <1>5, AmountsType, AmountsOfBoth
  <2>2. Total(Amounts(s) \o row) = Total(Amounts(s)) + Total(row)
    BY <1>6, <2>1, TotalOfBoth
  <2>. QED
    BY <1>5, <1>7, <1>8, <2>1, <2>2 DEF r
<1>10. s \o u \in Seq(Stage) /\ \A k \in 1..Len(s \o u) : (s \o u)[k][1] >= first
  <2>1. s \o u \in Seq(Stage) /\ Len(s \o u) = Len(s) + Len(u)
    BY <1>3, <1>5, ConcatProperties
  <2>2. ASSUME NEW k \in 1..Len(s \o u)
        PROVE  (s \o u)[k][1] >= first
    <3>1. (s \o u)[k] = IF k <= Len(s) THEN s[k] ELSE u[k - Len(s)]
      BY <1>3, <1>5, ConcatProperties
    <3>2. Len(s) \in Nat
      BY <1>5
    <3>3. CASE k <= Len(s)
      BY <1>5, <3>1, <3>2, <3>3
    <3>4. CASE ~(k <= Len(s))
      <4>1. k - Len(s) \in 1..N
        BY <1>3, <2>1, <3>2, <3>4
      <4>2. first + n - 1 >= first
        OBVIOUS
      <4>. QED
        BY <1>2, <3>1, <3>4, <4>1, <4>2
    <3>. QED
      BY <3>3, <3>4
  <2>. QED
    BY <2>1, <2>2
<1>. QED
  BY <1>9, <1>10 DEF StagesUpTo, u, r

IsStagesOf(f, days, sizes) ==
    f = [i \in 0..Len(days) |->
           IF i = 0 THEN <<>> ELSE f[i - 1] \o [j \in DOMAIN sizes[i] |-> <<days[1] + i - 1, sizes[i][j]>>]]

LEMMA StagesOfAre ==
    ASSUME MaxStageSize \in Nat \ {0}, NEW days \in Seq(Int), NEW sizes \in [1..Len(days) -> StageSizes]
    PROVE  StagesUpTo(Schedules!StagesOf(days, sizes), Len(days), days, sizes)
<1>. PICK m \in Nat : m = Len(days)
  OBVIOUS
<1>. DEFINE More(n) == [j \in DOMAIN sizes[n] |-> <<days[1] + n - 1, sizes[n][j]>>]
            Grown(n, s) == IF n < m /\ StagesUpTo(s, n, days, sizes) THEN s \o More(n + 1) ELSE s
            step == [n \in Nat |-> [s \in Seq(Stage) |-> Grown(n, s)]]
<1>1. ASSUME NEW n \in Nat, n < m, NEW s, StagesUpTo(s, n, days, sizes)
      PROVE  StagesUpTo(s \o More(n + 1), n + 1, days, sizes)
  <2>. PICK k \in 1..m : k = n + 1
    BY <1>1
  <2>1. k - 1 = n
    OBVIOUS
  <2>2. StagesUpTo(s \o More(k), k, days, sizes)
    BY <1>1, <2>1, StagesGoOn
  <2>. QED
    BY <2>2
<1>. HIDE DEF More
<1>2. ASSUME NEW n \in Nat, NEW s \in Seq(Stage)
      PROVE  Grown(n, s) \in Seq(Stage)
  <2>1. CASE n < m /\ StagesUpTo(s, n, days, sizes)
    <3>1. StagesUpTo(s \o More(n + 1), n + 1, days, sizes)
      BY <1>1, <2>1
    <3>. QED
      BY <2>1, <3>1 DEF StagesUpTo
  <2>. QED
    BY <2>1
<1>. HIDE DEF Grown
<1>3. step \in [Nat -> [Seq(Stage) -> Seq(Stage)]] /\ \A n \in Nat, s \in Seq(Stage) : step[n][s] = Grown(n, s)
  BY <1>2
<1>. HIDE DEF step
<1>4. BehaviourUpTo(m, Seq(Stage), <<>>, step) # {}
  <2>1. <<>> \in Seq(Stage)
    OBVIOUS
  <2>. QED
    BY <1>3, <2>1, RecursionUpTo
<1>. PICK f : f \in BehaviourUpTo(m, Seq(Stage), <<>>, step)
  BY <1>4
<1>5. f \in [0..m -> Seq(Stage)] /\ f[0] = <<>> /\ \A n \in 1..m : f[n] = step[n - 1][f[n - 1]]
  BY DEF BehaviourUpTo
<1>. DEFINE P == {n \in 0..m : StagesUpTo(f[n], n, days, sizes)}
<1>6. ASSUME NEW n \in P, n < m
      PROVE  n + 1 \in P /\ f[n + 1] = f[n] \o More(n + 1)
  <2>1. n \in Nat /\ n \in 0..m /\ n + 1 \in 0..m /\ n + 1 \in 1..m /\ n + 1 - 1 = n /\ StagesUpTo(f[n], n, days, sizes)
    BY <1>6
  <2>2. f[n] \in Seq(Stage)
    BY <1>5, <2>1
  <2>3. f[n + 1] = Grown(n, f[n])
    BY <1>3, <1>5, <2>1, <2>2
  <2>4. f[n + 1] = f[n] \o More(n + 1)
    BY <1>6, <2>1, <2>3 DEF Grown
  <2>. QED
    BY <1>1, <1>6, <2>1, <2>4
<1>7. P = 0..m
  <2>1. StagesUpTo(<<>>, 0, days, sizes)
    <3>1. <<>> \in Seq(Stage) /\ Len(<<>>) = 0 /\ 1..0 = {}
      OBVIOUS
    <3>2. Amounts(<<>>) = <<>>
      <4>1. Amounts(<<>>) \in Seq(Nat) /\ Len(Amounts(<<>>)) = 0
        BY <3>1, AmountsType
      <4>. QED
        BY <4>1, EmptySeq
    <3>3. Sums(Rows(sizes, m))[0] = 0
      BY RowsType, SumsExist
    <3>. QED
      BY <3>1, <3>2, <3>3, TotalOfNone DEF StagesUpTo
  <2>2. P \in SUBSET (0..m) /\ 0 \in P
    BY <1>5, <2>1
  <2>3. \A n \in P : n < m => n + 1 \in P
    BY <1>6
  <2>. HIDE DEF P
  <2>. QED
    BY <2>2, <2>3, InductionUpTo
<1>8. ASSUME NEW n \in 1..m
      PROVE  f[n] = f[n - 1] \o More(n)
  <2>. PICK k \in 0..m : k = n - 1
    OBVIOUS
  <2>1. k \in P /\ k < m /\ k + 1 = n
    BY <1>7
  <2>. HIDE DEF P
  <2>. QED
    BY <1>6, <2>1
<1>9. IsStagesOf(f, days, sizes)
  <2>1. \A n \in 0..m : n = 0 \/ n \in 1..m
    OBVIOUS
  <2>2. \A n \in 0..m : f[n] = IF n = 0 THEN <<>> ELSE f[n - 1] \o More(n)
    BY <1>5, <1>8, <2>1
  <2>3. f = [n \in 0..m |-> IF n = 0 THEN <<>> ELSE f[n - 1] \o More(n)]
    BY <1>5, <2>2
  <2>. QED
    BY <2>3 DEF IsStagesOf, More
<1>. DEFINE g == CHOOSE h : IsStagesOf(h, days, sizes)
<1>10. IsStagesOf(g, days, sizes)
  BY <1>9
<1>11. Schedules!StagesOf(days, sizes) = g[m]
  BY DEF Schedules!StagesOf, IsStagesOf
<1>. HIDE DEF g
<1>12. g = [n \in 0..m |-> IF n = 0 THEN <<>> ELSE g[n - 1] \o More(n)]
  BY <1>10 DEF IsStagesOf, More
<1>. DEFINE Q == {n \in 0..m : g[n] = f[n]}
<1>13. Q = 0..m
  <2>1. Q \in SUBSET (0..m) /\ 0 \in Q
    <3>1. 0 \in 0..m
      OBVIOUS
    <3>2. g[0] = <<>>
      BY <1>12, <3>1
    <3>. QED
      BY <1>5, <3>1, <3>2
  <2>2. ASSUME NEW n \in Q, n < m
        PROVE  n + 1 \in Q
    <3>1. n + 1 \in 0..m /\ n + 1 \in 1..m /\ n + 1 # 0 /\ n + 1 - 1 = n /\ g[n] = f[n]
      BY <2>2
    <3>. PICK k \in 1..m : k = n + 1
      BY <3>1
    <3>2. g[k] = g[k - 1] \o More(k)
      BY <1>12, <3>1
    <3>3. f[k] = f[k - 1] \o More(k)
      BY <1>8
    <3>4. g[k - 1] = f[k - 1]
      BY <3>1
    <3>5. g[k] = f[k]
      BY <3>2, <3>3, <3>4, Zenon
    <3>. QED
      BY <3>1, <3>5
  <2>. HIDE DEF Q
  <2>. QED
    BY <2>1, <2>2, InductionUpTo
<1>14. g[m] = f[m] /\ StagesUpTo(f[m], m, days, sizes)
  <2>1. m \in 0..m
    OBVIOUS
  <2>. QED
    BY <1>7, <1>13, <2>1
<1>. QED
  BY <1>11, <1>14

\* The elements of a list from a to b.
Slice(left, a, b) == {left[i] : i \in (a + 1)..b}

LEMMA SliceIs ==
    ASSUME NEW S, NEW left \in Seq(S), NEW a \in Nat, NEW b \in Nat, a < b, b <= Len(left), NEW max \in Nat, b - a <= max
    PROVE  /\ Schedules!ToSet(SubSeq(left, a + 1, b)) = Slice(left, a, b)
           /\ IsFiniteSet(Slice(left, a, b)) /\ Cardinality(Slice(left, a, b)) <= max
           /\ Slice(left, a, b) # {} /\ Slice(left, a, b) \subseteq Slice(left, 0, Len(left))
<1>. PICK N \in Nat : N = Len(left)
  OBVIOUS
<1>. DEFINE c == SubSeq(left, a + 1, b)
            T == {left[i] : i \in (a + 1)..b}
<1>1. c = [i \in 1..(b - a) |-> left[a + i]]
  <2>1. c = [i \in 1..(b - (a + 1) + 1) |-> left[i + (a + 1) - 1]]
    BY SubSeqProperties
  <2>2. b - (a + 1) + 1 = b - a
    OBVIOUS
  <2>3. \A i \in 1..(b - a) : i + (a + 1) - 1 = a + i
    OBVIOUS
  <2>. HIDE DEF c
  <2>. QED
    BY <2>1, <2>2, <2>3
<1>. HIDE DEF c
<1>2. Schedules!ToSet(c) = {c[i] : i \in 1..(b - a)}
  BY <1>1 DEF Schedules!ToSet
<1>3. {c[i] : i \in 1..(b - a)} = T
  <2>1. ASSUME NEW i \in 1..(b - a)
        PROVE  c[i] \in T
    <3>1. a + i \in (a + 1)..b
      OBVIOUS
    <3>. QED
      BY <1>1, <3>1
  <2>2. ASSUME NEW i \in (a + 1)..b
        PROVE  \E j \in 1..(b - a) : left[i] = c[j]
    <3>1. i - a \in 1..(b - a) /\ a + (i - a) = i
      OBVIOUS
    <3>. QED
      BY <1>1, <3>1
  <2>. QED
    BY <2>1, <2>2
<1>4. IsFiniteSet((a + 1)..b) /\ Cardinality((a + 1)..b) = b - a
  <2>1. a + 1 \in Int /\ b \in Int /\ b - (a + 1) + 1 = b - a /\ ~(a + 1 > b)
    OBVIOUS
  <2>. QED
    BY <2>1, FS_Interval
<1>. DEFINE F == [i \in (a + 1)..b |-> left[i]]
<1>5. F \in Surjection((a + 1)..b, T)
  BY DEF Surjection
<1>6. IsFiniteSet(T) /\ Cardinality(T) <= Cardinality((a + 1)..b)
  <2>. HIDE DEF F, T
  <2>. QED
    BY <1>4, <1>5, FS_Surjection
<1>7. Cardinality(T) <= max
  <2>1. Cardinality(T) \in Nat /\ b - a \in Nat /\ Cardinality(T) <= b - a
    BY <1>4, <1>6, FS_CardinalityType
  <2>. HIDE DEF T
  <2>. QED
    BY <2>1
<1>8. T # {} /\ T \subseteq Slice(left, 0, N)
  <2>1. b \in (a + 1)..b /\ (a + 1)..b \subseteq (0 + 1)..N
    OBVIOUS
  <2>. QED
    BY <2>1 DEF Slice
<1>. QED
  BY <1>2, <1>3, <1>6, <1>7, <1>8 DEF c, Slice

IsGiven(f, stages) == f = [k \in 0..Len(stages) |-> IF k = 0 THEN 0 ELSE f[k - 1] + stages[k][2]]

\* A stage gets the subnets that the stages before it left.
LEMMA HandedOutIs ==
    ASSUME MaxStageSize \in Nat \ {0}, NEW left, NEW stages \in Seq(Stage), NEW t, t = Sums(Amounts(stages))
    PROVE  Schedules!HandedOut(left, stages) =
             [k \in 1..Len(stages) |->
                [day |-> stages[k][1], subnets |-> Schedules!ToSet(SubSeq(left, t[k - 1] + 1, t[k]))]]
<1>. PICK N \in Nat : N = Len(stages)
  OBVIOUS
<1>. PICK r \in Seq(Nat) : r = Amounts(stages) /\ Len(r) = N
  BY AmountsType
<1>1. \A k \in 1..N : r[k] = stages[k][2]
  BY DEF Amounts
<1>2. t \in [0..N -> Nat] /\ t[0] = 0 /\ \A n \in 1..N : t[n] = t[n - 1] + r[n]
  BY SumsExist
<1>3. IsGiven(t, stages)
  <2>1. \A n \in 0..N : n = 0 \/ n \in 1..N
    OBVIOUS
  <2>2. \A n \in 0..N : t[n] = IF n = 0 THEN 0 ELSE t[n - 1] + stages[n][2]
    BY <1>1, <1>2, <2>1
  <2>. QED
    BY <1>2, <2>2 DEF IsGiven
<1>. DEFINE g == CHOOSE f : IsGiven(f, stages)
<1>4. IsGiven(g, stages)
  BY <1>3
<1>5. Schedules!HandedOut(left, stages) =
        [k \in DOMAIN stages |->
           [day |-> stages[k][1], subnets |-> Schedules!ToSet(SubSeq(left, g[k - 1] + 1, g[k]))]]
  BY DEF Schedules!HandedOut, IsGiven
<1>. HIDE DEF g
<1>6. g = [k \in 0..N |-> IF k = 0 THEN 0 ELSE g[k - 1] + stages[k][2]]
  BY <1>4 DEF IsGiven
<1>7. g[0] = 0 /\ \A n \in 1..N : g[n] = g[n - 1] + r[n]
  <2>1. 0 \in 0..N /\ \A n \in 1..N : n \in 0..N /\ n # 0
    OBVIOUS
  <2>2. g[0] = 0
    BY <1>6, <2>1
  <2>3. ASSUME NEW n \in 1..N
        PROVE  g[n] = g[n - 1] + r[n]
    BY <1>1, <1>6, <2>1
  <2>. QED
    BY <2>2, <2>3
<1>8. \A n \in 0..N : g[n] = t[n]
  BY <1>7, SumsAgree
<1>9. \A k \in 1..N : k \in 0..N /\ k - 1 \in 0..N
  OBVIOUS
<1>10. DOMAIN stages = 1..N
  OBVIOUS
<1>. QED
  BY <1>5, <1>8, <1>9, <1>10

\* Every stage of a view has some of the subnets, no more than are allowed, and
\* none that another stage has.
IsView(view, set) ==
    /\ view \in Seq([day : Int, subnets : SUBSET set])
    /\ \A k \in 1..Len(view) : /\ view[k].subnets # {} /\ IsFiniteSet(view[k].subnets)
                               /\ Cardinality(view[k].subnets) <= MaxStageSize
    /\ \A j, k \in 1..Len(view) : j < k => view[j].subnets \cap view[k].subnets = {}
    /\ \A s \in set : \E k \in 1..Len(view) : s \in view[k].subnets

\* The stages are for as many subnets as there are.
Suffices(stages, left) == Total(Amounts(stages)) = Len(left)

IsHandedOut(h, left, stages) == h = Schedules!HandedOut(left, stages)

LEMMA Apart ==
    ASSUME NEW M \in Nat, NEW x \in Nat, NEW a \in Nat, NEW b \in Nat, NEW y \in Nat,
           NEW i \in (x + 1)..a, NEW l \in (b + 1)..y, a <= b, y <= M
    PROVE  i \in 1..M /\ l \in 1..M /\ i # l
  OBVIOUS

LEMMA HandedOutAre ==
    ASSUME MaxStageSize \in Nat \ {0}, NEW S, NEW left \in Seq(S), Unrepeated(left), NEW stages \in Seq(Stage),
           Suffices(stages, left), NEW h, IsHandedOut(h, left, stages)
    PROVE  /\ IsView(h, Slice(left, 0, Len(left)))
           /\ Len(h) = Len(stages) /\ \A k \in 1..Len(h) : h[k].day = stages[k][1]
<1>. PICK N \in Nat : N = Len(stages)
  OBVIOUS
<1>. PICK M \in Nat : M = Len(left)
  OBVIOUS
<1>. PICK r \in Seq(Nat) : r = Amounts(stages) /\ Len(r) = N
  BY AmountsType
<1>. PICK t : t = Sums(r)
  OBVIOUS
<1>. DEFINE every == Slice(left, 0, M)
            Part(k) == Slice(left, t[k - 1], t[k])
<1>1. t \in [0..N -> Nat] /\ t[0] = 0 /\ t[N] = M /\ \A n \in 1..N : t[n] = t[n - 1] + r[n]
  BY SumsExist DEF Total, Suffices
<1>2. \A n \in 0..N : \A m \in 0..n : t[m] <= t[n]
  BY SumsGrow
<1>3. \A k \in 1..N : stages[k][1] \in Int /\ stages[k][2] \in 1..MaxStageSize /\ r[k] = stages[k][2]
  <2>1. \A k \in 1..N : stages[k] \in Stage
    OBVIOUS
  <2>. QED
    BY <2>1 DEF Stage, Amounts
<1>4. ASSUME NEW k \in 1..N
      PROVE  /\ t[k - 1] \in Nat /\ t[k] \in Nat /\ t[k - 1] < t[k] /\ t[k] <= M
             /\ t[k] - t[k - 1] <= MaxStageSize
  <2>1. k \in 0..N /\ k - 1 \in 0..N /\ N \in 0..N /\ k \in 0..N
    OBVIOUS
  <2>. PICK x \in Nat : x = t[k - 1]
    BY <1>1, <2>1
  <2>. PICK y \in Nat : y = t[k]
    BY <1>1, <2>1
  <2>. PICK z \in 1..MaxStageSize : z = r[k]
    BY <1>3
  <2>2. y = x + z
    BY <1>1
  <2>3. y <= M
    BY <1>1, <1>2, <2>1
  <2>. QED
    BY <2>2, <2>3
<1>5. ASSUME NEW k \in 1..N
      PROVE  /\ Schedules!ToSet(SubSeq(left, t[k - 1] + 1, t[k])) = Part(k)
             /\ Part(k) # {} /\ IsFiniteSet(Part(k)) /\ Cardinality(Part(k)) <= MaxStageSize /\ Part(k) \subseteq every
  <2>. PICK x \in Nat : x = t[k - 1]
    BY <1>4
  <2>. PICK y \in Nat : y = t[k]
    BY <1>4
  <2>1. x < y /\ y <= Len(left) /\ y - x <= MaxStageSize /\ MaxStageSize \in Nat
    BY <1>4
  <2>2. /\ Schedules!ToSet(SubSeq(left, x + 1, y)) = Slice(left, x, y)
        /\ IsFiniteSet(Slice(left, x, y)) /\ Cardinality(Slice(left, x, y)) <= MaxStageSize
        /\ Slice(left, x, y) # {} /\ Slice(left, x, y) \subseteq Slice(left, 0, Len(left))
    BY <2>1, SliceIs
  <2>. QED
    BY <2>2
<1>6. h = [k \in 1..N |-> [day |-> stages[k][1], subnets |-> Part(k)]]
  <2>. DEFINE Given(k) == Schedules!ToSet(SubSeq(left, t[k - 1] + 1, t[k]))
  <2>1. h = [k \in 1..N |-> [day |-> stages[k][1], subnets |-> Given(k)]]
    BY HandedOutIs DEF IsHandedOut
  <2>2. \A k \in 1..N : Given(k) = Part(k)
    BY <1>5
  <2>. HIDE DEF Given, Part
  <2>. QED
    BY <2>1, <2>2
<1>7. h \in Seq([day : Int, subnets : SUBSET every]) /\ Len(h) = N
  <2>1. \A k \in 1..N : Part(k) \subseteq every
    BY <1>5
  <2>. HIDE DEF Part, every
  <2>2. \A k \in 1..N : [day |-> stages[k][1], subnets |-> Part(k)] \in [day : Int, subnets : SUBSET every]
    BY <1>3, <2>1
  <2>. DEFINE E(k) == [day |-> stages[k][1], subnets |-> Part(k)]
              T == [day : Int, subnets : SUBSET every]
  <2>3. h = [k \in 1..N |-> E(k)] /\ \A k \in 1..N : E(k) \in T
    BY <1>6, <2>2
  <2>. HIDE DEF E, T
  <2>4. h \in [1..N -> T]
    BY <2>3
  <2>5. h \in Seq(T) /\ Len(h) = N
    BY <2>4, ListOf
  <2>. QED
    BY <2>5 DEF T
<1>8. \A k \in 1..N : h[k].subnets = Part(k) /\ h[k].day = stages[k][1]
  <2>. HIDE DEF Part
  <2>. QED
    BY <1>6
<1>9. ASSUME NEW j \in 1..N, NEW k \in 1..N, j < k
      PROVE  Part(j) \cap Part(k) = {}
  <2>1. ASSUME NEW i \in (t[j - 1] + 1)..t[j], NEW l \in (t[k - 1] + 1)..t[k], left[i] = left[l]
        PROVE  FALSE
    <3>1. k - 1 \in 0..N /\ j \in 0..(k - 1)
      BY <1>9
    <3>2. t[j] <= t[k - 1]
      BY <1>2, <3>1
    <3>. PICK a \in Nat : a = t[j]
      BY <1>4
    <3>. PICK b \in Nat : b = t[k - 1]
      BY <1>4
    <3>. PICK x \in Nat : x = t[j - 1]
      BY <1>4
    <3>. PICK y \in Nat : y = t[k]
      BY <1>4
    <3>3. i \in (x + 1)..a /\ l \in (b + 1)..y /\ a <= b /\ y <= M
      BY <1>4, <2>1, <3>2
    <3>4. i \in 1..M /\ l \in 1..M /\ i # l
      BY <3>3, Apart, Zenon
    <3>. QED
      BY <2>1, <3>4 DEF Unrepeated
  <2>. QED
    BY <2>1 DEF Slice
<1>10. ASSUME NEW i \in 1..M
       PROVE  \E k \in 1..N : left[i] \in Part(k)
  <2>. DEFINE K == {k \in 1..N : i <= t[k]}
  <2>1. N \in K
    <3>1. N # 0
      <4>1. CASE N = 0
        BY <1>1, <4>1
      <4>. QED
        BY <4>1
    <3>. QED
      BY <1>1, <3>1
  <2>2. K \in SUBSET Nat /\ K # {}
    BY <2>1
  <2>. HIDE DEF K
  <2>. PICK k \in K : \A l \in K : k <= l
    BY <2>2, MinType
  <2>3. k \in 1..N /\ i <= t[k]
    BY DEF K
  <2>. PICK b \in Nat : b = t[k - 1]
    BY <1>4, <2>3
  <2>. PICK y \in Nat : y = t[k]
    BY <1>4, <2>3
  <2>4. b < i
    <3>1. CASE k = 1
      BY <1>1, <3>1
    <3>2. CASE k # 1
      <4>1. k - 1 \in 1..N /\ ~(k <= k - 1)
        BY <2>3, <3>2
      <4>2. k - 1 \notin K
        BY <4>1
      <4>3. ~(i <= b)
        BY <4>1, <4>2 DEF K
      <4>. QED
        BY <4>3
    <3>. QED
      BY <3>1, <3>2
  <2>5. i \in (b + 1)..y
    BY <2>3, <2>4
  <2>. QED
    BY <2>3, <2>5 DEF Slice
<1>. HIDE DEF Part
<1>11. \A k \in 1..Len(h) : /\ h[k].subnets # {} /\ IsFiniteSet(h[k].subnets) /\ Cardinality(h[k].subnets) <= MaxStageSize
  BY <1>5, <1>7, <1>8
<1>12. \A j, k \in 1..Len(h) : j < k => h[j].subnets \cap h[k].subnets = {}
  BY <1>7, <1>8, <1>9
<1>13. ASSUME NEW s \in every
       PROVE  \E k \in 1..Len(h) : s \in h[k].subnets
  <2>. PICK i \in 1..M : s = left[i]
    <3>1. (0 + 1)..M = 1..M
      OBVIOUS
    <3>. QED
      BY <3>1 DEF Slice
  <2>. PICK k \in 1..N : left[i] \in Part(k)
    BY <1>10
  <2>. QED
    BY <1>7, <1>8
<1>14. IsView(h, every)
  <2>. HIDE DEF every
  <2>. QED
    BY <1>7, <1>11, <1>12, <1>13 DEF IsView
<1>. QED
  BY <1>7, <1>8, <1>14

-----------------------------------------------------------------------------
(* The stages that were submitted.                                           *)

Proposal == [subnet : Schedules!EverySubnet, day : 0..LastDay, hour : 0..Hours, executed : BOOLEAN]

Stagings == Seq(Seq(Proposal) \ {<<>>})

Together(p, q) == p.day = q.day /\ p.hour = q.hour

\* The stages of the first n: those that are together with all after them are in
\* the last stage.
StagedUpTo(stages, n, list) ==
    /\ stages \in Stagings
    /\ \A k \in 1..Len(stages) : \A j \in 1..Len(stages[k]) : \E i \in 1..n : stages[k][j] = list[i]
    /\ n > 0 => stages # <<>> /\ Schedules!Last(Schedules!Last(stages)) = list[n]
    /\ \A i \in 1..n : (\A j \in i..n : Together(list[i], list[j])) =>
         \E k \in 1..Len(Schedules!Last(stages)) : Schedules!Last(stages)[k] = list[i]

LEMMA JoinedStays ==
    ASSUME NEW list \in Seq(Proposal), NEW n \in 0..Len(list), n < Len(list), NEW stages, StagedUpTo(stages, n, list)
    PROVE  StagedUpTo(Schedules!Joined(stages, list[n + 1]), n + 1, list)
<1>. PICK p \in Proposal : p = list[n + 1]
  OBVIOUS
<1>. PICK N \in Nat : N = Len(stages)
  BY DEF StagedUpTo, Stagings
<1>. DEFINE last == Schedules!Last(stages)
            joins == stages # <<>> /\ Schedules!Last(last).day = p.day /\ Schedules!Last(last).hour = p.hour
            result == Schedules!Joined(stages, p)
<1>1. /\ stages \in Seq(Seq(Proposal) \ {<<>>})
      /\ \A k \in 1..N : \A j \in 1..Len(stages[k]) : \E i \in 1..n : stages[k][j] = list[i]
      /\ n > 0 => stages # <<>> /\ Schedules!Last(last) = list[n]
      /\ \A i \in 1..n : (\A j \in i..n : Together(list[i], list[j])) => \E k \in 1..Len(last) : last[k] = list[i]
  BY DEF StagedUpTo, Stagings
<1>2. \A i \in 1..n : i \in 1..(n + 1)
  OBVIOUS
<1>3. n + 1 \in 1..(n + 1) /\ \A i \in 1..(n + 1) : i \in 1..n \/ i = n + 1
  OBVIOUS
<1>4. CASE joins
  <2>. DEFINE longer == Append(last, p)
  <2>1. N > 0 /\ last = stages[N] /\ last \in Seq(Proposal) /\ last # <<>>
    <3>1. N # 0
      BY <1>1, <1>4
    <3>2. last = stages[N]
      BY DEF Schedules!Last
    <3>. QED
      BY <1>1, <3>1, <3>2
  <2>. HIDE DEF last
  <2>2. /\ longer \in Seq(Proposal) \ {<<>>} /\ Len(longer) = Len(last) + 1 /\ longer[Len(last) + 1] = p
        /\ Len(last) \in Nat /\ \A j \in 1..Len(last) : longer[j] = last[j]
    BY <2>1
  <2>. HIDE DEF longer
  <2>3. result = [stages EXCEPT ![N] = longer]
    BY <1>4 DEF Schedules!Joined, Schedules!ReplaceAt, last, longer
  <2>4. /\ result \in Seq(Seq(Proposal) \ {<<>>}) /\ Len(result) = N
        /\ \A k \in 1..N : result[k] = IF k = N THEN longer ELSE stages[k]
    <3>1. N \in 1..Len(stages)
      BY <2>1
    <3>. QED
      BY <1>1, <2>2, <2>3, <3>1, ExceptSeq
  <2>5. Schedules!Last(result) = longer /\ Schedules!Last(longer) = p /\ result # <<>>
    <3>1. N \in 1..N
      BY <2>1
    <3>2. Schedules!Last(result) = longer
      BY <2>4, <3>1 DEF Schedules!Last
    <3>3. Schedules!Last(longer) = p
      BY <2>2 DEF Schedules!Last
    <3>. QED
      BY <2>1, <2>4, <3>2, <3>3
  <2>. HIDE DEF result, joins
  <2>6. ASSUME NEW k \in 1..N, NEW j \in 1..Len(result[k])
        PROVE  \E i \in 1..(n + 1) : result[k][j] = list[i]
    <3>1. CASE k = N
      <4>0. result[k] = longer /\ j \in 1..Len(longer)
        BY <2>4, <3>1
      <4>. PICK L \in Nat : L = Len(last)
        BY <2>2
      <4>1. j \in 1..Len(last) \/ j = Len(last) + 1
        <5>1. j \in 1..(L + 1)
          BY <2>2, <4>0
        <5>2. j \in 1..L \/ j = L + 1
          BY <5>1
        <5>. QED
          BY <5>2
      <4>2. CASE j = Len(last) + 1
        BY <1>3, <2>2, <2>4, <3>1, <4>2
      <4>3. CASE j \in 1..Len(last)
        <5>. PICK i \in 1..n : last[j] = list[i]
          BY <1>1, <2>1, <3>1, <4>3
        <5>. QED
          BY <1>2, <2>2, <2>4, <3>1, <4>3
      <4>. QED
        BY <4>1, <4>2, <4>3
    <3>2. CASE k # N
      <4>. PICK i \in 1..n : stages[k][j] = list[i]
        BY <1>1, <2>4, <3>2
      <4>. QED
        BY <1>2, <2>4, <3>2
    <3>. QED
      BY <3>1, <3>2
  <2>7. ASSUME NEW i \in 1..(n + 1), \A j \in i..(n + 1) : Together(list[i], list[j])
        PROVE  \E k \in 1..Len(longer) : longer[k] = list[i]
    <3>1. CASE i = n + 1
      <4>1. Len(last) + 1 \in 1..Len(longer)
        BY <2>2
      <4>. QED
        BY <2>2, <3>1, <4>1
    <3>2. CASE i \in 1..n
      <4>1. \A j \in i..n : j \in i..(n + 1)
        BY <3>2
      <4>. PICK k \in 1..Len(last) : last[k] = list[i]
        BY <1>1, <2>7, <3>2, <4>1
      <4>2. k \in 1..Len(longer)
        BY <2>2
      <4>. QED
        BY <2>2, <4>2
    <3>. QED
      BY <1>3, <3>1, <3>2
  <2>. QED
    BY <2>4, <2>5, <2>6, <2>7 DEF StagedUpTo, Stagings, result
<1>5. CASE ~joins
  <2>1. result = Append(stages, <<p>>)
    BY <1>5 DEF Schedules!Joined
  <2>2. <<p>> \in Seq(Proposal) \ {<<>>} /\ Len(<<p>>) = 1 /\ <<p>>[1] = p
    OBVIOUS
  <2>. DEFINE one == <<p>>
  <2>. HIDE DEF one
  <2>3. one \in Seq(Proposal) \ {<<>>} /\ Len(one) = 1 /\ one[1] = p /\ result = Append(stages, one)
    BY <2>1, <2>2 DEF one
  <2>4. /\ result \in Seq(Seq(Proposal) \ {<<>>}) /\ Len(result) = N + 1 /\ result[N + 1] = one
        /\ \A k \in 1..N : result[k] = stages[k]
    BY <1>1, <2>3
  <2>5. Schedules!Last(result) = one /\ Schedules!Last(one) = p /\ result # <<>>
    BY <2>3, <2>4 DEF Schedules!Last
  <2>. HIDE DEF result
  <2>6. ASSUME NEW k \in 1..(N + 1), NEW j \in 1..Len(result[k])
        PROVE  \E i \in 1..(n + 1) : result[k][j] = list[i]
    <3>1. CASE k = N + 1
      <4>0. result[k] = one /\ j \in 1..Len(one)
        BY <2>4, <3>1
      <4>1. j = 1
        BY <2>3, <4>0
      <4>. QED
        BY <1>3, <2>3, <2>4, <3>1, <4>1
    <3>2. CASE k # N + 1
      <4>1. k \in 1..N
        BY <3>2
      <4>2. result[k] = stages[k] /\ j \in 1..Len(stages[k])
        BY <2>4, <4>1
      <4>. PICK i \in 1..n : stages[k][j] = list[i]
        BY <1>1, <4>1, <4>2
      <4>. QED
        BY <1>2, <4>2
    <3>. QED
      BY <3>1, <3>2
  <2>7. ASSUME NEW i \in 1..(n + 1), \A j \in i..(n + 1) : Together(list[i], list[j])
        PROVE  \E k \in 1..Len(one) : one[k] = list[i]
    <3>1. CASE i = n + 1
      BY <2>3, <3>1
    <3>2. CASE i \in 1..n
      <4>1. n > 0 /\ n \in i..(n + 1) /\ n + 1 \in i..(n + 1)
        BY <3>2
      <4>2. Together(list[i], list[n]) /\ Together(list[i], p)
        BY <2>7, <4>1
      <4>3. joins
        BY <1>1, <4>1, <4>2 DEF Together
      <4>. QED
        BY <1>5, <4>3
    <3>. QED
      BY <1>3, <3>1, <3>2
  <2>. QED
    BY <2>4, <2>5, <2>6, <2>7 DEF StagedUpTo, Stagings, result
<1>. QED
  BY <1>4, <1>5

IsStaged(f) == f = [n \in 0..Len(proposals) |-> IF n = 0 THEN <<>> ELSE Schedules!Joined(f[n - 1], proposals[n])]

LEMMA StagesAre ==
    ASSUME proposals \in Seq(Proposal)
    PROVE  StagedUpTo(Schedules!Stages, Len(proposals), proposals)
<1>. PICK list \in Seq(Proposal) : list = proposals
  OBVIOUS
<1>. PICK m \in Nat : m = Len(list)
  OBVIOUS
<1>. DEFINE Grown(n, s) == IF n < m /\ StagedUpTo(s, n, list) THEN Schedules!Joined(s, list[n + 1]) ELSE s
            step == [n \in Nat |-> [s \in Stagings |-> Grown(n, s)]]
<1>1. ASSUME NEW n \in Nat, NEW s \in Stagings
      PROVE  Grown(n, s) \in Stagings
  <2>1. CASE n < m /\ StagedUpTo(s, n, list)
    <3>1. n \in 0..m
      BY <2>1
    <3>2. StagedUpTo(Schedules!Joined(s, list[n + 1]), n + 1, list)
      BY <2>1, <3>1, JoinedStays
    <3>. QED
      BY <2>1, <3>2 DEF StagedUpTo
  <2>. QED
    BY <2>1
<1>. HIDE DEF Grown
<1>2. step \in [Nat -> [Stagings -> Stagings]] /\ \A n \in Nat, s \in Stagings : step[n][s] = Grown(n, s)
  BY <1>1
<1>. HIDE DEF step
<1>3. BehaviourUpTo(m, Stagings, <<>>, step) # {}
  <2>1. <<>> \in Stagings
    BY DEF Stagings
  <2>. QED
    BY <1>2, <2>1, RecursionUpTo
<1>. PICK f : f \in BehaviourUpTo(m, Stagings, <<>>, step)
  BY <1>3
<1>4. f \in [0..m -> Stagings] /\ f[0] = <<>> /\ \A n \in 1..m : f[n] = step[n - 1][f[n - 1]]
  BY DEF BehaviourUpTo
<1>. DEFINE P == {n \in 0..m : StagedUpTo(f[n], n, list)}
<1>5. ASSUME NEW n \in P, n < m
      PROVE  n + 1 \in P /\ f[n + 1] = Schedules!Joined(f[n], list[n + 1])
  <2>1. n \in Nat /\ n \in 0..m /\ n + 1 \in 0..m /\ n + 1 \in 1..m /\ n + 1 - 1 = n /\ StagedUpTo(f[n], n, list)
    BY <1>5
  <2>2. f[n] \in Stagings
    BY <1>4, <2>1
  <2>3. f[n + 1] = Grown(n, f[n])
    BY <1>2, <1>4, <2>1, <2>2
  <2>4. f[n + 1] = Schedules!Joined(f[n], list[n + 1])
    BY <1>5, <2>1, <2>3 DEF Grown
  <2>5. StagedUpTo(Schedules!Joined(f[n], list[n + 1]), n + 1, list)
    BY <1>5, <2>1, JoinedStays
  <2>. QED
    BY <2>1, <2>4, <2>5
<1>6. P = 0..m
  <2>1. StagedUpTo(<<>>, 0, list)
    <3>1. <<>> \in Stagings /\ Len(<<>>) = 0 /\ 1..0 = {}
      BY DEF Stagings
    <3>. QED
      BY <3>1 DEF StagedUpTo
  <2>2. P \in SUBSET (0..m) /\ 0 \in P
    BY <1>4, <2>1
  <2>3. \A n \in P : n < m => n + 1 \in P
    BY <1>5
  <2>. HIDE DEF P
  <2>. QED
    BY <2>2, <2>3, InductionUpTo
<1>7. ASSUME NEW n \in 1..m
      PROVE  f[n] = Schedules!Joined(f[n - 1], list[n])
  <2>. PICK k \in 0..m : k = n - 1
    OBVIOUS
  <2>1. k \in P /\ k < m /\ k + 1 = n
    BY <1>6
  <2>. HIDE DEF P
  <2>. QED
    BY <1>5, <2>1
<1>8. IsStaged(f)
  <2>1. \A n \in 0..m : n = 0 \/ n \in 1..m
    OBVIOUS
  <2>2. \A n \in 0..m : f[n] = IF n = 0 THEN <<>> ELSE Schedules!Joined(f[n - 1], list[n])
    BY <1>4, <1>7, <2>1
  <2>3. f = [n \in 0..m |-> IF n = 0 THEN <<>> ELSE Schedules!Joined(f[n - 1], list[n])]
    BY <1>4, <2>2
  <2>. QED
    BY <2>3 DEF IsStaged
<1>. DEFINE g == CHOOSE h : IsStaged(h)
<1>9. IsStaged(g)
  BY <1>8
<1>10. Schedules!Stages = g[m]
  BY DEF Schedules!Stages, IsStaged
<1>. HIDE DEF g
<1>11. g = [n \in 0..m |-> IF n = 0 THEN <<>> ELSE Schedules!Joined(g[n - 1], list[n])]
  BY <1>9 DEF IsStaged
<1>. DEFINE Q == {n \in 0..m : g[n] = f[n]}
<1>12. Q = 0..m
  <2>1. Q \in SUBSET (0..m) /\ 0 \in Q
    <3>1. 0 \in 0..m
      OBVIOUS
    <3>2. g[0] = <<>>
      BY <1>11, <3>1
    <3>. QED
      BY <1>4, <3>1, <3>2
  <2>2. ASSUME NEW n \in Q, n < m
        PROVE  n + 1 \in Q
    <3>1. n + 1 \in 0..m /\ n + 1 \in 1..m /\ n + 1 # 0 /\ n + 1 - 1 = n /\ g[n] = f[n]
      BY <2>2
    <3>. PICK k \in 1..m : k = n + 1
      BY <3>1
    <3>2. g[k] = Schedules!Joined(g[k - 1], list[k])
      BY <1>11, <3>1
    <3>3. f[k] = Schedules!Joined(f[k - 1], list[k])
      BY <1>7
    <3>4. g[k - 1] = f[k - 1]
      BY <3>1
    <3>5. g[k] = f[k]
      BY <3>2, <3>3, <3>4, Zenon
    <3>. QED
      BY <3>1, <3>5
  <2>. HIDE DEF Q
  <2>. QED
    BY <2>1, <2>2, InductionUpTo
<1>13. g[m] = f[m] /\ StagedUpTo(f[m], m, list)
  <2>1. m \in 0..m
    OBVIOUS
  <2>. QED
    BY <1>6, <1>12, <2>1
<1>. QED
  BY <1>10, <1>13

-----------------------------------------------------------------------------
(* The view of a release in a state of it.                                   *)

UpgradeStates == {"Unknown", "Preparing", "Baking", "Complete"}

Typed == /\ now \in [day : 0..LastDay, hour : 0..Hours]
         /\ proposals \in Seq(Proposal)
         /\ upgrade \in [Schedules!EverySubnet -> UpgradeStates]

\* A proposal is of a day of the rollout, and of none after those after it.
OnDaysOfTheRollout ==
    /\ \A i \in 1..Len(proposals) : /\ proposals[i].day <= now.day /\ proposals[i].day <= proposals[1].day + 13
                                    /\ ~Schedules!Weekend(proposals[i].day) /\ proposals[i].day \notin SparedDays
    /\ \A i, j \in 1..Len(proposals) : i < j => proposals[i].day <= proposals[j].day

LEMMA SetOfList ==
    ASSUME NEW S, NEW list \in Seq(S)
    PROVE  Schedules!ToSet(list) = {list[i] : i \in 1..Len(list)}
<1>1. DOMAIN list = 1..Len(list)
  OBVIOUS
<1>. QED
  BY <1>1 DEF Schedules!ToSet

LEMMA ProposalType ==
    ASSUME Typed, NEW i \in 1..Len(proposals)
    PROVE  /\ proposals[i] \in Proposal /\ proposals[i].subnet \in Schedules!EverySubnet /\ proposals[i].day \in 0..LastDay
           /\ proposals[i].hour \in 0..Hours /\ proposals[i].executed \in BOOLEAN
<1>1. proposals[i] \in Proposal
  BY DEF Typed
<1>. QED
  BY <1>1 DEF Proposal

LEMMA StartDayIs ==
    ASSUME LastDay \in Nat, Typed
    PROVE  /\ Schedules!StartDay \in Nat /\ now.day \in Nat /\ Len(proposals) \in Nat
           /\ proposals = <<>> => Schedules!StartDay = now.day
           /\ proposals # <<>> => Schedules!StartDay = proposals[1].day /\ 1 \in 1..Len(proposals)
<1>1. now.day \in Nat /\ Len(proposals) \in Nat /\ Schedules!Today = now.day
  BY DEF Typed, Schedules!Today
<1>2. CASE proposals = <<>>
  BY <1>1, <1>2 DEF Schedules!StartDay, Schedules!Started
<1>3. CASE proposals # <<>>
  <2>1. 1 \in 1..Len(proposals)
    BY <1>1, <1>3 DEF Typed
  <2>2. proposals[1].day \in 0..LastDay
    BY <2>1, ProposalType
  <2>. QED
    BY <1>1, <1>3, <2>1, <2>2 DEF Schedules!StartDay, Schedules!Started
<1>. QED
  BY <1>2, <1>3

\* The days are within two weeks, and the proposals are of some of them.
LEMMA RolloutDaysAre ==
    ASSUME LastDay \in Nat, Typed, OnDaysOfTheRollout
    PROVE  /\ Schedules!RolloutDays \in Seq(Int)
           /\ \A d \in Schedules!ToSet(Schedules!RolloutDays) :
                /\ d \in Schedules!StartDay..(Schedules!StartDay + 13)
                /\ ~Schedules!Weekend(d) /\ d \notin SparedDays
           /\ \A i \in 1..Len(proposals) : proposals[i].day \in Schedules!ToSet(Schedules!RolloutDays)
<1>. PICK start \in Nat : start = Schedules!StartDay
  BY StartDayIs
<1>. DEFINE list == [i \in 1..14 |-> start + i - 1]
            candidates == {d \in start..(start + 13) : ~Schedules!Weekend(d) /\ d \notin SparedDays}
            closing == {d \in candidates : Schedules!Week(d) > Schedules!Week(start) /\ d > now.day}
            kept == {d \in candidates : \A c \in closing : d <= c}
            days == Schedules!RolloutDays
<1>1. days = Schedules!Chosen(list, kept)
  BY DEF Schedules!RolloutDays, Schedules!Today
<1>2. list \in Seq(Int) /\ Len(list) = 14
  <2>1. list \in [1..14 -> Int]
    OBVIOUS
  <2>. HIDE DEF list
  <2>. QED
    BY <2>1, ListOf
<1>3. \A d \in start..(start + 13) : \E i \in 1..Len(list) : list[i] = d
  <2>1. ASSUME NEW d \in start..(start + 13)
        PROVE  \E i \in 1..14 : list[i] = d
    <3>1. d - start + 1 \in 1..14 /\ start + (d - start + 1) - 1 = d
      OBVIOUS
    <3>. QED
      BY <3>1
  <2>. QED
    BY <1>2, <2>1
<1>. HIDE DEF list, days, kept
<1>4. /\ days \in Seq(Int)
      /\ \A k \in 1..Len(days) : \E i \in 1..Len(list) : list[i] \in kept /\ days[k] = list[i]
      /\ \A i \in 1..Len(list) : list[i] \in kept => \E k \in 1..Len(days) : days[k] = list[i]
  <2>1. Filtered(Schedules!Chosen(list, kept), Len(list), Int, list, kept)
    BY <1>2, ChosenAre
  <2>. QED
    BY <1>1, <2>1 DEF Filtered
<1>5. Schedules!ToSet(days) = kept
  <2>1. Schedules!ToSet(days) = {days[k] : k \in 1..Len(days)}
    BY <1>4, SetOfList
  <2>2. \A k \in 1..Len(days) : days[k] \in kept
    BY <1>4
  <2>3. \A d \in kept : \E k \in 1..Len(days) : days[k] = d
    <3>1. ASSUME NEW d \in kept
          PROVE  \E k \in 1..Len(days) : days[k] = d
      <4>1. d \in start..(start + 13)
        BY DEF kept
      <4>. PICK i \in 1..Len(list) : list[i] = d
        BY <1>3, <4>1
      <4>. QED
        BY <1>4
    <3>. QED
      BY <3>1
  <2>. QED
    BY <2>1, <2>2, <2>3
<1>6. ASSUME NEW i \in 1..Len(proposals)
      PROVE  proposals[i].day \in kept
  <2>. PICK d \in Nat : d = proposals[i].day
    BY ProposalType
  <2>1. proposals # <<>> /\ start = proposals[1].day /\ 1 \in 1..Len(proposals)
    BY StartDayIs DEF Typed
  <2>2. start <= d
    <3>1. i = 1 \/ 1 < i
      OBVIOUS
    <3>. QED
      BY <2>1, <3>1 DEF OnDaysOfTheRollout
  <2>3. d <= now.day /\ d <= start + 13 /\ ~Schedules!Weekend(d) /\ d \notin SparedDays
    BY <2>1 DEF OnDaysOfTheRollout
  <2>4. now.day \in Nat
    BY StartDayIs
  <2>5. d \in candidates
    BY <2>2, <2>3
  <2>6. \A c \in closing : d <= c
    BY <2>3, <2>4
  <2>. QED
    BY <2>5, <2>6 DEF kept
<1>. QED
  BY <1>4, <1>5, <1>6 DEF days, kept

LEMMA FutureDaysAre ==
    ASSUME LastDay \in Nat, Typed, OnDaysOfTheRollout
    PROVE  /\ Schedules!FutureDays \in Seq(Int)
           /\ \A k \in 1..Len(Schedules!FutureDays) :
                /\ Schedules!FutureDays[k] >= now.day
                /\ Schedules!FutureDays[k] \in Schedules!ToSet(Schedules!RolloutDays)
<1>. DEFINE days == Schedules!RolloutDays
            late == {d \in Schedules!ToSet(days) : d >= now.day}
            future == Schedules!FutureDays
<1>1. days \in Seq(Int)
  BY RolloutDaysAre
<1>2. future = Schedules!Chosen(days, late)
  BY DEF Schedules!FutureDays, Schedules!Today
<1>. HIDE DEF days, late, future
<1>3. future \in Seq(Int) /\ \A k \in 1..Len(future) : \E i \in 1..Len(days) : days[i] \in late /\ future[k] = days[i]
  <2>1. Filtered(Schedules!Chosen(days, late), Len(days), Int, days, late)
    BY <1>1, ChosenAre
  <2>. QED
    BY <1>2, <2>1 DEF Filtered
<1>. QED
  BY <1>3 DEF future, late, days

Proposed == {proposals[i].subnet : i \in 1..Len(proposals)}

LEMMA SubmittedIs ==
    ASSUME LastDay \in Nat, Typed, OnDaysOfTheRollout
    PROVE  Schedules!Submitted = Proposed /\ Schedules!Proposed = Proposed
<1>1. proposals \in Seq(Proposal)
  BY DEF Typed
<1>2. Schedules!ToSet(proposals) = {proposals[i] : i \in 1..Len(proposals)}
  BY <1>1, SetOfList
<1>3. \A i \in 1..Len(proposals) : proposals[i].day \in Schedules!ToSet(Schedules!RolloutDays)
  BY RolloutDaysAre
<1>4. DOMAIN proposals = 1..Len(proposals)
  BY <1>1
<1>. QED
  BY <1>2, <1>3, <1>4 DEF Schedules!Submitted, Proposed, Schedules!Proposed

\* The subnets that are left for the days to come.
LEMMA LeftoverIs ==
    ASSUME LastDay \in Nat, Typed, OnDaysOfTheRollout, ScheduleKnown
    PROVE  /\ Schedules!Leftover \in Seq(Schedules!EverySubnet) /\ Unrepeated(Schedules!Leftover)
           /\ Len(Schedules!Leftover) \in 0..SubnetCount
           /\ Slice(Schedules!Leftover, 0, Len(Schedules!Leftover)) = Schedules!EverySubnet \ ({NnsSubnet} \cup Proposed)
<1>. DEFINE every == Schedules!EverySubnet
            left == Schedules!Leftover
            set == every \ ({NnsSubnet} \cup Proposed)
<1>1. Scheduled \in Seq(every) /\ DOMAIN Scheduled = 1..Len(Scheduled)
  BY DEF ScheduleKnown
<1>2. Unrepeated(Scheduled)
  BY <1>1 DEF ScheduleKnown, Unrepeated
<1>3. left = Schedules!Chosen(Scheduled, set)
  BY SubmittedIs DEF Schedules!Leftover
<1>4. \A s \in every : \E i \in 1..Len(Scheduled) : Scheduled[i] = s
  BY <1>1 DEF Schedules!EverySubnet, Schedules!ToSet
<1>. HIDE DEF every, left, set
<1>5. /\ left \in Seq(every) /\ Len(left) <= Len(Scheduled) /\ Unrepeated(left)
      /\ \A k \in 1..Len(left) : \E i \in 1..Len(Scheduled) : Scheduled[i] \in set /\ left[k] = Scheduled[i]
      /\ \A i \in 1..Len(Scheduled) : Scheduled[i] \in set => \E k \in 1..Len(left) : left[k] = Scheduled[i]
  <2>1. Filtered(Schedules!Chosen(Scheduled, set), Len(Scheduled), every, Scheduled, set)
    BY <1>1, ChosenAre
  <2>. QED
    BY <1>2, <1>3, <2>1 DEF Filtered
<1>6. Len(left) \in 0..SubnetCount
  <2>1. Len(left) \in Nat /\ Len(Scheduled) \in Nat
    BY <1>1, <1>5
  <2>. QED
    BY <1>5, <2>1 DEF SubnetCount
<1>7. Slice(left, 0, Len(left)) = set
  <2>1. \A k \in 1..Len(left) : left[k] \in set
    BY <1>5
  <2>2. \A s \in set : \E k \in 1..Len(left) : left[k] = s
    BY <1>4, <1>5 DEF set
  <2>3. Slice(left, 0, Len(left)) = {left[k] : k \in 1..Len(left)}
    BY DEF Slice
  <2>. QED
    BY <2>1, <2>2, <2>3
<1>. QED
  BY <1>5, <1>6, <1>7 DEF every, left, set

LEMMA AppDaysAre ==
    ASSUME LastDay \in Nat, Typed, OnDaysOfTheRollout, ScheduleKnown, ~Schedules!Panics
    PROVE  /\ Schedules!AppDays \in Seq(Int) /\ (Len(Schedules!AppDays) > 0 \/ Len(Schedules!Leftover) = 0)
           /\ Len(Schedules!AppDays) > 0 =>
                /\ Schedules!AppDays[1] >= now.day
                /\ Schedules!AppDays[1] \in Schedules!ToSet(Schedules!RolloutDays)
<1>. DEFINE future == Schedules!FutureDays
            days == Schedules!AppDays
            left == Schedules!Leftover
<1>1. /\ future \in Seq(Int)
      /\ \A k \in 1..Len(future) : future[k] >= now.day /\ future[k] \in Schedules!ToSet(Schedules!RolloutDays)
  BY FutureDaysAre
<1>2. future # <<>> /\ (left # <<>> => ~(Len(future) < 2)) /\ days = IF left = <<>> THEN <<>> ELSE Schedules!Front(future)
  BY DEF Schedules!Panics, Schedules!AppDays
<1>3. left \in Seq(Schedules!EverySubnet)
  BY LeftoverIs
<1>. HIDE DEF future, days, left
<1>4. CASE left = <<>>
  <2>1. Len(left) = 0 /\ days = <<>> /\ Len(<<>>) = 0
    BY <1>2, <1>4
  <2>. QED
    BY <2>1 DEF days, left
<1>5. CASE left # <<>>
  <2>. PICK N \in Nat : N = Len(future)
    BY <1>1
  <2>1. N >= 2 /\ days = SubSeq(future, 1, N - 1)
    BY <1>2, <1>5 DEF Schedules!Front
  <2>2. days \in Seq(Int) /\ Len(days) = N - 1 /\ days[1] = future[1]
    <3>1. \A i \in 1..(N - 1) : future[i] \in Int
      BY <1>1
    <3>2. /\ SubSeq(future, 1, N - 1) \in Seq(Int)
          /\ Len(SubSeq(future, 1, N - 1)) = IF 1 <= N - 1 THEN N - 1 - 1 + 1 ELSE 0
          /\ \A i \in 1..(N - 1 - 1 + 1) : SubSeq(future, 1, N - 1)[i] = future[1 + i - 1]
      BY <3>1, SubSeqProperties
    <3>3. 1 \in 1..(N - 1 - 1 + 1) /\ 1 + 1 - 1 = 1 /\ 1 <= N - 1 /\ N - 1 - 1 + 1 = N - 1
      BY <2>1
    <3>. QED
      BY <2>1, <3>2, <3>3
  <2>3. future[1] >= now.day /\ future[1] \in Schedules!ToSet(Schedules!RolloutDays)
    <3>1. 1 \in 1..Len(future)
      BY <2>1
    <3>. QED
      BY <1>1, <3>1
  <2>. QED
    BY <2>1, <2>2, <2>3 DEF days, left
<1>. QED
  BY <1>4, <1>5

LEMMA StagesOnIsFinite ==
    ASSUME Typed, NEW d
    PROVE  Schedules!Cardinality(Schedules!StagesOn(d)) \in Nat
<1>. DEFINE stages == Schedules!Stages
<1>1. stages \in Seq(Seq(Proposal) \ {<<>>})
  BY StagesAre DEF Typed, StagedUpTo, Stagings
<1>2. Schedules!StagesOn(d) \subseteq DOMAIN stages
  BY DEF Schedules!StagesOn
<1>. HIDE DEF stages
<1>3. DOMAIN stages = 1..Len(stages) /\ Len(stages) \in Nat
  BY <1>1
<1>4. IsFiniteSet(1..Len(stages))
  BY <1>3, FS_Interval
<1>5. IsFiniteSet(Schedules!StagesOn(d))
  BY <1>2, <1>3, <1>4, FS_Subset
<1>. QED
  BY <1>5, FS_CardinalityType, SchedulesOperators

LEMMA OverheadsAre ==
    ASSUME Typed, NEW days \in Seq(Int), NEW rolled
    PROVE  Schedules!Overheads(days, rolled) \in Seq(Nat) /\ Len(Schedules!Overheads(days, rolled)) = Len(days)
<1>. PICK m \in Nat : m = Len(days)
  OBVIOUS
<1>. DEFINE had == Schedules!Cardinality(Schedules!StagesOn(days[1]))
            E(i) == (IF i = m THEN 2 ELSE 0) + (IF i = 1 THEN had ELSE 0)
                    + (IF i = 1 /\ (rolled = {} \/ (days[1] \in rolled /\ \A d \in rolled : days[1] <= d)) THEN 1 ELSE 0)
            all == Schedules!Overheads(days, rolled)
<1>1. had \in Nat
  BY StagesOnIsFinite
<1>2. all = [i \in 1..m |-> E(i)]
  <2>1. DOMAIN days = 1..m
    OBVIOUS
  <2>. QED
    BY <2>1 DEF Schedules!Overheads
<1>. HIDE DEF had, all
<1>3. \A i \in 1..m : E(i) \in Nat
  BY <1>1
<1>4. all \in [1..m -> Nat]
  <2>. HIDE DEF E
  <2>. QED
    BY <1>2, <1>3
<1>. QED
  BY <1>4, ListOf DEF all

LEMMA FirstStageSizeIs ==
    ASSUME LastDay \in Nat, Typed, OnDaysOfTheRollout
    PROVE  Schedules!FirstStageSize \in Nat \ {0}
<1>. DEFINE days == Schedules!RolloutDays
            rolled == Schedules!DaysWithStages \ {Schedules!Today}
            F == [i \in 1..Len(days) |-> days[i]]
<1>1. days \in Seq(Int)
  BY RolloutDaysAre
<1>2. rolled \subseteq Schedules!ToSet(days)
  BY DEF Schedules!DaysWithStages
<1>. HIDE DEF days, rolled
<1>3. IsFiniteSet(Schedules!ToSet(days))
  <2>1. Schedules!ToSet(days) = {days[i] : i \in 1..Len(days)}
    BY <1>1, SetOfList
  <2>2. F \in Surjection(1..Len(days), Schedules!ToSet(days))
    BY <2>1 DEF Surjection
  <2>3. IsFiniteSet(1..Len(days))
    BY <1>1, FS_Interval
  <2>. QED
    BY <2>2, <2>3, FS_Surjection
<1>4. Schedules!Cardinality(rolled) \in Nat
  BY <1>2, <1>3, FS_Subset, FS_CardinalityType, SchedulesOperators
<1>5. Schedules!FirstStageSize = Schedules!Cardinality(rolled) + 1
  BY DEF Schedules!FirstStageSize, rolled
<1>. QED
  BY <1>4, <1>5

LEMMA LesserIs ==
    ASSUME NEW x \in Nat, NEW y \in Nat
    PROVE  Schedules!Min({x, y}) \in {x, y} /\ Schedules!Min({x, y}) <= x /\ Schedules!Min({x, y}) <= y
<1>1. {x, y} \in SUBSET Nat /\ {x, y} # {}
  OBVIOUS
<1>. QED
  BY <1>1, MinType, SchedulesOperators

LEMMA LimitsAre ==
    ASSUME LastDay \in Nat, Typed, OnDaysOfTheRollout, MaxStageSize \in Nat \ {0}, SubnetCount \in Nat, NEW days \in Seq(Int)
    PROVE  AreLimits(Schedules!Limits(days), Len(days))
<1>. PICK m \in Nat : m = Len(days)
  OBVIOUS
<1>. PICK first \in Nat \ {0} : first = Schedules!FirstStageSize
  BY FirstStageSizeIs
<1>. DEFINE Had(i) == Schedules!Cardinality(Schedules!StagesOn(days[i]))
            E(i, k) == Schedules!Min({MaxStageSize, first + (i - 1) + Schedules!Min({Had(i) + k, 1})})
<1>1. Schedules!Limits(days) = [i \in 1..m |-> [k \in 0..SubnetCount |-> E(i, k)]]
  <2>1. DOMAIN days = 1..m
    OBVIOUS
  <2>. QED
    BY <2>1 DEF Schedules!Limits, SubnetCount
<1>2. \A i \in 1..m : Had(i) \in Nat
  BY StagesOnIsFinite
<1>. HIDE DEF Had
<1>3. ASSUME NEW i \in 1..m, NEW k \in 0..SubnetCount
      PROVE  E(i, k) \in 1..MaxStageSize
  <2>. PICK had \in Nat : had = Had(i)
    BY <1>2
  <2>1. had + k \in Nat /\ 1 \in Nat
    OBVIOUS
  <2>. PICK extra : extra = Schedules!Min({had + k, 1})
    OBVIOUS
  <2>2. extra \in {had + k, 1}
    BY <2>1, LesserIs
  <2>3. extra \in Nat
    BY <2>1, <2>2
  <2>. PICK wanted \in Nat \ {0} : wanted = first + (i - 1) + extra
    BY <2>3
  <2>4. /\ Schedules!Min({MaxStageSize, wanted}) \in {MaxStageSize, wanted}
        /\ Schedules!Min({MaxStageSize, wanted}) <= MaxStageSize
    BY LesserIs
  <2>5. Schedules!Min({MaxStageSize, wanted}) \in 1..MaxStageSize
    BY <2>4
  <2>. QED
    BY <2>5
<1>. HIDE DEF E
<1>. DEFINE T == 1..MaxStageSize
            Row(i) == [k \in 0..SubnetCount |-> E(i, k)]
<1>4. \A i \in 1..m : Row(i) \in [0..SubnetCount -> T]
  BY <1>3
<1>. DEFINE limits == [i \in 1..m |-> Row(i)]
<1>5. limits \in [1..m -> [0..SubnetCount -> T]]
  <2>. HIDE DEF Row, T
  <2>. QED
    BY <1>4
<1>. QED
  BY <1>1, <1>5 DEF AreLimits

LEMMA CountsKnown ==
    ASSUME ScheduleKnown
    PROVE  MaxStageSize \in Nat \ {0} /\ SubnetCount \in Nat /\ LastDay \in Nat /\ Hours \in Nat
<1>1. Scheduled \in Seq(Schedules!EverySubnet) /\ MaxStageSize \in Nat \ {0} /\ LastDay \in Nat /\ Hours \in Nat
  BY DEF ScheduleKnown
<1>2. Len(Scheduled) \in Nat
  BY <1>1
<1>. QED
  BY <1>1, <1>2 DEF SubnetCount

LEMMA ElementOf ==
    ASSUME NEW S, NEW list \in Seq(S), NEW k \in 1..Len(list)
    PROVE  list[k] \in S
  OBVIOUS

LEMMA ViewType ==
    ASSUME NEW view, NEW set, IsView(view, set), NEW k \in 1..Len(view)
    PROVE  view[k].day \in Int /\ view[k].subnets \subseteq set
<1>1. view \in Seq([day : Int, subnets : SUBSET set])
  BY DEF IsView
<1>2. view[k] \in [day : Int, subnets : SUBSET set]
  BY <1>1, ElementOf
<1>. QED
  BY <1>2

\* What is planned for the days from today on.
LEMMA PlannedIs ==
    ASSUME LastDay \in Nat, Typed, OnDaysOfTheRollout, ScheduleKnown, ~Schedules!Panics
    PROVE  /\ IsView(Schedules!Planned, Schedules!EverySubnet \ ({NnsSubnet} \cup Proposed))
           /\ \A k \in 1..Len(Schedules!Planned) :
                /\ Schedules!Planned[k].day \in Int /\ Schedules!Planned[k].day >= Schedules!AppDays[1]
                /\ Len(Schedules!AppDays) > 0
<1>. DEFINE days == Schedules!AppDays
            left == Schedules!Leftover
            overheads == Schedules!Overheads(days, Schedules!DaysWithStages)
            limits == Schedules!Limits(days)
            sizes == Schedules!Sizes(overheads, limits, Len(left))
            stages == Schedules!StagesOf(days, sizes)
            planned == Schedules!Planned
<1>0. MaxStageSize \in Nat \ {0} /\ SubnetCount \in Nat
  BY CountsKnown
<1>1. days \in Seq(Int) /\ (Len(days) > 0 \/ Len(left) = 0)
  BY AppDaysAre
<1>2. left \in Seq(Schedules!EverySubnet) /\ Unrepeated(left) /\ Len(left) \in 0..SubnetCount
  BY LeftoverIs
<1>3. planned = Schedules!HandedOut(left, stages)
  BY DEF Schedules!Planned, Schedules!PlannedOn
<1>4. Slice(left, 0, Len(left)) = Schedules!EverySubnet \ ({NnsSubnet} \cup Proposed)
  BY LeftoverIs
<1>. HIDE DEF days, left
<1>. PICK m \in Nat : m = Len(days)
  BY <1>1
<1>. PICK count \in 0..SubnetCount : count = Len(left)
  BY <1>2
<1>5. overheads \in Seq(Nat) /\ Len(overheads) = m
  BY <1>1, OverheadsAre
<1>6. AreLimits(limits, m)
  BY <1>0, <1>1, LimitsAre
<1>. HIDE DEF overheads, limits
<1>7. m > 0 \/ count = 0
  BY <1>1
<1>8. sizes \in [1..m -> StageSizes] /\ Total(Rows(sizes, m)) = count
  BY <1>0, <1>5, <1>6, <1>7, SizesAddUp
<1>. HIDE DEF sizes
<1>9. StagesUpTo(stages, m, days, sizes)
  BY <1>0, <1>1, <1>8, StagesOfAre
<1>. HIDE DEF stages
<1>10. /\ stages \in Seq(Stage) /\ Total(Amounts(stages)) = Sums(Rows(sizes, m))[m]
       /\ \A k \in 1..Len(stages) : stages[k][1] >= days[1]
  BY <1>9 DEF StagesUpTo
<1>11. Suffices(stages, left)
  <2>1. Len(Rows(sizes, m)) = m
    BY <1>0, <1>8, RowsType
  <2>2. Total(Rows(sizes, m)) = Sums(Rows(sizes, m))[m]
    BY <2>1 DEF Total
  <2>. QED
    BY <1>8, <1>10, <2>2 DEF Suffices
<1>12. IsHandedOut(planned, left, stages)
  BY <1>3 DEF IsHandedOut
<1>. HIDE DEF planned
<1>13. /\ IsView(planned, Slice(left, 0, Len(left)))
       /\ Len(planned) = Len(stages) /\ \A k \in 1..Len(planned) : planned[k].day = stages[k][1]
  BY <1>0, <1>2, <1>10, <1>11, <1>12, HandedOutAre
<1>14. \A k \in 1..Len(stages) : stages[k][1] \in Int
  <2>1. \A k \in 1..Len(stages) : stages[k] \in Stage
    BY <1>10
  <2>. QED
    BY <2>1 DEF Stage
<1>15. ASSUME NEW k \in 1..Len(planned)
       PROVE  Len(days) > 0
  <2>1. Len(left) # 0
    <3>. PICK s : s \in planned[k].subnets
      BY <1>13 DEF IsView
    <3>1. s \in Slice(left, 0, Len(left))
      BY <1>13, ViewType
    <3>. PICK i \in 1..Len(left) : TRUE
      BY <3>1 DEF Slice
    <3>. QED
      BY <1>2
  <2>. QED
    BY <1>1, <2>1
<1>. QED
  BY <1>4, <1>10, <1>13, <1>14, <1>15 DEF planned, days, left

LEMMA ViewGrows ==
    ASSUME MaxStageSize \in Nat \ {0}, NEW set, NEW view, IsView(view, set), NEW s, s \notin set, NEW day \in Int
    PROVE  IsView(Append(view, [day |-> day, subnets |-> {s}]), set \cup {s})
<1>. DEFINE T == [day : Int, subnets : SUBSET set]
            U == [day : Int, subnets : SUBSET (set \cup {s})]
            new == [day |-> day, subnets |-> {s}]
            longer == Append(view, new)
<1>1. view \in Seq(T)
  BY DEF IsView
<1>2. T \subseteq U /\ new \in U /\ new.subnets = {s}
  OBVIOUS
<1>. HIDE DEF T, U, new
<1>3. view \in Seq(U)
  BY <1>1, <1>2, SeqMonotonic
<1>. PICK N \in Nat : N = Len(view)
  BY <1>1
<1>4. longer \in Seq(U) /\ Len(longer) = N + 1 /\ longer[N + 1] = new /\ \A k \in 1..N : longer[k] = view[k]
  BY <1>2, <1>3
<1>. HIDE DEF longer
<1>5. \A k \in 1..(N + 1) : k \in 1..N \/ k = N + 1
  OBVIOUS
<1>6. IsFiniteSet({s}) /\ Cardinality({s}) = 1
  BY FS_Singleton
<1>7. ASSUME NEW k \in 1..(N + 1)
      PROVE  /\ longer[k].subnets # {} /\ IsFiniteSet(longer[k].subnets)
             /\ Cardinality(longer[k].subnets) <= MaxStageSize
  <2>1. CASE k \in 1..N
    BY <1>4, <2>1 DEF IsView
  <2>2. CASE k = N + 1
    <3>1. longer[k].subnets = {s}
      BY <1>2, <1>4, <2>2
    <3>2. 1 <= MaxStageSize
      OBVIOUS
    <3>. QED
      BY <1>6, <3>1, <3>2
  <2>. QED
    BY <1>5, <2>1, <2>2
<1>8. ASSUME NEW j \in 1..(N + 1), NEW k \in 1..(N + 1), j < k
      PROVE  longer[j].subnets \cap longer[k].subnets = {}
  <2>1. j \in 1..N
    BY <1>8
  <2>2. CASE k \in 1..N
    BY <1>4, <1>8, <2>1, <2>2 DEF IsView
  <2>3. CASE k = N + 1
    <3>1. longer[j] = view[j] /\ longer[k].subnets = {s}
      BY <1>2, <1>4, <2>1, <2>3
    <3>2. view[j].subnets \subseteq set
      BY <2>1, ViewType
    <3>. QED
      BY <3>1, <3>2
  <2>. QED
    BY <1>5, <2>2, <2>3
<1>9. ASSUME NEW x \in set \cup {s}
      PROVE  \E k \in 1..(N + 1) : x \in longer[k].subnets
  <2>1. CASE x = s
    <3>1. N + 1 \in 1..(N + 1)
      OBVIOUS
    <3>. QED
      BY <1>2, <1>4, <2>1, <3>1
  <2>2. CASE x \in set
    <3>. PICK k \in 1..N : x \in view[k].subnets
      BY <2>2 DEF IsView
    <3>1. k \in 1..(N + 1)
      OBVIOUS
    <3>. QED
      BY <1>4, <3>1
  <2>. QED
    BY <2>1, <2>2
<1>. QED
  BY <1>4, <1>7, <1>8, <1>9 DEF IsView, U, longer, new

\* The day of the NNS is one of the days of the rollout.
LEMMA NnsDayIs ==
    ASSUME LastDay \in Nat, Typed, OnDaysOfTheRollout, ~Schedules!Panics, NEW planned
    PROVE  /\ Schedules!NnsDay(planned) \in Int
           /\ Schedules!NnsDay(planned) \in Schedules!ToSet(Schedules!RolloutDays)
<1>. DEFINE days == Schedules!RolloutDays
            future == Schedules!FutureDays
            stages == Schedules!Stages
            early == ~(planned # <<>> \/ Schedules!DaysWithStages = {} \/ Schedules!Today \in Schedules!DaysWithStages)
            day == Schedules!NnsDay(planned)
<1>1. days \in Seq(Int) /\ Schedules!ToSet(days) = {days[k] : k \in 1..Len(days)}
  <2>1. days \in Seq(Int)
    BY RolloutDaysAre
  <2>. HIDE DEF days
  <2>. QED
    BY <2>1, SetOfList
<1>2. day = IF early THEN days[Len(days) - 1] ELSE Schedules!Last(days)
  BY DEF Schedules!NnsDay
<1>3. future # <<>>
  BY DEF Schedules!Panics
<1>4. /\ future \in Seq(Int)
      /\ \A k \in 1..Len(future) : future[k] >= now.day /\ future[k] \in Schedules!ToSet(days)
  BY FutureDaysAre
<1>5. early => \E d \in Schedules!DaysWithStages : d # now.day
  BY DEF Schedules!Today
<1>6. \A d \in Schedules!DaysWithStages : d \in Schedules!ToSet(days) /\ \E i \in DOMAIN stages : stages[i][1].day = d
  BY DEF Schedules!DaysWithStages, Schedules!StagesOn
<1>7. StagedUpTo(stages, Len(proposals), proposals)
  BY StagesAre DEF Typed
<1>. HIDE DEF days, future, stages, early, day
<1>8. stages \in Seq(Seq(Proposal) \ {<<>>})
      /\ \A k \in 1..Len(stages) : \A j \in 1..Len(stages[k]) : \E i \in 1..Len(proposals) : stages[k][j] = proposals[i]
  BY <1>7 DEF StagedUpTo, Stagings
<1>. PICK N \in Nat : N = Len(days)
  BY <1>1
<1>. PICK next \in 1..N : days[next] = future[1] /\ future[1] >= now.day
  <2>1. 1 \in 1..Len(future)
    BY <1>3, <1>4
  <2>. QED
    BY <1>1, <1>4, <2>1
<1>9. CASE early
  <2>. PICK d \in Schedules!DaysWithStages : d # now.day
    BY <1>5, <1>9
  <2>. PICK i \in DOMAIN stages : stages[i][1].day = d
    BY <1>6
  <2>1. i \in 1..Len(stages) /\ stages[i] \in Seq(Proposal) \ {<<>>}
    BY <1>8
  <2>2. 1 \in 1..Len(stages[i])
    BY <2>1
  <2>. PICK j \in 1..Len(proposals) : stages[i][1] = proposals[j]
    BY <1>8, <2>1, <2>2
  <2>. PICK past \in 1..N : days[past] = d
    BY <1>1, <1>6
  <2>3. d <= now.day /\ d \in Nat /\ now.day \in Nat
    BY StartDayIs, ProposalType DEF OnDaysOfTheRollout
  <2>4. days[past] # days[next]
    <3>. PICK x \in Int : x = days[next]
      BY <1>1
    <3>. PICK y \in Nat : y = now.day
      BY <2>3
    <3>1. x >= y /\ d <= y /\ d # y
      BY <2>3
    <3>. QED
      BY <2>3, <3>1
  <2>5. N - 1 \in 1..N
    <3>1. past # next
      BY <2>4
    <3>. QED
      BY <3>1
  <2>. QED
    BY <1>1, <1>2, <1>9, <2>5 DEF day, days
<1>10. CASE ~early
  <2>1. N \in 1..N
    OBVIOUS
  <2>. QED
    BY <1>1, <1>2, <1>10, <2>1 DEF Schedules!Last, day, days
<1>. QED
  BY <1>9, <1>10

\* The view shows every subnet that no proposal is for, and today only on a day of
\* the rollout.
LEMMA ScheduleIs ==
    ASSUME LastDay \in Nat, Typed, OnDaysOfTheRollout, ScheduleKnown, ~Schedules!Panics
    PROVE  /\ IsView(Schedules!Schedule, Schedules!EverySubnet \ Proposed)
           /\ NnsSubnet \notin Proposed => Schedules!Last(Schedules!Schedule).subnets = {NnsSubnet}
           /\ Schedules!DueToday => now.day \in Schedules!ToSet(Schedules!RolloutDays)
           /\ Schedules!DueToday /\ NnsSubnet \in Schedules!Schedule[1].subnets =>
                Schedules!EverySubnet \ Proposed = {NnsSubnet}
<1>. DEFINE view == Schedules!Schedule
            planned == Schedules!Planned
            day == Schedules!NnsDay(planned)
            others == Schedules!EverySubnet \ ({NnsSubnet} \cup Proposed)
            due == view # <<>> /\ view[1].day = now.day
<1>1. /\ IsView(planned, others)
      /\ \A k \in 1..Len(planned) : /\ planned[k].day \in Int /\ planned[k].day >= Schedules!AppDays[1]
                                    /\ Len(Schedules!AppDays) > 0
  BY PlannedIs
<1>2. /\ Schedules!AppDays \in Seq(Int)
      /\ Len(Schedules!AppDays) > 0 =>
           Schedules!AppDays[1] >= now.day /\ Schedules!AppDays[1] \in Schedules!ToSet(Schedules!RolloutDays)
  BY AppDaysAre
<1>3. view = IF NnsSubnet \in Proposed THEN planned ELSE Append(planned, [day |-> day, subnets |-> {NnsSubnet}])
  BY SubmittedIs DEF Schedules!Schedule, Schedules!WithNns
<1>4. day \in Int /\ day \in Schedules!ToSet(Schedules!RolloutDays)
  BY NnsDayIs
<1>5. Schedules!DueToday <=> due
  BY DEF Schedules!DueToday, Schedules!Today
<1>. HIDE DEF view, planned, day, due
<1>6. planned \in Seq([day : Int, subnets : SUBSET others]) /\ Len(planned) \in Nat
  <2>. HIDE DEF others
  <2>1. planned \in Seq([day : Int, subnets : SUBSET others])
    BY <1>1 DEF IsView
  <2>. QED
    BY <2>1
<1>7. ASSUME 1 \in 1..Len(planned), planned[1].day = now.day
      PROVE  now.day \in Schedules!ToSet(Schedules!RolloutDays)
  <2>. PICK x \in Int : x = Schedules!AppDays[1]
    <3>1. 1 \in 1..Len(Schedules!AppDays)
      BY <1>1, <1>2, <1>7
    <3>. QED
      BY <1>2, <3>1
  <2>. PICK y \in Nat : y = now.day
    BY StartDayIs
  <2>1. y >= x /\ x >= y
    BY <1>1, <1>2, <1>7
  <2>2. x = y
    BY <2>1
  <2>. QED
    BY <1>1, <1>2, <1>7, <2>2
<1>8. CASE NnsSubnet \in Proposed
  <2>1. view = planned /\ others = Schedules!EverySubnet \ Proposed
    BY <1>3, <1>8
  <2>2. due => now.day \in Schedules!ToSet(Schedules!RolloutDays)
    <3>1. due => 1 \in 1..Len(planned) /\ planned[1].day = now.day
      BY <1>6, <2>1 DEF due
    <3>. QED
      BY <1>7, <3>1
  <2>3. ~(due /\ NnsSubnet \in view[1].subnets)
    <3>1. ASSUME due
          PROVE  view[1].subnets \subseteq others
      <4>1. 1 \in 1..Len(planned)
        BY <1>6, <2>1, <3>1 DEF due
      <4>. QED
        BY <1>1, <2>1, <4>1, ViewType
    <3>. QED
      BY <3>1
  <2>. HIDE DEF others
  <2>. QED
    BY <1>1, <1>5, <1>8, <2>1, <2>2, <2>3 DEF view
<1>9. CASE NnsSubnet \notin Proposed
  <2>. DEFINE new == [day |-> day, subnets |-> {NnsSubnet}]
  <2>1. view = Append(planned, new) /\ new.subnets = {NnsSubnet} /\ new.day = day
    BY <1>3, <1>9
  <2>2. NnsSubnet \in Schedules!EverySubnet
    BY DEF ScheduleKnown
  <2>3. others \cup {NnsSubnet} = Schedules!EverySubnet \ Proposed /\ NnsSubnet \notin others
    BY <1>9, <2>2
  <2>. HIDE DEF others
  <2>4. IsView(Append(planned, new), others \cup {NnsSubnet})
    BY <1>1, <1>4, <2>3, CountsKnown, ViewGrows
  <2>. HIDE DEF new
  <2>. DEFINE T == [day : Int, subnets : SUBSET others]
  <2>. PICK N \in Nat : N = Len(planned)
    BY <1>6
  <2>5. Len(view) = N + 1 /\ view[N + 1] = new /\ \A k \in 1..N : view[k] = planned[k]
    <3>. HIDE DEF T
    <3>1. planned \in Seq(T)
      BY <1>6 DEF T
    <3>. QED
      BY <2>1, <3>1, AppendProperties
  <2>6. Schedules!Last(view).subnets = {NnsSubnet}
    BY <2>1, <2>5 DEF Schedules!Last
  <2>7. CASE N = 0
    <3>1. view[1] = new
      BY <2>5, <2>7
    <3>2. due => now.day \in Schedules!ToSet(Schedules!RolloutDays)
      BY <1>4, <2>1, <3>1 DEF due
    <3>3. others = {}
      <4>1. \A s \in others : \E k \in 1..0 : TRUE
        BY <1>1, <2>7 DEF IsView
      <4>. QED
        BY <4>1
    <3>. QED
      BY <1>5, <1>9, <2>1, <2>3, <2>4, <2>6, <3>2, <3>3 DEF view
  <2>8. CASE N # 0
    <3>1. 1 \in 1..N /\ view[1] = planned[1]
      BY <2>5, <2>8
    <3>2. due => now.day \in Schedules!ToSet(Schedules!RolloutDays)
      BY <1>7, <3>1 DEF due
    <3>3. NnsSubnet \notin view[1].subnets
      <4>1. view[1].subnets \subseteq others
        BY <1>1, <3>1, ViewType
      <4>. QED
        BY <2>3, <4>1
    <3>. QED
      BY <1>5, <1>9, <2>1, <2>3, <2>4, <2>6, <3>2, <3>3 DEF view
  <2>. QED
    BY <2>7, <2>8
<1>. QED
  BY <1>8, <1>9

-----------------------------------------------------------------------------
(* The inductive invariant.                                                  *)

OnePerSubnet == \A i, j \in 1..Len(proposals) : i # j => proposals[i].subnet # proposals[j].subnet

Done(i) == proposals[i].executed /\ upgrade[proposals[i].subnet] = "Complete"

\* A proposal that is not done is in the last stage.
OthersDone == \A i \in 1..Len(proposals) : Done(i) \/ \A j \in i..Len(proposals) : Together(proposals[i], proposals[j])

\* When the NNS is proposed, all others are executed.
NnsEndsIt ==
    NnsSubnet \in Proposed =>
      /\ Schedules!EverySubnet \subseteq Proposed
      /\ \A i \in 1..Len(proposals) : proposals[i].subnet # NnsSubnet => proposals[i].executed

ScheduleInv == Typed /\ OnDaysOfTheRollout /\ OnePerSubnet /\ OthersDone /\ NnsEndsIt

\* When nothing is active every proposal is done.
LEMMA QuietIsDone ==
    ASSUME Typed, OthersDone, ~Schedules!Active
    PROVE  \A i \in 1..Len(proposals) : Done(i)
<1>. SUFFICES ASSUME NEW i \in 1..Len(proposals), ~Done(i)
              PROVE  FALSE
  OBVIOUS
<1>. DEFINE stages == Schedules!Stages
            last == Schedules!Last(stages)
<1>. PICK n \in Nat : n = Len(proposals)
  BY DEF Typed
<1>1. StagedUpTo(stages, n, proposals)
  BY StagesAre DEF Typed
<1>2. stages = <<>> \/ Schedules!States(Len(stages)) = {"Complete"}
  BY DEF Schedules!Active
<1>3. \A k \in 1..Len(stages) : Schedules!States(k) = {Schedules!State(k, p) : p \in Schedules!ToSet(stages[k])}
  BY DEF Schedules!States
<1>4. \A k, p : Schedules!State(k, p) = IF k < Len(stages) THEN "Complete"
                                        ELSE IF p.executed THEN upgrade[p.subnet] ELSE "Submitted"
  BY DEF Schedules!State
<1>. HIDE DEF stages
<1>5. stages \in Seq(Seq(Proposal) \ {<<>>}) /\ stages # <<>>
  <2>1. n > 0
    OBVIOUS
  <2>. QED
    BY <1>1, <2>1 DEF StagedUpTo, Stagings
<1>. PICK N \in Nat : N = Len(stages)
  BY <1>5
<1>6. N \in 1..N /\ last = stages[N] /\ last \in Seq(Proposal)
  <2>1. N # 0
    BY <1>5
  <2>. QED
    BY <1>5, <2>1 DEF Schedules!Last
<1>. HIDE DEF last
<1>7. \A j \in i..n : Together(proposals[i], proposals[j])
  BY DEF OthersDone
<1>. PICK k \in 1..Len(last) : last[k] = proposals[i]
  BY <1>1, <1>7 DEF StagedUpTo, last
<1>8. proposals[i] \in Schedules!ToSet(last)
  <2>1. Schedules!ToSet(last) = {last[j] : j \in 1..Len(last)}
    BY <1>6, SetOfList
  <2>. QED
    BY <2>1
<1>9. Schedules!State(N, proposals[i]) = "Complete"
  BY <1>2, <1>3, <1>5, <1>6, <1>8
<1>10. ~(N < N)
  OBVIOUS
<1>11. proposals[i].executed /\ upgrade[proposals[i].subnet] = "Complete"
  BY <1>4, <1>9, <1>10
<1>. QED
  BY <1>11 DEF Done

-----------------------------------------------------------------------------
\* A finite set, as a list without repetition.
LEMMA SetToSeqIs ==
    ASSUME NEW S, IsFiniteSet(S)
    PROVE  /\ Schedules!SetToSeq(S) \in [1..Cardinality(S) -> S] /\ Cardinality(S) \in Nat
           /\ \A i, j \in 1..Cardinality(S) : i # j => Schedules!SetToSeq(S)[i] # Schedules!SetToSeq(S)[j]
<1>. PICK n \in Nat : n = Cardinality(S)
  BY FS_CardinalityType
<1>1. \E f : f \in Bijection(1..n, S)
  BY FS_CardinalityType DEF ExistsBijection
<1>. PICK f : f \in Bijection(1..n, S)
  BY <1>1
<1>. DEFINE Fine(g) == \A a, b \in DOMAIN g : g[a] = g[b] => a = b
            all == {g \in [1..n -> S] : Fine(g)}
            h == CHOOSE g \in [1..n -> S] : Fine(g)
<1>2. f \in [1..n -> S] /\ Fine(f)
  BY DEF Bijection, Injection, IsInjective
<1>3. h \in [1..n -> S] /\ Fine(h)
  <2>. HIDE DEF Fine
  <2>. QED
    BY <1>2
<1>4. Schedules!SetToSeq(S) = h
  <2>1. Schedules!Cardinality(S) = n
    BY SchedulesOperators
  <2>. QED
    BY <2>1 DEF Schedules!SetToSeq, Schedules!IsInjective
<1>. HIDE DEF h
<1>5. \A i, j \in 1..n : i # j => h[i] # h[j]
  BY <1>3
<1>. QED
  BY <1>3, <1>4, <1>5

-----------------------------------------------------------------------------
(* The steps.                                                                *)

\* The next stage of the day is submitted.
LEMMA SubmitKeepsSchedule ==
    ASSUME ScheduleKnown, ScheduleInv, Schedules!Submit
    PROVE  ScheduleInv'
<1>. DEFINE view == Schedules!Schedule
            S == view[1].subnets
            due == Schedules!SetToSeq(S)
            new == [i \in DOMAIN due |->
                      [subnet |-> due[i], day |-> now.day, hour |-> now.hour, executed |-> FALSE]]
            every == Schedules!EverySubnet
<1>1. /\ ~Schedules!Panics /\ ~Schedules!Active /\ Schedules!DueToday
      /\ proposals' = proposals \o new /\ now' = now /\ upgrade' = upgrade
  <2>1. Head(view) = view[1]
    <3>1. view # <<>>
      BY DEF Schedules!Submit, Schedules!DueToday
    <3>2. view \in Seq([day : Int, subnets : SUBSET (Schedules!EverySubnet \ Proposed)])
      <4>1. IsView(view, Schedules!EverySubnet \ Proposed)
        BY ScheduleIs, CountsKnown DEF ScheduleInv, Schedules!Submit
      <4>. QED
        BY <4>1 DEF IsView
    <3>. HIDE DEF view
    <3>. QED
      BY <3>1, <3>2
  <2>. QED
    BY <2>1 DEF Schedules!Submit
<1>2. Typed /\ OnDaysOfTheRollout /\ OnePerSubnet /\ NnsEndsIt /\ LastDay \in Nat
  BY CountsKnown DEF ScheduleInv
<1>3. /\ IsView(view, every \ Proposed)
      /\ now.day \in Schedules!ToSet(Schedules!RolloutDays)
      /\ NnsSubnet \in S => every \ Proposed = {NnsSubnet}
  BY <1>1, <1>2, ScheduleIs
<1>4. view # <<>>
  BY <1>1 DEF Schedules!DueToday
<1>5. /\ now.day \in Schedules!StartDay..(Schedules!StartDay + 13)
      /\ ~Schedules!Weekend(now.day) /\ now.day \notin SparedDays
  BY <1>2, <1>3, RolloutDaysAre
<1>6. \A i \in 1..Len(proposals) : Done(i)
  BY <1>1, QuietIsDone DEF ScheduleInv
<1>. HIDE DEF view
<1>7. 1 \in 1..Len(view)
  <2>. DEFINE T == [day : Int, subnets : SUBSET (every \ Proposed)]
  <2>. HIDE DEF T
  <2>1. view \in Seq(T)
    BY <1>3 DEF IsView, T
  <2>. QED
    BY <1>4, <2>1
<1>8. S \subseteq every \ Proposed /\ IsFiniteSet(S) /\ S # {}
  BY <1>3, <1>7, ViewType DEF IsView
<1>. HIDE DEF S
<1>. PICK m \in Nat : m = Cardinality(S)
  BY <1>8, FS_CardinalityType
<1>9. due \in [1..m -> S] /\ \A i, j \in 1..m : i # j => due[i] # due[j]
  BY <1>8, SetToSeqIs
<1>. HIDE DEF due, every
<1>10. now.day \in 0..LastDay /\ now.hour \in 0..Hours /\ now.day \in Nat
  BY <1>2, StartDayIs DEF Typed
<1>. DEFINE E(i) == [subnet |-> due[i], day |-> now.day, hour |-> now.hour, executed |-> FALSE]
<1>11. \A i \in 1..m : E(i) \in Proposal
  BY <1>8, <1>9, <1>10 DEF Proposal, every
<1>12. new \in Seq(Proposal) /\ Len(new) = m /\ \A i \in 1..m : new[i] = E(i)
  <2>1. new = [i \in 1..m |-> E(i)]
    BY <1>9
  <2>. HIDE DEF E
  <2>2. [i \in 1..m |-> E(i)] \in [1..m -> Proposal]
    BY <1>11
  <2>. HIDE DEF new
  <2>3. new \in [1..m -> Proposal] /\ \A i \in 1..m : new[i] = E(i)
    BY <2>1, <2>2
  <2>. QED
    BY <2>3, ListOf
<1>. HIDE DEF new
<1>. PICK n \in Nat : n = Len(proposals)
  BY <1>2 DEF Typed
<1>. DEFINE next == proposals'
<1>13. /\ next \in Seq(Proposal) /\ Len(next) = n + m
       /\ \A k \in 1..(n + m) : k \in 1..n \/ k - n \in 1..m
       /\ \A k \in 1..n : next[k] = proposals[k]
       /\ \A k \in 1..(n + m) : ~(k <= n) => next[k] = E(k - n)
  <2>1. proposals \in Seq(Proposal)
    BY <1>2 DEF Typed
  <2>2. /\ next \in Seq(Proposal) /\ Len(next) = n + m
        /\ \A k \in 1..(n + m) : next[k] = IF k <= n THEN proposals[k] ELSE new[k - n]
    <3>1. /\ proposals \o new \in Seq(Proposal) /\ Len(proposals \o new) = Len(proposals) + Len(new)
          /\ \A k \in 1..(Len(proposals) + Len(new)) :
               (proposals \o new)[k] = IF k <= Len(proposals) THEN proposals[k] ELSE new[k - Len(proposals)]
      BY <1>12, <2>1, ConcatProperties
    <3>. QED
      BY <1>1, <1>12, <3>1
  <2>3. \A k \in 1..(n + m) : k \in 1..n \/ k - n \in 1..m
    OBVIOUS
  <2>4. \A k \in 1..n : k \in 1..(n + m) /\ k <= n
    OBVIOUS
  <2>5. \A k \in 1..(n + m) : ~(k <= n) => k - n \in 1..m
    OBVIOUS
  <2>. HIDE DEF next, E
  <2>. QED
    BY <1>12, <2>2, <2>3, <2>4, <2>5
<1>. HIDE DEF next
\* Those before, and those of the stage.
<1>14. \A k \in 1..(n + m) :
         \/ k \in 1..n /\ next[k] = proposals[k] /\ Done(k)
         \/ /\ k - n \in 1..m /\ ~(k <= n) /\ next[k].subnet = due[k - n] /\ next[k].day = now.day
            /\ next[k].hour = now.hour /\ ~next[k].executed /\ next[k].subnet \in S
  <2>1. ASSUME NEW k \in 1..(n + m)
        PROVE  \/ k \in 1..n /\ next[k] = proposals[k] /\ Done(k)
               \/ /\ k - n \in 1..m /\ ~(k <= n) /\ next[k].subnet = due[k - n] /\ next[k].day = now.day
                  /\ next[k].hour = now.hour /\ ~next[k].executed /\ next[k].subnet \in S
    <3>1. CASE k <= n
      <4>1. k \in 1..n
        BY <3>1
      <4>. QED
        BY <1>6, <1>13, <4>1
    <3>2. CASE ~(k <= n)
      <4>1. k - n \in 1..m
        BY <3>2
      <4>2. next[k] = E(k - n)
        BY <1>13, <3>2
      <4>. QED
        BY <1>9, <3>2, <4>1, <4>2
    <3>. QED
      BY <3>1, <3>2
  <2>. QED
    BY <2>1
<1>. HIDE DEF E
<1>15. Typed'
  BY <1>1, <1>2, <1>13 DEF Typed, next
<1>16. n = 0 \/ (n > 0 /\ next[1] = proposals[1] /\ proposals # <<>> /\ 1 \in 1..n)
  BY <1>2, <1>13 DEF Typed
<1>17. \A k \in 1..n : proposals[k].day \in Nat /\ proposals[k].day <= now.day /\ proposals[k].day <= proposals[1].day + 13
                       /\ ~Schedules!Weekend(proposals[k].day) /\ proposals[k].day \notin SparedDays
  BY <1>2, ProposalType DEF OnDaysOfTheRollout
<1>18. (next[1].day \in Nat /\ now.day <= next[1].day + 13) \/ n + m = 0
  <2>1. CASE n = 0
    <3>1. CASE m = 0
      BY <2>1, <3>1
    <3>2. CASE m # 0
      <4>1. 1 \in 1..(n + m) /\ ~(1 \in 1..n)
        BY <2>1, <3>2
      <4>2. next[1].day = now.day
        BY <1>14, <4>1
      <4>. QED
        BY <1>10, <4>2
    <3>. QED
      BY <3>1, <3>2
  <2>2. CASE n > 0 /\ next[1] = proposals[1] /\ proposals # <<>> /\ 1 \in 1..n
    <3>1. Schedules!StartDay = proposals[1].day
      BY <1>2, <2>2, StartDayIs
    <3>2. proposals[1].day \in Nat
      BY <1>17, <2>2
    <3>. QED
      BY <1>5, <1>10, <2>2, <3>1, <3>2
  <2>. QED
    BY <1>16, <2>1, <2>2
<1>19. OnDaysOfTheRollout'
  <2>1. ASSUME NEW k \in 1..(n + m)
        PROVE  /\ next[k].day <= now.day /\ next[k].day <= next[1].day + 13
               /\ ~Schedules!Weekend(next[k].day) /\ next[k].day \notin SparedDays
    <3>1. CASE k \in 1..n /\ next[k] = proposals[k]
      <4>1. next[1] = proposals[1]
        BY <1>16, <3>1
      <4>. QED
        BY <1>17, <3>1, <4>1
    <3>2. CASE next[k].day = now.day
      <4>1. n + m # 0
        OBVIOUS
      <4>. QED
        BY <1>5, <1>10, <1>18, <3>2, <4>1
    <3>. QED
      BY <1>14, <3>1, <3>2
  <2>2. ASSUME NEW j \in 1..(n + m), NEW k \in 1..(n + m), j < k
        PROVE  next[j].day <= next[k].day
    <3>1. CASE k \in 1..n /\ next[k] = proposals[k]
      <4>1. j \in 1..n /\ ~(j - n \in 1..m)
        BY <2>2, <3>1
      <4>2. next[j] = proposals[j]
        BY <1>13, <4>1
      <4>. QED
        BY <1>2, <2>2, <3>1, <4>1, <4>2 DEF OnDaysOfTheRollout
    <3>2. CASE next[k].day = now.day
      BY <2>1, <3>2
    <3>. QED
      BY <1>14, <3>1, <3>2
  <2>3. now' = now /\ Len(next) = n + m
    BY <1>1, <1>13
  <2>4. \A d : Schedules!Weekend(d)' <=> Schedules!Weekend(d)
    BY DEF Schedules!Weekend
  <2>. QED
    BY <2>1, <2>2, <2>3, <2>4 DEF OnDaysOfTheRollout, next
<1>20. OnePerSubnet'
  <2>1. ASSUME NEW j \in 1..(n + m), NEW k \in 1..(n + m), j # k
        PROVE  next[j].subnet # next[k].subnet
    <3>1. \A i \in 1..n : proposals[i].subnet \notin S
      BY <1>8 DEF Proposed
    <3>2. CASE j \in 1..n /\ next[j] = proposals[j] /\ k \in 1..n /\ next[k] = proposals[k]
      BY <1>2, <2>1, <3>2 DEF OnePerSubnet
    <3>3. CASE j - n \in 1..m /\ k - n \in 1..m /\ next[j].subnet = due[j - n] /\ next[k].subnet = due[k - n]
      <4>1. j - n # k - n
        BY <2>1
      <4>. QED
        BY <1>9, <3>3, <4>1
    <3>. QED
      BY <1>14, <3>1, <3>2, <3>3
  <2>. QED
    BY <1>13, <2>1 DEF OnePerSubnet, next
<1>21. OthersDone'
  <2>1. ASSUME NEW k \in 1..(n + m)
        PROVE  \/ next[k].executed /\ upgrade[next[k].subnet] = "Complete"
               \/ \A j \in k..(n + m) : Together(next[k], next[j])
    <3>1. CASE k \in 1..n /\ next[k] = proposals[k] /\ Done(k)
      BY <3>1 DEF Done
    <3>2. CASE ~(k <= n) /\ next[k].day = now.day /\ next[k].hour = now.hour
      <4>1. ASSUME NEW j \in k..(n + m)
            PROVE  Together(next[k], next[j])
        <5>1. j \in 1..(n + m) /\ ~(j \in 1..n)
          BY <3>2
        <5>. QED
          BY <1>14, <3>2, <5>1 DEF Together
      <4>. QED
        BY <4>1
    <3>. QED
      BY <1>14, <3>1, <3>2
  <2>2. upgrade' = upgrade /\ Len(next) = n + m
    BY <1>1, <1>13
  <2>. QED
    BY <2>1, <2>2 DEF OthersDone, Done, Together, next
<1>22. NnsEndsIt'
  <2>1. Proposed' = {next[k].subnet : k \in 1..(n + m)}
    BY <1>13 DEF Proposed, next
  <2>2. Proposed \subseteq Proposed'
    <3>1. \A k \in 1..n : k \in 1..(n + m) /\ next[k].subnet = proposals[k].subnet
      BY <1>13
    <3>. QED
      BY <2>1, <3>1 DEF Proposed
  <2>3. every' = every
    BY DEF every, Schedules!EverySubnet
  <2>4. ASSUME NnsSubnet \in Proposed'
        PROVE  /\ every \subseteq Proposed'
               /\ \A k \in 1..(n + m) : next[k].subnet # NnsSubnet => next[k].executed
    <3>1. CASE NnsSubnet \in Proposed
      <4>1. every \subseteq Proposed
        BY <1>2, <3>1 DEF NnsEndsIt, every
      <4>. QED
        BY <1>8, <4>1
    <3>2. CASE NnsSubnet \notin Proposed
      <4>1. NnsSubnet \in S
        <5>. PICK k \in 1..(n + m) : next[k].subnet = NnsSubnet
          BY <2>1, <2>4
        <5>1. ~(k \in 1..n /\ next[k] = proposals[k])
          BY <3>2 DEF Proposed
        <5>. QED
          BY <1>14, <5>1
      <4>2. every \ Proposed = {NnsSubnet}
        BY <1>3, <4>1 DEF S
      <4>3. every \subseteq Proposed'
        BY <2>2, <2>4, <4>2
      <4>4. \A s \in S : s = NnsSubnet
        BY <1>8, <4>2
      <4>. QED
        BY <1>14, <4>3, <4>4 DEF Done
    <3>. QED
      BY <3>1, <3>2
  <2>. QED
    BY <1>13, <2>3, <2>4 DEF NnsEndsIt, next, every
<1>. QED
  BY <1>15, <1>19, <1>20, <1>21, <1>22 DEF ScheduleInv

LEMMA DaysAre ==
    ASSUME NEW m \in Nat, Len(proposals') = m, now' = now,
           \A k \in 1..m : /\ proposals'[k].day <= now.day /\ proposals'[k].day <= proposals'[1].day + 13
                           /\ ~Schedules!Weekend(proposals'[k].day) /\ proposals'[k].day \notin SparedDays,
           \A j, k \in 1..m : j < k => proposals'[j].day <= proposals'[k].day
    PROVE  OnDaysOfTheRollout'
<1>1. \A d : Schedules!Weekend(d)' <=> Schedules!Weekend(d)
  BY DEF Schedules!Weekend
<1>. QED
  BY <1>1 DEF OnDaysOfTheRollout

\* A proposal is executed, and its subnet starts over.
LEMMA ExecuteKeepsSchedule ==
    ASSUME ScheduleKnown, ScheduleInv, NEW i \in DOMAIN proposals, Schedules!Execute(i)
    PROVE  ScheduleInv'
<1>. DEFINE next == proposals'
            s == proposals[i].subnet
<1>1. Typed /\ OnDaysOfTheRollout /\ OnePerSubnet /\ OthersDone /\ NnsEndsIt
  BY DEF ScheduleInv
<1>2. /\ ~proposals[i].executed /\ next = [proposals EXCEPT ![i].executed = TRUE]
      /\ upgrade' = [upgrade EXCEPT ![s] = "Preparing"] /\ now' = now
  BY DEF Schedules!Execute
<1>3. proposals \in Seq(Proposal) /\ DOMAIN proposals = 1..Len(proposals)
  BY <1>1 DEF Typed
<1>. PICK n \in Nat : n = Len(proposals)
  BY <1>1 DEF Typed
<1>4. i \in 1..n /\ s \in Schedules!EverySubnet
  BY <1>1, <1>3, ProposalType
<1>5. /\ next \in Seq(Proposal) /\ Len(next) = n
      /\ \A k \in 1..n : /\ next[k].subnet = proposals[k].subnet /\ next[k].day = proposals[k].day
                         /\ next[k].hour = proposals[k].hour
                         /\ next[k].executed = IF k = i THEN TRUE ELSE proposals[k].executed
  <2>. DEFINE p == [proposals[i] EXCEPT !.executed = TRUE]
  <2>1. proposals[i] \in Proposal
    BY <1>3, <1>4
  <2>2. /\ p \in Proposal /\ p.subnet = proposals[i].subnet /\ p.day = proposals[i].day
        /\ p.hour = proposals[i].hour /\ p.executed = TRUE
    BY <2>1 DEF Proposal
  <2>3. next = [proposals EXCEPT ![i] = p]
    BY <1>2
  <2>. HIDE DEF p, next
  <2>4. /\ next \in Seq(Proposal) /\ Len(next) = n
        /\ \A k \in 1..n : next[k] = IF k = i THEN p ELSE proposals[k]
    BY <1>3, <1>4, <2>2, <2>3, ExceptSeq
  <2>. QED
    BY <2>2, <2>4
<1>. HIDE DEF next
<1>6. /\ upgrade' \in [Schedules!EverySubnet -> UpgradeStates]
      /\ \A x \in Schedules!EverySubnet : x # s => upgrade'[x] = upgrade[x]
  <2>1. upgrade \in [Schedules!EverySubnet -> UpgradeStates]
    BY <1>1 DEF Typed
  <2>2. "Preparing" \in UpgradeStates
    BY DEF UpgradeStates
  <2>. HIDE DEF s
  <2>. QED
    BY <1>2, <1>4, <2>1, <2>2
<1>7. Typed'
  BY <1>1, <1>2, <1>5, <1>6 DEF Typed, next
<1>8. OnDaysOfTheRollout'
  <2>1. ASSUME NEW k \in 1..n
        PROVE  /\ next[k].day <= now.day /\ next[k].day <= next[1].day + 13
               /\ ~Schedules!Weekend(next[k].day) /\ next[k].day \notin SparedDays
    <3>1. 1 \in 1..n
      OBVIOUS
    <3>2. next[1].day = proposals[1].day /\ next[k].day = proposals[k].day
      BY <1>5, <3>1
    <3>. QED
      BY <1>1, <3>2 DEF OnDaysOfTheRollout
  <2>2. ASSUME NEW j \in 1..n, NEW k \in 1..n, j < k
        PROVE  next[j].day <= next[k].day
    BY <1>1, <1>5, <2>2 DEF OnDaysOfTheRollout
  <2>3. Len(proposals') = n /\ now' = now
    BY <1>2, <1>5 DEF next
  <2>4. \A k \in 1..n : /\ proposals'[k].day <= now.day /\ proposals'[k].day <= proposals'[1].day + 13
                         /\ ~Schedules!Weekend(proposals'[k].day) /\ proposals'[k].day \notin SparedDays
    BY <2>1 DEF next
  <2>5. \A j, k \in 1..n : j < k => proposals'[j].day <= proposals'[k].day
    BY <2>2 DEF next
  <2>. QED
    BY <2>3, <2>4, <2>5, DaysAre
<1>9. OnePerSubnet'
  <2>1. ASSUME NEW j \in 1..n, NEW k \in 1..n, j # k
        PROVE  next[j].subnet # next[k].subnet
    BY <1>1, <1>5, <2>1 DEF OnePerSubnet
  <2>. QED
    BY <1>5, <2>1 DEF OnePerSubnet, next
<1>10. OthersDone'
  <2>1. ASSUME NEW k \in 1..n
        PROVE  \/ next[k].executed /\ upgrade'[next[k].subnet] = "Complete"
               \/ \A j \in k..n : Together(next[k], next[j])
    <3>1. CASE Done(k)
      <4>1. k # i
        BY <1>2, <3>1 DEF Done
      <4>2. proposals[k].subnet # s /\ proposals[k].subnet \in Schedules!EverySubnet
        BY <1>1, <1>4, <4>1, ProposalType DEF OnePerSubnet
      <4>. QED
        BY <1>5, <1>6, <3>1, <4>1, <4>2 DEF Done
    <3>2. CASE \A j \in k..n : Together(proposals[k], proposals[j])
      <4>1. \A j \in k..n : j \in 1..n
        OBVIOUS
      <4>. QED
        BY <1>5, <3>2, <4>1 DEF Together
    <3>. QED
      BY <1>1, <3>1, <3>2 DEF OthersDone
  <2>. QED
    BY <1>5, <2>1 DEF OthersDone, Done, Together, next
<1>11. NnsEndsIt'
  <2>1. Proposed' = Proposed
    BY <1>5 DEF Proposed, next
  <2>2. Schedules!EverySubnet' = Schedules!EverySubnet
    BY DEF Schedules!EverySubnet
  <2>. QED
    BY <1>1, <1>5, <2>1, <2>2 DEF NnsEndsIt, next
<1>. QED
  BY <1>7, <1>8, <1>9, <1>10, <1>11 DEF ScheduleInv

\* The place of an element before the removal of one.
Before(i, k) == IF k < i THEN k ELSE k + 1

LEMMA RemoveAtIs ==
    ASSUME NEW S, NEW list \in Seq(S), NEW i \in 1..Len(list)
    PROVE  /\ Schedules!RemoveAt(list, i) \in Seq(S) /\ Len(Schedules!RemoveAt(list, i)) = Len(list) - 1
           /\ \A k \in 1..(Len(list) - 1) : Schedules!RemoveAt(list, i)[k] = list[Before(i, k)]
<1>. PICK n \in Nat : n = Len(list)
  OBVIOUS
<1>. DEFINE a == SubSeq(list, 1, i - 1)
            b == SubSeq(list, i + 1, n)
            c == a \o b
<1>1. \A k \in 1..n : list[k] \in S
  OBVIOUS
<1>2. a \in Seq(S) /\ Len(a) = i - 1 /\ \A k \in 1..(i - 1) : a[k] = list[k]
  <2>1. /\ a \in Seq(S) /\ Len(a) = IF 1 <= i - 1 THEN i - 1 - 1 + 1 ELSE 0
        /\ \A k \in 1..(i - 1 - 1 + 1) : a[k] = list[1 + k - 1]
    <3>1. \A k \in 1..(i - 1) : list[k] \in S
      BY <1>1
    <3>. QED
      BY <3>1, SubSeqProperties
  <2>2. i - 1 - 1 + 1 = i - 1 /\ (~(1 <= i - 1) => i - 1 = 0)
    OBVIOUS
  <2>3. \A k \in 1..(i - 1) : 1 + k - 1 = k
    OBVIOUS
  <2>. HIDE DEF a
  <2>. QED
    BY <2>1, <2>2, <2>3
<1>3. b \in Seq(S) /\ Len(b) = n - i /\ \A k \in 1..(n - i) : b[k] = list[i + k]
  <2>1. /\ b \in Seq(S) /\ Len(b) = IF i + 1 <= n THEN n - (i + 1) + 1 ELSE 0
        /\ \A k \in 1..(n - (i + 1) + 1) : b[k] = list[i + 1 + k - 1]
    <3>1. \A k \in (i + 1)..n : list[k] \in S
      BY <1>1
    <3>. QED
      BY <3>1, SubSeqProperties
  <2>2. n - (i + 1) + 1 = n - i /\ (~(i + 1 <= n) => n - i = 0)
    OBVIOUS
  <2>3. \A k \in 1..(n - i) : i + 1 + k - 1 = i + k
    OBVIOUS
  <2>. HIDE DEF b
  <2>. QED
    BY <2>1, <2>2, <2>3
<1>. HIDE DEF a, b
<1>4. /\ c \in Seq(S) /\ Len(c) = Len(a) + Len(b)
      /\ \A k \in 1..(Len(a) + Len(b)) : c[k] = IF k <= Len(a) THEN a[k] ELSE b[k - Len(a)]
  BY <1>2, <1>3, ConcatProperties
<1>. HIDE DEF c
<1>5. Len(a) + Len(b) = n - 1
  BY <1>2, <1>3
<1>6. ASSUME NEW k \in 1..(n - 1)
      PROVE  c[k] = list[Before(i, k)]
  <2>1. CASE k < i
    <3>1. k <= i - 1 /\ k \in 1..(i - 1)
      BY <2>1
    <3>. QED
      BY <1>2, <1>4, <1>5, <2>1, <3>1 DEF Before
  <2>2. CASE ~(k < i)
    <3>1. ~(k <= i - 1) /\ k - (i - 1) \in 1..(n - i) /\ i + (k - (i - 1)) = k + 1
      BY <2>2
    <3>. QED
      BY <1>2, <1>3, <1>4, <1>5, <2>2, <3>1 DEF Before
  <2>. QED
    BY <2>1, <2>2
<1>7. Schedules!RemoveAt(list, i) = c
  BY DEF Schedules!RemoveAt, a, b, c
<1>. QED
  BY <1>4, <1>5, <1>6, <1>7

\* A rejected proposal is not listed.
LEMMA RejectKeepsSchedule ==
    ASSUME ScheduleKnown, ScheduleInv, NEW i \in DOMAIN proposals, Schedules!Reject(i)
    PROVE  ScheduleInv'
<1>. DEFINE next == proposals'
<1>1. Typed /\ OnDaysOfTheRollout /\ OnePerSubnet /\ OthersDone /\ NnsEndsIt
  BY DEF ScheduleInv
<1>2. ~proposals[i].executed /\ next = Schedules!RemoveAt(proposals, i) /\ upgrade' = upgrade /\ now' = now
  BY DEF Schedules!Reject
<1>3. proposals \in Seq(Proposal) /\ DOMAIN proposals = 1..Len(proposals)
  BY <1>1 DEF Typed
<1>. PICK n \in Nat : n = Len(proposals)
  BY <1>1 DEF Typed
<1>4. i \in 1..n
  BY <1>3
<1>5. next \in Seq(Proposal) /\ Len(next) = n - 1 /\ \A k \in 1..(n - 1) : next[k] = proposals[Before(i, k)]
  BY <1>2, <1>3, <1>4, RemoveAtIs
<1>. HIDE DEF next
<1>6. /\ \A k \in 1..(n - 1) : Before(i, k) \in 1..n /\ Before(i, k) # i
      /\ \A j, k \in 1..(n - 1) : j < k => Before(i, j) < Before(i, k)
  BY <1>4 DEF Before
<1>7. Typed'
  BY <1>1, <1>2, <1>5 DEF Typed, next
<1>8. OnDaysOfTheRollout'
  <2>1. \A k \in 1..n : /\ proposals[k].day \in Nat /\ proposals[k].day <= now.day /\ proposals[k].day <= proposals[1].day + 13
                        /\ ~Schedules!Weekend(proposals[k].day) /\ proposals[k].day \notin SparedDays
    BY <1>1, ProposalType DEF OnDaysOfTheRollout
  <2>2. ASSUME NEW k \in 1..(n - 1)
        PROVE  next[k].day <= next[1].day + 13
    <3>1. 1 \in 1..(n - 1) /\ 1 \in 1..n
      OBVIOUS
    <3>. PICK first \in 1..n : first = Before(i, 1)
      BY <1>6, <3>1
    <3>. PICK this \in 1..n : this = Before(i, k)
      BY <1>6
    <3>. PICK x \in Nat : x = proposals[1].day
      BY <2>1, <3>1
    <3>. PICK y \in Nat : y = proposals[first].day
      BY <2>1
    <3>. PICK z \in Nat : z = proposals[this].day
      BY <2>1
    <3>2. x <= y
      <4>1. first = 1 \/ 1 < first
        OBVIOUS
      <4>. QED
        BY <1>1, <3>1, <4>1 DEF OnDaysOfTheRollout
    <3>3. z <= x + 13
      BY <2>1
    <3>4. z <= y + 13
      BY <3>2, <3>3
    <3>. QED
      BY <1>5, <3>1, <3>4
  <2>3. ASSUME NEW j \in 1..(n - 1), NEW k \in 1..(n - 1), j < k
        PROVE  next[j].day <= next[k].day
    BY <1>1, <1>5, <1>6, <2>3 DEF OnDaysOfTheRollout
  <2>4. \A d : Schedules!Weekend(d)' <=> Schedules!Weekend(d)
    BY DEF Schedules!Weekend
  <2>5. \A k \in 1..(n - 1) : /\ next[k].day <= now.day /\ ~Schedules!Weekend(next[k].day) /\ next[k].day \notin SparedDays
    BY <1>5, <1>6, <2>1
  <2>. QED
    BY <1>2, <1>5, <2>2, <2>3, <2>4, <2>5 DEF OnDaysOfTheRollout, next
<1>9. OnePerSubnet'
  <2>1. ASSUME NEW j \in 1..(n - 1), NEW k \in 1..(n - 1), j # k
        PROVE  next[j].subnet # next[k].subnet
    <3>1. Before(i, j) # Before(i, k)
      BY <2>1 DEF Before
    <3>. QED
      BY <1>1, <1>5, <1>6, <3>1 DEF OnePerSubnet
  <2>. QED
    BY <1>5, <2>1 DEF OnePerSubnet, next
<1>10. OthersDone'
  <2>1. ASSUME NEW k \in 1..(n - 1)
        PROVE  \/ next[k].executed /\ upgrade[next[k].subnet] = "Complete"
               \/ \A j \in k..(n - 1) : Together(next[k], next[j])
    <3>. PICK this \in 1..n : this = Before(i, k)
      BY <1>6
    <3>1. next[k] = proposals[this]
      BY <1>5
    <3>2. CASE Done(this)
      BY <3>1, <3>2 DEF Done
    <3>3. CASE \A j \in this..n : Together(proposals[this], proposals[j])
      <4>1. ASSUME NEW j \in k..(n - 1)
            PROVE  Together(next[k], next[j])
        <5>1. j \in 1..(n - 1) /\ Before(i, j) \in this..n
          BY <1>4 DEF Before
        <5>. QED
          BY <1>5, <3>1, <3>3, <5>1
      <4>. QED
        BY <4>1
    <3>. QED
      BY <1>1, <3>2, <3>3 DEF OthersDone
  <2>. QED
    BY <1>2, <1>5, <2>1 DEF OthersDone, Done, Together, next
<1>11. NnsEndsIt'
  <2>1. ASSUME NnsSubnet \in Proposed'
        PROVE  FALSE \/ NnsSubnet \in Proposed
    BY <1>5, <1>6, <2>1 DEF Proposed, next
  <2>2. NnsSubnet \notin Proposed'
    <3>. SUFFICES ASSUME NnsSubnet \in Proposed'
                  PROVE  FALSE
      OBVIOUS
    <3>1. proposals[i].subnet = NnsSubnet
      BY <1>1, <1>2, <1>4, <2>1 DEF NnsEndsIt
    <3>. PICK k \in 1..(n - 1) : next[k].subnet = NnsSubnet
      BY <1>5 DEF Proposed, next
    <3>. QED
      BY <1>1, <1>4, <1>5, <1>6, <3>1 DEF OnePerSubnet
  <2>. QED
    BY <2>2 DEF NnsEndsIt
<1>. QED
  BY <1>7, <1>8, <1>9, <1>10, <1>11 DEF ScheduleInv

\* A subnet upgrades, or time goes on.
LEMMA OthersKeepSchedule ==
    ASSUME ScheduleKnown, ScheduleInv,
           \/ \E s \in Schedules!EverySubnet : Schedules!Progress(s)
           \/ Schedules!HourPasses \/ Schedules!DayPasses \/ UNCHANGED Schedules!vars
    PROVE  ScheduleInv'
<1>1. Typed /\ OnDaysOfTheRollout /\ OnePerSubnet /\ OthersDone /\ NnsEndsIt
  BY DEF ScheduleInv
<1>2. now.day \in Nat /\ now.day \in 0..LastDay /\ now.hour \in 0..Hours /\ LastDay \in Nat /\ Hours \in Nat
      /\ now \in [day : 0..LastDay, hour : 0..Hours]
  BY <1>1, CountsKnown, StartDayIs DEF Typed
<1>3. proposals' = proposals /\ now' \in [day : 0..LastDay, hour : 0..Hours] /\ now.day <= now'.day
  <2>1. CASE \E s \in Schedules!EverySubnet : Schedules!Progress(s)
    BY <1>2, <2>1 DEF Schedules!Progress
  <2>2. CASE Schedules!HourPasses
    <3>1. now' = [now EXCEPT !.hour = @ + 1] /\ now.hour < Hours /\ proposals' = proposals
      BY <2>2 DEF Schedules!HourPasses
    <3>2. now.hour + 1 \in 0..Hours
      BY <1>2, <3>1
    <3>. QED
      BY <1>2, <3>1, <3>2
  <2>3. CASE Schedules!DayPasses
    <3>1. now' = [day |-> now.day + 1, hour |-> 0] /\ now.day < LastDay /\ proposals' = proposals
      BY <2>3 DEF Schedules!DayPasses
    <3>2. now.day + 1 \in 0..LastDay /\ 0 \in 0..Hours
      BY <1>2, <3>1
    <3>. QED
      BY <1>2, <3>1, <3>2
  <2>4. CASE UNCHANGED Schedules!vars
    BY <1>2, <2>4 DEF Schedules!vars
  <2>. QED
    BY <2>1, <2>2, <2>3, <2>4
<1>4. /\ upgrade' \in [Schedules!EverySubnet -> UpgradeStates]
      /\ \A s \in Schedules!EverySubnet : upgrade[s] = "Complete" => upgrade'[s] = "Complete"
  <2>0. upgrade \in [Schedules!EverySubnet -> UpgradeStates]
    BY <1>1 DEF Typed
  <2>1. CASE \E s \in Schedules!EverySubnet : Schedules!Progress(s)
    <3>. PICK s \in Schedules!EverySubnet : Schedules!Progress(s)
      BY <2>1
    <3>1. upgrade[s] \in {"Preparing", "Baking"} /\ upgrade' = [upgrade EXCEPT ![s] = Schedules!NextState[upgrade[s]]]
      BY DEF Schedules!Progress, Schedules!NextState
    <3>2. Schedules!NextState[upgrade[s]] \in UpgradeStates
      BY <3>1 DEF Schedules!NextState, UpgradeStates
    <3>. QED
      BY <2>0, <3>1, <3>2
  <2>2. CASE upgrade' = upgrade
    BY <2>0, <2>2
  <2>. QED
    BY <2>1, <2>2 DEF Schedules!HourPasses, Schedules!DayPasses, Schedules!vars
<1>5. Typed'
  BY <1>1, <1>3, <1>4 DEF Typed
<1>6. OnDaysOfTheRollout'
  <2>1. \A d : Schedules!Weekend(d)' <=> Schedules!Weekend(d)
    BY DEF Schedules!Weekend
  <2>2. now'.day \in Nat
    BY <1>2, <1>3
  <2>3. \A i \in 1..Len(proposals) : proposals[i].day \in Nat /\ proposals[i].day <= now'.day
    BY <1>1, <1>2, <1>3, <2>2, ProposalType DEF OnDaysOfTheRollout
  <2>. QED
    BY <1>1, <1>3, <2>1, <2>3 DEF OnDaysOfTheRollout
<1>7. OnePerSubnet'
  BY <1>1, <1>3 DEF OnePerSubnet
<1>8. OthersDone'
  <2>1. \A i \in 1..Len(proposals) : Done(i) => proposals'[i].executed /\ upgrade'[proposals'[i].subnet] = "Complete"
    BY <1>1, <1>3, <1>4, ProposalType DEF Done
  <2>. QED
    BY <1>1, <1>3, <2>1 DEF OthersDone, Done, Together
<1>9. NnsEndsIt'
  BY <1>1, <1>3 DEF NnsEndsIt, Proposed, Schedules!EverySubnet
<1>. QED
  BY <1>5, <1>6, <1>7, <1>8, <1>9 DEF ScheduleInv

LEMMA ScheduleStarts ==
    ASSUME ScheduleKnown, Schedules!Init
    PROVE  ScheduleInv
<1>1. /\ proposals = <<>> /\ upgrade = [s \in Schedules!EverySubnet |-> "Unknown"]
      /\ \E d \in FirstDay : now = [day |-> d, hour |-> 0]
  BY DEF Schedules!Init
<1>2. FirstDay \subseteq 0..LastDay /\ Hours \in Nat
  BY DEF ScheduleKnown
<1>3. Len(proposals) = 0 /\ proposals \in Seq(Proposal) /\ 1..0 = {}
  BY <1>1
<1>4. Typed
  <2>1. now \in [day : 0..LastDay, hour : 0..Hours]
    BY <1>1, <1>2
  <2>. QED
    BY <1>1, <1>3, <2>1 DEF Typed, UpgradeStates
<1>5. OnDaysOfTheRollout /\ OnePerSubnet /\ OthersDone /\ NnsEndsIt
  BY <1>3 DEF OnDaysOfTheRollout, OnePerSubnet, OthersDone, NnsEndsIt, Proposed
<1>. QED
  BY <1>4, <1>5 DEF ScheduleInv

LEMMA ScheduleHolds == ScheduleKnown => (Schedules!Spec => []ScheduleInv)
<1>. SUFFICES ASSUME ScheduleKnown
              PROVE  Schedules!Spec => []ScheduleInv
  OBVIOUS
<1>1. Schedules!Init => ScheduleInv
  BY ScheduleStarts
<1>2. ScheduleInv /\ [Schedules!Next]_Schedules!vars => ScheduleInv'
  <2>. SUFFICES ASSUME ScheduleInv, [Schedules!Next]_Schedules!vars
                PROVE  ScheduleInv'
    OBVIOUS
  <2>1. CASE Schedules!Submit
    BY <2>1, SubmitKeepsSchedule
  <2>2. CASE \E i \in DOMAIN proposals : Schedules!Execute(i) \/ Schedules!Reject(i)
    BY <2>2, ExecuteKeepsSchedule, RejectKeepsSchedule
  <2>3. CASE \/ \E s \in Schedules!EverySubnet : Schedules!Progress(s)
             \/ Schedules!HourPasses \/ Schedules!DayPasses \/ UNCHANGED Schedules!vars
    BY <2>3, OthersKeepSchedule
  <2>. QED
    BY <2>1, <2>2, <2>3 DEF Schedules!Next
<1>. QED
  BY <1>1, <1>2, PTL DEF Schedules!Spec

-----------------------------------------------------------------------------
(* What the view shows.                                                      *)

LEMMA ViewShowsAll ==
    ASSUME ScheduleKnown, ScheduleInv, ~Schedules!Panics
    PROVE  /\ IsView(Schedules!Schedule, Schedules!EverySubnet \ Proposed)
           /\ NnsSubnet \notin Proposed => Schedules!Last(Schedules!Schedule).subnets = {NnsSubnet}
           /\ Schedules!Proposed = Proposed
<1>1. LastDay \in Nat /\ Typed /\ OnDaysOfTheRollout
  BY CountsKnown DEF ScheduleInv
<1>. QED
  BY <1>1, ScheduleIs, SubmittedIs

LEMMA EveryViewIsWhole ==
    ASSUME ScheduleKnown, ScheduleInv
    PROVE  Schedules!EverySubnetOnce
<1>. SUFFICES ASSUME ~Schedules!Panics
              PROVE  LET v == Schedules!Schedule IN
                       /\ UNION {v[k].subnets : k \in DOMAIN v} = Schedules!EverySubnet \ Proposed
                       /\ \A k \in DOMAIN v : v[k].subnets # {} /\ Schedules!Cardinality(v[k].subnets) <= MaxStageSize
                       /\ \A j, k \in DOMAIN v : j < k => v[j].subnets \cap v[k].subnets = {}
  <2>1. Schedules!Panics \/ Schedules!Proposed = Proposed
    BY ViewShowsAll
  <2>. QED
    BY <2>1 DEF Schedules!EverySubnetOnce
<1>. DEFINE view == Schedules!Schedule
            set == Schedules!EverySubnet \ Proposed
<1>1. IsView(view, set)
  BY ViewShowsAll
<1>. HIDE DEF view, set
<1>2. DOMAIN view = 1..Len(view)
  BY <1>1 DEF IsView
<1>3. \A k \in 1..Len(view) : view[k].subnets \subseteq set
  BY <1>1, ViewType
<1>4. \A s \in set : \E k \in 1..Len(view) : s \in view[k].subnets
  BY <1>1 DEF IsView
<1>5. UNION {view[k].subnets : k \in 1..Len(view)} = set
  BY <1>3, <1>4
<1>6. \A k \in 1..Len(view) : view[k].subnets # {} /\ Schedules!Cardinality(view[k].subnets) <= MaxStageSize
  BY <1>1, SchedulesOperators DEF IsView
<1>7. \A j, k \in 1..Len(view) : j < k => view[j].subnets \cap view[k].subnets = {}
  BY <1>1 DEF IsView
<1>. QED
  BY <1>2, <1>5, <1>6, <1>7 DEF view, set

LEMMA NnsIsLast ==
    ASSUME ScheduleKnown, ScheduleInv
    PROVE  Schedules!NnsComesLast
<1>1. LastDay \in Nat /\ Typed /\ OnDaysOfTheRollout /\ NnsEndsIt
  BY CountsKnown DEF ScheduleInv
<1>2. Schedules!Proposed = Proposed
  BY <1>1, SubmittedIs
<1>3. Proposed \subseteq Schedules!EverySubnet
  BY <1>1, ProposalType DEF Proposed
<1>4. NnsSubnet \in Proposed => Schedules!EverySubnet = Proposed
  BY <1>1, <1>3 DEF NnsEndsIt
<1>5. ~Schedules!Panics /\ NnsSubnet \notin Proposed => Schedules!Last(Schedules!Schedule).subnets = {NnsSubnet}
  BY ViewShowsAll
<1>. QED
  BY <1>2, <1>4, <1>5 DEF Schedules!NnsComesLast

\* When the view shows complete, nothing is left and nothing is active.
LEMMA CompleteIsQuiet ==
    ASSUME ScheduleKnown, ScheduleInv, ~Schedules!Panics, Schedules!Status = "Complete"
    PROVE  Schedules!EverySubnet \subseteq Proposed /\ ~Schedules!Active
<1>. DEFINE view == Schedules!Schedule
            stages == Schedules!Stages
            shown == UNION {Schedules!States(i) : i \in DOMAIN stages}
<1>1. shown \cup (IF view = <<>> THEN {} ELSE {"Scheduled"}) \subseteq {"Complete"}
  <2>. DEFINE all == shown \cup (IF view = <<>> THEN {} ELSE {"Scheduled"})
  <2>1. Schedules!Status = IF all \subseteq {"Scheduled"} THEN "Scheduled"
                           ELSE IF all \subseteq {"Complete"} THEN "Complete" ELSE "Active"
    BY DEF Schedules!Status
  <2>. HIDE DEF all
  <2>2. all \subseteq {"Complete"}
    BY <2>1
  <2>. QED
    BY <2>2 DEF all
<1>. HIDE DEF shown
<1>2. view = <<>> /\ shown \subseteq {"Complete"}
  BY <1>1
<1>3. Schedules!EverySubnet \subseteq Proposed
  <2>1. IsView(view, Schedules!EverySubnet \ Proposed)
    BY ViewShowsAll
  <2>2. Len(view) = 0
    BY <1>2
  <2>. QED
    BY <2>1, <2>2 DEF IsView
<1>4. ~Schedules!Active
  <2>. SUFFICES ASSUME stages # <<>>
                PROVE  Schedules!States(Len(stages)) = {"Complete"}
    BY DEF Schedules!Active
  <2>1. stages \in Seq(Seq(Proposal) \ {<<>>})
    BY StagesAre DEF ScheduleInv, Typed, StagedUpTo, Stagings
  <2>2. \A k : Schedules!States(k) = {Schedules!State(k, p) : p \in Schedules!ToSet(stages[k])}
    BY DEF Schedules!States
  <2>. HIDE DEF stages
  <2>0. \A i \in DOMAIN stages : Schedules!States(i) \subseteq {"Complete"}
    BY <1>2 DEF shown
  <2>. PICK N \in Nat : N = Len(stages)
    BY <2>1
  <2>3. N \in DOMAIN stages /\ stages[N] \in Seq(Proposal) /\ stages[N] # <<>>
    BY <2>1
  <2>4. Schedules!States(N) \subseteq {"Complete"}
    BY <2>0, <2>3
  <2>5. \E p : p \in Schedules!ToSet(stages[N])
    <3>. PICK last : last = stages[N]
      OBVIOUS
    <3>1. Schedules!ToSet(last) = {last[j] : j \in 1..Len(last)} /\ 1 \in 1..Len(last)
      BY <2>3, SetOfList
    <3>. QED
      BY <3>1
  <2>. QED
    BY <2>2, <2>4, <2>5
<1>. QED
  BY <1>3, <1>4

LEMMA CompleteMeansDone ==
    ASSUME ScheduleKnown, ScheduleInv
    PROVE  Schedules!CompleteIsComplete
<1>. SUFFICES ASSUME ~Schedules!Panics, Schedules!Status = "Complete", NEW s \in Schedules!EverySubnet
              PROVE  Schedules!SubnetState(s) = "Complete"
  BY DEF Schedules!CompleteIsComplete
<1>1. Typed /\ OthersDone
  BY DEF ScheduleInv
<1>2. s \in Proposed /\ \A i \in 1..Len(proposals) : Done(i)
  BY <1>1, CompleteIsQuiet, QuietIsDone
<1>. PICK n \in Nat : n = Len(proposals)
  BY <1>1 DEF Typed
<1>3. DOMAIN proposals = 1..n
  BY <1>1 DEF Typed
<1>. DEFINE own == {i \in 1..n : proposals[i].subnet = s}
<1>4. own \in SUBSET (1..n) /\ own # {}
  BY <1>2 DEF Proposed
<1>5. Schedules!Max(own) \in own
  BY <1>4, MaxType, SchedulesOperators
<1>6. Schedules!SubnetState(s) = IF own = {} THEN "Unknown"
                                 ELSE IF proposals[Schedules!Max(own)].executed THEN upgrade[s] ELSE "Submitted"
  BY <1>3 DEF Schedules!SubnetState
<1>7. PICK i \in 1..n : i = Schedules!Max(own) /\ proposals[i].subnet = s
  BY <1>5
<1>8. proposals[i].executed /\ upgrade[s] = "Complete"
  BY <1>2, <1>7 DEF Done
<1>. QED
  BY <1>4, <1>6, <1>7, <1>8

LEMMA ScheduleIsTyped ==
    ASSUME ScheduleInv
    PROVE  Schedules!TypeOK
<1>1. Typed
  BY DEF ScheduleInv
<1>2. DOMAIN proposals = 1..Len(proposals)
  BY <1>1 DEF Typed
<1>. QED
  BY <1>1, <1>2, ProposalType DEF Typed, UpgradeStates, Schedules!TypeOK

-----------------------------------------------------------------------------
(* The theorems.                                                             *)

LEMMA ScheduleRuns ==
    Spec => (Schedules!Spec /\ [](part = "schedule")) \/ []~(part = "schedule")
<1>1. Init /\ part = "schedule" => Schedules!Init
  BY DEF Init
<1>2. part = "schedule" /\ [Next]_<<part, changeVars, scheduleVars, hostosVars, toolVars>>
        => (part = "schedule")' /\ [Schedules!Next]_Schedules!vars
  BY DEF Next, scheduleVars, Schedules!vars
<1>3. ~(part = "schedule") /\ [Next]_<<part, changeVars, scheduleVars, hostosVars, toolVars>>
        => ~(part = "schedule")'
  BY OtherPartsStay
<1>. QED
  BY <1>1, <1>2, <1>3, PTL DEF Spec, Schedules!Spec

\* The view of a rollout shows every subnet exactly once, in a stage that was
\* submitted or in one to come of at most the maximal size, whatever was submitted,
\* executed or rejected so far and whatever days are excluded (release.rs:374-476).
THEOREM EverySubnetIsShownOnce == ScheduleKnown => (Spec => [](part = "schedule" => Schedules!EverySubnetOnce))
<1>1. ScheduleKnown => (Schedules!Spec => []ScheduleInv)
  BY ScheduleHolds
<1>2. ScheduleKnown /\ ScheduleInv => Schedules!EverySubnetOnce
  BY EveryViewIsWhole
<1>. SUFFICES ASSUME ScheduleKnown
              PROVE  Spec => [](part = "schedule" => Schedules!EverySubnetOnce)
  OBVIOUS
<1>3. Schedules!Spec => []ScheduleInv
  BY <1>1
<1>4. ScheduleInv => Schedules!EverySubnetOnce
  BY <1>2
<1>. QED
  BY <1>3, <1>4, ScheduleRuns, PTL

\* The NNS is the last subnet of the schedule until it is proposed, and then every
\* other subnet has a proposal, although any of them may be rejected before
\* (release.rs:484-514).
THEOREM NnsStaysLast == ScheduleKnown => (Spec => [](part = "schedule" => Schedules!NnsComesLast))
<1>. SUFFICES ASSUME ScheduleKnown
              PROVE  Spec => [](part = "schedule" => Schedules!NnsComesLast)
  OBVIOUS
<1>1. Schedules!Spec => []ScheduleInv
  BY ScheduleHolds
<1>2. ScheduleInv => Schedules!NnsComesLast
  BY NnsIsLast
<1>. QED
  BY <1>1, <1>2, ScheduleRuns, PTL

\* A rollout that is shown as complete is complete on every subnet, although the
\* view looks at the last stage only: whatever is not done is in that stage
\* (release.rs:219-236, 312-344).
THEOREM CompleteStaysTrue == ScheduleKnown => (Spec => [](part = "schedule" => Schedules!CompleteIsComplete))
<1>. SUFFICES ASSUME ScheduleKnown
              PROVE  Spec => [](part = "schedule" => Schedules!CompleteIsComplete)
  OBVIOUS
<1>1. Schedules!Spec => []ScheduleInv
  BY ScheduleHolds
<1>2. ScheduleInv => Schedules!CompleteIsComplete
  BY CompleteMeansDone
<1>. QED
  BY <1>1, <1>2, ScheduleRuns, PTL

\* Every reachable state of the four parts is well typed, for all their constants
\* (network.rs, release.rs, hostos_rollout.rs, runner.rs, ic_admin.rs).
THEOREM PlanningTypes ==
    ASSUME TopologiesKnown, ScheduleKnown, HomesKnown, RequestsKnown, BoundsKnown
    PROVE  Spec => []TypeOK
<1>1. Plans!Spec => []Plans!TypeOK
  BY ChangeTypes
<1>2. Schedules!Spec => []ScheduleInv
  BY ScheduleHolds
<1>3. ScheduleInv => Schedules!TypeOK
  BY ScheduleIsTyped
<1>4. Hostos!Spec => []Hostos!TypeOK
  BY HostosTypes
<1>5. Tool!Spec => []Tool!TypeOK
  BY ToolTypes
<1>6. /\ part = "change" => Plans!TypeOK
      /\ part = "schedule" => Schedules!TypeOK
      /\ part = "hostos" => Hostos!TypeOK
      /\ part = "tool" => Tool!TypeOK
      => TypeOK
  BY DEF TypeOK
<1>. QED
  BY <1>1, <1>2, <1>3, <1>4, <1>5, <1>6, ChangesRun, ScheduleRuns, HostosRuns, ToolRuns, PTL

=============================================================================
