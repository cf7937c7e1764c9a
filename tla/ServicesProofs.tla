------------------------------ MODULE ServicesProofs ------------------------------
(***************************************************************************)
(* Theorems about the backend and the notification services, for any       *)
(* nodes, proposals, releases, requests and bounds.                        *)
(***************************************************************************)
EXTENDS Services, LeastAndGreatest, SequenceTheorems, FiniteSetTheorems, TLAPS


-----------------------------------------------------------------------------
(* Notifications: the story of one node.                                     *)

Message == [node : Monitored, from : Health!Status, to : Health!Status]

At(ch, n) == {i \in 1..Len(ch) : ch[i].node = n}

\* What is on its way about n leads from one status to another.
Story(ch, n, begin, end) ==
    /\ At(ch, n) = {} => begin = end
    /\ \A i \in At(ch, n) :
         /\ (\A j \in At(ch, n) : i <= j) => ch[i].from = begin
         /\ (\A j \in At(ch, n) : j <= i) => ch[i].to = end
         /\ \A j \in At(ch, n) :
              i < j /\ ~(\E k \in At(ch, n) : i < k /\ k < j) => ch[i].to = ch[j].from

\* The head of the channel is told.
LEMMA StoryIsTold ==
    ASSUME NEW ch \in Seq(Message), ch # <<>>, NEW n \in Monitored, NEW begin, NEW end, Story(ch, n, begin, end)
    PROVE  Story(Tail(ch), n, IF Head(ch).node = n THEN Head(ch).to ELSE begin, end)
<1>. DEFINE rest == Tail(ch)
            L == Len(ch)
            told1 == IF Head(ch).node = n THEN Head(ch).to ELSE begin
<1>1. L \in Nat /\ L >= 1 /\ Head(ch) = ch[1] /\ Len(rest) = L - 1 /\ \A i \in 1..(L - 1) : rest[i] = ch[i + 1]
  BY HeadTailProperties, LenProperties
<1>. HIDE DEF rest, L
<1>2. \A i \in At(rest, n) : i \in 1..(L - 1) /\ i + 1 \in At(ch, n) /\ rest[i] = ch[i + 1]
  BY <1>1 DEF At, L
<1>3. \A i \in At(ch, n) : i \in Nat /\ i # 1 => i - 1 \in At(rest, n) /\ (i - 1) + 1 = i
  <2>1. ASSUME NEW i \in At(ch, n), i # 1
        PROVE  i - 1 \in At(rest, n) /\ (i - 1) + 1 = i
    <3>1. i \in 1..L /\ i - 1 \in 1..(L - 1) /\ (i - 1) + 1 = i
      BY <1>1, <2>1 DEF At, L
    <3>2. rest[i - 1] = ch[i]
      BY <1>1, <3>1
    <3>. QED
      BY <1>1, <2>1, <3>1, <3>2 DEF At
  <2>. QED
    BY <2>1
<1>4. 1 \in At(ch, n) <=> Head(ch).node = n
  BY <1>1 DEF At, L
<1>5. \A i \in At(ch, n) : i \in Nat /\ 1 <= i
  BY DEF At
<1>6. At(rest, n) = {} => told1 = end
  <2>. SUFFICES ASSUME At(rest, n) = {} PROVE told1 = end
    OBVIOUS
  <2>1. \A i \in At(ch, n) : i = 1
    BY <1>3, <1>5
  <2>2. CASE 1 \in At(ch, n)
    <3>1. ch[1].to = end
      BY <1>5, <2>1, <2>2 DEF Story
    <3>. QED
      BY <1>1, <1>4, <2>2, <3>1
  <2>3. CASE 1 \notin At(ch, n)
    <3>1. At(ch, n) = {}
      BY <2>1, <2>3
    <3>. QED
      BY <1>4, <2>3, <3>1 DEF Story
  <2>. QED
    BY <2>2, <2>3
<1>7. ASSUME NEW i \in At(rest, n), \A j \in At(rest, n) : i <= j
      PROVE  rest[i].from = told1
  <2>1. i + 1 \in At(ch, n) /\ rest[i] = ch[i + 1] /\ i \in Nat /\ i >= 1
    BY <1>2
  <2>2. \A j \in At(ch, n) : j # 1 => i + 1 <= j
    BY <1>3, <1>5, <1>7, <2>1
  <2>3. CASE 1 \in At(ch, n)
    <3>1. ~(\E k \in At(ch, n) : 1 < k /\ k < i + 1)
      BY <1>5, <2>1, <2>2
    <3>2. ch[1].to = ch[i + 1].from
      BY <2>1, <2>3, <3>1 DEF Story
    <3>. QED
      BY <1>1, <1>4, <2>1, <2>3, <3>2
  <2>4. CASE 1 \notin At(ch, n)
    <3>1. \A j \in At(ch, n) : i + 1 <= j
      BY <2>2, <2>4
    <3>2. ch[i + 1].from = begin
      BY <2>1, <3>1 DEF Story
    <3>. QED
      BY <1>4, <2>1, <2>4, <3>2
  <2>. QED
    BY <2>3, <2>4
<1>8. ASSUME NEW i \in At(rest, n), \A j \in At(rest, n) : j <= i
      PROVE  rest[i].to = end
  <2>1. i + 1 \in At(ch, n) /\ rest[i] = ch[i + 1] /\ i \in Nat /\ i >= 1
    BY <1>2
  <2>2. \A j \in At(ch, n) : j <= i + 1
    <3>1. ASSUME NEW j \in At(ch, n)
          PROVE  j <= i + 1
      <4>1. CASE j = 1
        BY <2>1, <4>1
      <4>2. CASE j # 1
        <5>1. j - 1 \in At(rest, n) /\ j \in Nat
          BY <1>3, <1>5, <4>2
        <5>2. j - 1 <= i
          BY <1>8, <5>1
        <5>. QED
          BY <2>1, <5>1, <5>2
      <4>. QED
        BY <4>1, <4>2
    <3>. QED
      BY <3>1
  <2>. QED
    BY <2>1, <2>2 DEF Story
<1>9. ASSUME NEW i \in At(rest, n), NEW j \in At(rest, n), i < j, ~(\E k \in At(rest, n) : i < k /\ k < j)
      PROVE  rest[i].to = rest[j].from
  <2>1. /\ i + 1 \in At(ch, n) /\ rest[i] = ch[i + 1] /\ i \in Nat /\ i >= 1
        /\ j + 1 \in At(ch, n) /\ rest[j] = ch[j + 1] /\ j \in Nat
    BY <1>2
  <2>2. ASSUME NEW k \in At(ch, n), i + 1 < k, k < j + 1
        PROVE  FALSE
    <3>1. k # 1 /\ k \in Nat
      BY <1>5, <2>1, <2>2
    <3>2. k - 1 \in At(rest, n)
      BY <1>3, <3>1
    <3>3. i < k - 1 /\ k - 1 < j
      BY <2>1, <2>2, <3>1
    <3>. QED
      BY <1>9, <3>2, <3>3
  <2>3. i + 1 < j + 1
    BY <1>9, <2>1
  <2>4. ch[i + 1].to = ch[j + 1].from
    BY <2>1, <2>2, <2>3 DEF Story
  <2>. QED
    BY <2>1, <2>4
<1>10. Story(rest, n, told1, end)
  <2>. HIDE DEF told1
  <2>. QED
    BY <1>6, <1>7, <1>8, <1>9 DEF Story
<1>. QED
  BY <1>10 DEF rest

LEMMA AtOfConcat ==
    ASSUME NEW ch \in Seq(Message), NEW s \in Seq(Message), NEW n
    PROVE  /\ At(ch \o s, n) = At(ch, n) \cup {Len(ch) + p : p \in At(s, n)}
           /\ \A i \in At(ch, n) : (ch \o s)[i] = ch[i]
           /\ \A p \in At(s, n) : (ch \o s)[Len(ch) + p] = s[p]
<1>. DEFINE all == ch \o s
            L == Len(ch)
            M == Len(s)
<1>1. /\ L \in Nat /\ M \in Nat /\ Len(all) = L + M
      /\ \A i \in 1..(L + M) : all[i] = IF i <= L THEN ch[i] ELSE s[i - L]
  BY ConcatProperties, LenProperties
<1>. HIDE DEF all, L, M
<1>2. \A i \in 1..L : i \in 1..(L + M) /\ all[i] = ch[i]
  BY <1>1
<1>3. ASSUME NEW p \in 1..M
      PROVE  L + p \in 1..(L + M) /\ all[L + p] = s[p]
  <2>1. L + p \in 1..(L + M) /\ ~(L + p <= L) /\ (L + p) - L = p
    BY <1>1
  <2>. QED
    BY <1>1, <2>1
<1>4. ASSUME NEW i \in 1..(L + M), ~(i \in 1..L)
      PROVE  i - L \in 1..M /\ i = L + (i - L)
  BY <1>1, <1>4
<1>5. ASSUME NEW i \in At(all, n)
      PROVE  i \in At(ch, n) \cup {L + p : p \in At(s, n)}
  <2>1. i \in 1..(L + M) /\ all[i].node = n
    BY <1>1 DEF At
  <2>2. CASE i \in 1..L
    BY <1>2, <2>1, <2>2 DEF At, L
  <2>3. CASE ~(i \in 1..L)
    <3>1. i - L \in 1..M /\ i = L + (i - L)
      BY <1>4, <2>1, <2>3
    <3>2. i - L \in At(s, n)
      BY <1>3, <2>1, <3>1 DEF At, M
    <3>. QED
      BY <3>1, <3>2
  <2>. QED
    BY <2>2, <2>3
<1>6. ASSUME NEW i \in At(ch, n)
      PROVE  i \in At(all, n)
  <2>1. i \in 1..L /\ ch[i].node = n
    BY DEF At, L
  <2>. QED
    BY <1>1, <1>2, <2>1 DEF At
<1>7. ASSUME NEW p \in At(s, n)
      PROVE  L + p \in At(all, n)
  <2>1. p \in 1..M /\ s[p].node = n
    BY DEF At, M
  <2>. QED
    BY <1>1, <1>3, <2>1 DEF At
<1>8. At(all, n) = At(ch, n) \cup {L + p : p \in At(s, n)}
  BY <1>5, <1>6, <1>7
<1>9. /\ \A i \in At(ch, n) : all[i] = ch[i]
      /\ \A p \in At(s, n) : all[L + p] = s[p]
  BY <1>2, <1>3 DEF At, L, M
<1>. QED
  BY <1>8, <1>9 DEF all, L

\* Nothing new about n.
LEMMA StoryStays ==
    ASSUME NEW ch \in Seq(Message), NEW s \in Seq(Message), NEW n, NEW begin, NEW end,
           Story(ch, n, begin, end), At(s, n) = {}
    PROVE  Story(ch \o s, n, begin, end)
<1>1. /\ At(ch \o s, n) = At(ch, n) \cup {Len(ch) + p : p \in At(s, n)}
      /\ \A i \in At(ch, n) : (ch \o s)[i] = ch[i]
      /\ \A p \in At(s, n) : (ch \o s)[Len(ch) + p] = s[p]
  BY AtOfConcat, Zenon
<1>2. {Len(ch) + p : p \in At(s, n)} = {}
  OBVIOUS
<1>. DEFINE all == ch \o s
<1>3. At(all, n) = At(ch, n) /\ \A i \in At(ch, n) : all[i] = ch[i]
  BY <1>1, <1>2
<1>. HIDE DEF all
<1>4. Story(all, n, begin, end)
  BY <1>3 DEF Story
<1>. QED
  BY <1>4 DEF all

\* One thing is new about n.
LEMMA StoryGoesOn ==
    ASSUME NEW ch \in Seq(Message), NEW s \in Seq(Message), NEW n, NEW begin, NEW end,
           Story(ch, n, begin, end), NEW p, At(s, n) = {p}, s[p].from = end
    PROVE  Story(ch \o s, n, begin, s[p].to)
<1>. DEFINE all == ch \o s
            q == Len(ch) + p
<1>1. /\ At(all, n) = At(ch, n) \cup {q} /\ all[q] = s[p]
      /\ \A i \in At(ch, n) : all[i] = ch[i]
  <2>1. /\ At(all, n) = At(ch, n) \cup {Len(ch) + r : r \in At(s, n)}
        /\ \A i \in At(ch, n) : all[i] = ch[i]
        /\ \A r \in At(s, n) : all[Len(ch) + r] = s[r]
    BY AtOfConcat, Zenon
  <2>. QED
    BY <2>1
<1>2. Len(ch) \in Nat /\ p \in Nat /\ p >= 1
  <2>1. p \in 1..Len(s) /\ Len(s) \in Nat
    BY DEF At
  <2>. QED
    BY <2>1
<1>3. q \in Nat /\ \A i \in At(ch, n) : i \in Nat /\ i < q
  BY <1>2 DEF At
<1>. HIDE DEF all, q
<1>4. ASSUME NEW i \in At(all, n), \A j \in At(all, n) : i <= j
      PROVE  all[i].from = begin
  <2>1. CASE i = q
    <3>1. ASSUME NEW j \in At(ch, n)
          PROVE  FALSE
      <4>1. j \in At(all, n) /\ j \in Nat /\ j < q
        BY <1>1, <1>3
      <4>2. q <= j
        BY <1>4, <2>1, <4>1
      <4>. QED
        BY <1>3, <4>1, <4>2
    <3>2. At(ch, n) = {}
      BY <3>1
    <3>. QED
      BY <1>1, <2>1, <3>2 DEF Story
  <2>2. CASE i # q
    <3>1. i \in At(ch, n) /\ \A j \in At(ch, n) : i <= j
      BY <1>1, <1>4, <2>2
    <3>. QED
      BY <1>1, <3>1 DEF Story
  <2>. QED
    BY <2>1, <2>2
<1>5. ASSUME NEW i \in At(all, n), \A j \in At(all, n) : j <= i
      PROVE  all[i].to = s[p].to
  <2>1. i = q
    BY <1>1, <1>3, <1>5
  <2>. QED
    BY <1>1, <2>1
<1>6. ASSUME NEW i \in At(all, n), NEW j \in At(all, n), i < j, ~(\E k \in At(all, n) : i < k /\ k < j)
      PROVE  all[i].to = all[j].from
  <2>1. i \in At(ch, n)
    BY <1>1, <1>3, <1>6
  <2>2. CASE j = q
    <3>1. \A k \in At(ch, n) : k <= i
      BY <1>1, <1>3, <1>6, <2>1, <2>2
    <3>2. ch[i].to = end
      BY <2>1, <3>1 DEF Story
    <3>. QED
      BY <1>1, <2>1, <2>2, <3>2
  <2>3. CASE j # q
    <3>1. j \in At(ch, n)
      BY <1>1, <2>3
    <3>2. ~(\E k \in At(ch, n) : i < k /\ k < j)
      BY <1>1, <1>6
    <3>3. ch[i].to = ch[j].from
      BY <1>6, <2>1, <3>1, <3>2 DEF Story
    <3>. QED
      BY <1>1, <2>1, <3>1, <3>3
  <2>. QED
    BY <2>2, <2>3
<1>7. At(all, n) # {}
  BY <1>1
<1>8. Story(all, n, begin, s[p].to)
  BY <1>4, <1>5, <1>6, <1>7 DEF Story
<1>. QED
  BY <1>8 DEF all

-----------------------------------------------------------------------------
(* What one round of the health loop finds.                                  *)

\* The new notifications in some order: each is sent once.
LEMMA SetToSeqIs ==
    ASSUME NEW T, IsFiniteSet(T)
    PROVE  /\ Health!SetToSeq(T) \in Seq(T)
           /\ \A x \in T : \E p \in 1..Len(Health!SetToSeq(T)) : Health!SetToSeq(T)[p] = x
           /\ \A p, q \in 1..Len(Health!SetToSeq(T)) : Health!SetToSeq(T)[p] = Health!SetToSeq(T)[q] => p = q
<1>. DEFINE N == Cardinality(T)
            s == Health!SetToSeq(T)
<1>1. N \in Nat
  BY FS_CardinalityType
<1>2. \E f \in [1..N -> T] : Health!IsInjective(f) /\ \A x \in T : \E p \in 1..N : f[p] = x
  <2>1. PICK f : f \in Bijection(1..N, T)
    BY FS_CountingElements, FS_CardinalityType DEF ExistsBijection
  <2>2. f \in [1..N -> T] /\ (\A x \in T : \E p \in 1..N : f[p] = x) /\ \A p, q \in 1..N : f[p] = f[q] => p = q
    BY <2>1 DEF Bijection, Injection, Surjection, IsInjective
  <2>. QED
    BY <2>2 DEF Health!IsInjective
<1>3. s \in [1..N -> T] /\ Health!IsInjective(s)
  <2>1. Health!Cardinality(T) = N
    BY DEF Health!Cardinality, Cardinality
  <2>. HIDE DEF N
  <2>2. s = CHOOSE f \in [1..N -> T] : Health!IsInjective(f)
    BY <2>1 DEF Health!SetToSeq
  <2>. HIDE DEF s
  <2>. QED
    BY <1>2, <2>2
<1>. HIDE DEF s
<1>4. s \in Seq(T) /\ Len(s) = N
  BY <1>1, <1>3
<1>5. \A p, q \in 1..N : s[p] = s[q] => p = q
  BY <1>3 DEF Health!IsInjective
<1>6. \A x \in T : \E p \in 1..N : s[p] = x
  <2>1. IsFiniteSet(1..N) /\ Cardinality(1..N) = N
    BY <1>1, FS_Interval
  <2>2. s \in Injection(1..N, T)
    BY <1>3, <1>5 DEF Injection, IsInjective
  <2>3. s \in Surjection(1..N, T)
    BY <2>1, <2>2, FS_Injection
  <2>. QED
    BY <2>3 DEF Surjection
<1>. QED
  BY <1>4, <1>5, <1>6 DEF s

-----------------------------------------------------------------------------
LEMMA FoundIs ==
    ASSUME NodesAreFinite, NEW old \in [Monitored -> Health!Status], NEW new \in [Monitored -> Health!Status]
    PROVE  /\ Health!Updated(old, new) \in SUBSET Message
           /\ IsFiniteSet(Health!Updated(old, new))
           /\ \A m \in Health!Updated(old, new) : m.from = old[m.node] /\ m.to = new[m.node]
           /\ \A n \in Monitored : old[n] # new[n] => \E m \in Health!Updated(old, new) : m.node = n
           /\ \A m \in Health!Updated(old, new) : old[m.node] # new[m.node]
<1>. DEFINE C == {m \in Monitored : old[m] # new[m]}
            F == [n \in C |-> [node |-> n, from |-> old[n], to |-> new[n]]]
            found == Health!Updated(old, new)
<1>1. found = {F[n] : n \in C}
  BY DEF Health!Updated
<1>2. \A n \in C : F[n] \in Message /\ F[n].node = n /\ F[n].from = old[n] /\ F[n].to = new[n]
  BY DEF Message
<1>3. IsFiniteSet(C)
  BY FS_Subset DEF NodesAreFinite
<1>4. F \in Surjection(C, found)
  BY <1>1 DEF Surjection
<1>5. IsFiniteSet(found)
  BY <1>3, <1>4, FS_Surjection
<1>. HIDE DEF F, found
<1>6. found \in SUBSET Message
  BY <1>1, <1>2
<1>7. \A m \in found : m.node \in C /\ m.from = old[m.node] /\ m.to = new[m.node]
  BY <1>1, <1>2
<1>8. \A n \in C : \E m \in found : m.node = n
  BY <1>1, <1>2
<1>. QED
  BY <1>5, <1>6, <1>7, <1>8 DEF found

\* What one round says about each node, in whatever order it says it.
LEMMA RoundIsOneStep ==
    ASSUME NodesAreFinite, NEW old \in [Monitored -> Health!Status], NEW new \in [Monitored -> Health!Status],
           NEW ch \in Seq(Message), NEW n \in Monitored, NEW begin, Story(ch, n, begin, old[n])
    PROVE  Story(ch \o Health!SetToSeq(Health!Updated(old, new)), n, begin, new[n])
<1>. DEFINE found == Health!Updated(old, new)
            s == Health!SetToSeq(found)
<1>1. /\ found \in SUBSET Message
      /\ IsFiniteSet(found)
      /\ \A m \in found : m.from = old[m.node] /\ m.to = new[m.node]
      /\ \A k \in Monitored : old[k] # new[k] => \E m \in found : m.node = k
      /\ \A m \in found : old[m.node] # new[m.node]
  BY FoundIs, Zenon
<1>. HIDE DEF found
<1>2. /\ s \in Seq(found)
      /\ \A x \in found : \E p \in 1..Len(s) : s[p] = x
      /\ \A p, q \in 1..Len(s) : s[p] = s[q] => p = q
  BY <1>1, SetToSeqIs, Zenon
<1>. HIDE DEF s
<1>3. s \in Seq(Message) /\ \A p \in 1..Len(s) : s[p] \in found
  BY <1>1, <1>2
<1>4. CASE old[n] = new[n]
  <2>1. \A p \in 1..Len(s) : s[p].node # n
    BY <1>1, <1>3, <1>4
  <2>2. At(s, n) = {}
    BY <2>1 DEF At
  <2>3. Story(ch \o s, n, begin, old[n])
    BY <1>3, <2>2, StoryStays, Zenon
  <2>. QED
    BY <1>4, <2>3 DEF s, found
<1>5. CASE old[n] # new[n]
  <2>1. PICK m \in found : m.node = n
    BY <1>1, <1>5
  <2>2. m \in Message /\ m.from = old[n] /\ m.to = new[n]
    BY <1>1, <2>1
  <2>3. PICK p \in 1..Len(s) : s[p] = m
    BY <1>2, <2>1
  <2>4. ASSUME NEW q \in At(s, n)
        PROVE  q = p
    <3>1. q \in 1..Len(s) /\ s[q].node = n /\ s[q] \in found
      BY <1>3 DEF At
    <3>2. s[q] \in Message /\ s[q].from = old[n] /\ s[q].to = new[n]
      BY <1>1, <3>1
    <3>3. s[q] = m
      BY <2>1, <2>2, <3>1, <3>2 DEF Message
    <3>. QED
      BY <1>2, <2>3, <3>1, <3>3
  <2>5. At(s, n) = {p}
    BY <2>1, <2>3, <2>4 DEF At
  <2>6. Story(ch \o s, n, begin, s[p].to)
    <3>1. s[p].from = old[n]
      BY <2>2, <2>3
    <3>. QED
      BY <1>3, <2>5, <3>1, StoryGoesOn, Zenon
  <2>. QED
    BY <2>2, <2>3, <2>6 DEF s, found
<1>. QED
  BY <1>4, <1>5

-----------------------------------------------------------------------------
(* The inductive invariant.                                                  *)

HealthTypes == /\ dashboard \in [Monitored -> Health!Status] /\ statuses \in [Monitored -> Health!Status] /\ fetched \in [Monitored -> Health!Status]
               /\ told \in [Monitored -> Health!Status]
               /\ synced \in SUBSET Monitored /\ registered \in SUBSET Monitored
               /\ health \in {"run", "update", "ended", "dead"} /\ syncer \in {"run", "ended"}
               /\ sender \in {"run", "drain", "send", "ended", "dead"}
               /\ channel \in Seq(Message)
               /\ cancelled \in BOOLEAN /\ ready \in SUBSET {"health", "sender", "registry"}

StoriesHold == health # "dead" => \A n \in Monitored : Story(channel, n, told[n], statuses[n])

HealthIndInv == HealthTypes /\ StoriesHold

LEMMA HealthInitInd == Health!Init => HealthIndInv
<1>. SUFFICES ASSUME Health!Init PROVE HealthIndInv
  OBVIOUS
<1>1. HealthTypes
  <2>1. channel \in Seq(Message) /\ registered \in SUBSET Monitored /\ ready \in SUBSET {"health", "sender", "registry"}
    BY DEF Health!Init
  <2>. QED
    BY <2>1 DEF Health!Init, HealthTypes
<1>2. \A n \in Monitored : At(<<>>, n) = {}
  BY DEF At
<1>3. \A n \in Monitored : Story(<<>>, n, told[n], statuses[n])
  BY <1>2 DEF Story, Health!Init
<1>. QED
  BY <1>1, <1>3 DEF HealthIndInv, StoriesHold, Health!Init

LEMMA NetworkInd ==
    ASSUME HealthIndInv, NEW k \in Monitored, Health!NodeChanges(k) \/ Health!NodeRemoved(k)
    PROVE  HealthIndInv'
<1>1. /\ dashboard' \in [Monitored -> Health!Status] /\ registered' \in SUBSET Monitored
      /\ UNCHANGED <<synced, Health!healthVars, channel, Health!senderVars, syncer, cancelled, ready>>
  BY DEF Health!NodeChanges, Health!NodeRemoved, HealthIndInv, HealthTypes, Health!Status
<1>. QED
  BY <1>1 DEF HealthIndInv, HealthTypes, StoriesHold, Health!healthVars, Health!senderVars

LEMMA QuietInd ==
    ASSUME HealthIndInv, Health!SyncRegistry \/ Health!FetchHealth \/ Health!HealthFails \/ Health!HealthEnds \/ Health!Send \/ Health!SenderSleeps \/ Health!Stop
    PROVE  HealthIndInv'
<1>1. UNCHANGED <<channel, told, statuses>> /\ (health' # "dead" => health # "dead")
  BY DEF Health!SyncRegistry, Health!FetchHealth, Health!HealthFails, Health!HealthEnds, Health!Send, Health!SenderSleeps, Health!Stop, Health!healthVars, Health!senderVars
<1>2. StoriesHold'
  BY <1>1 DEF HealthIndInv, StoriesHold
<1>3. UNCHANGED <<dashboard, registered>>
  BY DEF Health!SyncRegistry, Health!FetchHealth, Health!HealthFails, Health!HealthEnds, Health!Send, Health!SenderSleeps, Health!Stop, Health!network
<1>4. fetched' \in [Monitored -> Health!Status] /\ synced' \in SUBSET Monitored
  BY DEF Health!SyncRegistry, Health!FetchHealth, Health!HealthFails, Health!HealthEnds, Health!Send, Health!SenderSleeps, Health!Stop, Health!healthVars, HealthIndInv, HealthTypes
<1>5. /\ health' \in {"run", "update", "ended", "dead"} /\ syncer' \in {"run", "ended"}
      /\ cancelled' \in BOOLEAN
  BY DEF Health!SyncRegistry, Health!FetchHealth, Health!HealthFails, Health!HealthEnds, Health!Send, Health!SenderSleeps, Health!Stop, Health!healthVars, HealthIndInv, HealthTypes,
         Health!BreakAll
<1>6. sender' \in {"run", "drain", "send", "ended", "dead"}
  BY DEF Health!SyncRegistry, Health!FetchHealth, Health!HealthFails, Health!HealthEnds, Health!Send, Health!SenderSleeps, Health!Stop, Health!senderVars, HealthIndInv, HealthTypes,
         Health!RouteFails
<1>7. ready' \in SUBSET {"health", "sender", "registry"}
  BY DEF Health!SyncRegistry, Health!FetchHealth, Health!HealthFails, Health!HealthEnds, Health!Send, Health!SenderSleeps, Health!Stop, HealthIndInv, HealthTypes
<1>. QED
  BY <1>1, <1>2, <1>3, <1>4, <1>5, <1>6, <1>7 DEF HealthIndInv, HealthTypes

LEMMA ReceiveInd ==
    ASSUME HealthIndInv, Health!Receive
    PROVE  HealthIndInv'
<1>. DEFINE h == Head(channel)
<1>1. channel \in Seq(Message) /\ channel # <<>>
  BY DEF HealthIndInv, HealthTypes, Health!Receive
<1>2. h \in Message /\ channel' \in Seq(Message)
  BY <1>1, HeadTailProperties DEF Health!Receive
<1>3. h.node \in Monitored /\ h.to \in Health!Status
  BY <1>2 DEF Message
<1>. HIDE DEF h
<1>4. told' = [told EXCEPT ![h.node] = h.to] /\ channel' = Tail(channel)
  BY DEF Health!Receive, h
<1>5. told' \in [Monitored -> Health!Status]
  BY <1>3, <1>4 DEF HealthIndInv, HealthTypes
<1>6. /\ UNCHANGED <<dashboard, registered, synced, statuses, fetched, health, syncer, cancelled>>
      /\ sender' = "send" /\ ready' = ready \cup {"sender"}
  BY DEF Health!Receive, Health!network, Health!healthVars
<1>7. ASSUME health' # "dead", NEW n \in Monitored
      PROVE  Story(channel', n, told'[n], statuses'[n])
  <2>1. Story(channel, n, told[n], statuses[n])
    BY <1>6, <1>7 DEF HealthIndInv, StoriesHold
  <2>2. Story(Tail(channel), n, IF Head(channel).node = n THEN Head(channel).to ELSE told[n], statuses[n])
    BY <1>1, <2>1, StoryIsTold, Zenon
  <2>3. told'[n] = IF h.node = n THEN h.to ELSE told[n]
    BY <1>3, <1>4 DEF HealthIndInv, HealthTypes
  <2>. QED
    BY <1>4, <1>6, <2>2, <2>3 DEF h
<1>8. StoriesHold'
  BY <1>7 DEF StoriesHold
<1>. QED
  BY <1>2, <1>5, <1>6, <1>8 DEF HealthIndInv, HealthTypes

LEMMA NotifyInd ==
    ASSUME HealthIndInv, NodesAreFinite, Health!Notify
    PROVE  HealthIndInv'
<1>. DEFINE found == Health!Updated(statuses, fetched)
            unknown == {m \in found : m.node \notin synced}
            gone == sender \in {"ended", "dead"}
<1>1. statuses \in [Monitored -> Health!Status] /\ fetched \in [Monitored -> Health!Status] /\ channel \in Seq(Message)
  BY DEF HealthIndInv, HealthTypes
<1>2. found \in SUBSET Message /\ IsFiniteSet(found)
      /\ \A n \in Monitored : statuses[n] # fetched[n] => \E m \in found : m.node = n
  BY <1>1, FoundIs, Zenon
<1>3. ASSUME NEW sent \in SUBSET found
      PROVE  channel \o Health!SetToSeq(sent) \in Seq(Message)
  <2>1. IsFiniteSet(sent)
    BY <1>2, FS_Subset
  <2>2. Health!SetToSeq(sent) \in Seq(sent)
    BY <2>1, SetToSeqIs
  <2>3. Health!SetToSeq(sent) \in Seq(Message)
    BY <1>2, <2>2
  <2>. QED
    BY <1>1, <2>3, ConcatProperties
<1>4. UNCHANGED <<dashboard, registered, synced, fetched, told, sender, syncer, cancelled, ready>> /\ health # "dead"
  BY DEF Health!Notify, Health!network, Health!senderVars
<1>5. \/ /\ channel' = channel \o Health!SetToSeq(found)
         /\ statuses' = fetched /\ health' = "run"
      \/ \E sent \in SUBSET (found \ unknown) :
           /\ channel' = IF gone THEN channel ELSE channel \o Health!SetToSeq(sent)
           /\ health' = "dead" /\ UNCHANGED statuses
      \/ /\ found = {} /\ statuses' = fetched /\ health' = "run" /\ UNCHANGED channel
  BY Zenon DEF Health!Notify, Health!Committed
<1>. HIDE DEF found, unknown, gone
<1>6. CASE channel' = channel \o Health!SetToSeq(found) /\ statuses' = fetched /\ health' = "run"
  <2>1. channel' \in Seq(Message)
    BY <1>3, <1>6
  <2>2. ASSUME NEW n \in Monitored
        PROVE  Story(channel', n, told'[n], statuses'[n])
    <3>1. Story(channel, n, told[n], statuses[n])
      BY <1>4 DEF HealthIndInv, StoriesHold
    <3>2. Story(channel \o Health!SetToSeq(found), n, told[n], fetched[n])
      BY <1>1, <3>1, RoundIsOneStep DEF found
    <3>. QED
      BY <1>4, <1>6, <3>2
  <2>. QED
    BY <1>1, <1>4, <1>6, <2>1, <2>2 DEF HealthIndInv, HealthTypes, StoriesHold
<1>7. CASE \E sent \in SUBSET (found \ unknown) :
             /\ channel' = IF gone THEN channel ELSE channel \o Health!SetToSeq(sent)
             /\ health' = "dead" /\ UNCHANGED statuses
  <2>1. channel' \in Seq(Message)
    BY <1>1, <1>3, <1>7
  <2>. QED
    BY <1>1, <1>4, <1>7, <2>1 DEF HealthIndInv, HealthTypes, StoriesHold
<1>8. CASE found = {} /\ statuses' = fetched /\ health' = "run" /\ UNCHANGED channel
  <2>1. \A n \in Monitored : statuses[n] = fetched[n]
    BY <1>2, <1>8
  <2>2. \A n \in Monitored : Story(channel, n, told[n], fetched[n])
    BY <1>4, <2>1 DEF HealthIndInv, StoriesHold
  <2>. QED
    BY <1>1, <1>4, <1>8, <2>2 DEF HealthIndInv, HealthTypes, StoriesHold
<1>. QED
  BY <1>5, <1>6, <1>7, <1>8

LEMMA HealthStepInd ==
    ASSUME HealthIndInv, NodesAreFinite, [Health!Next]_Health!vars
    PROVE  HealthIndInv'
<1>1. CASE \E n \in Monitored : Health!NodeChanges(n) \/ Health!NodeRemoved(n)
  BY <1>1, NetworkInd
<1>2. CASE Health!Receive
  BY <1>2, ReceiveInd
<1>3. CASE Health!Notify
  BY <1>3, NotifyInd
<1>4. CASE Health!SyncRegistry \/ Health!FetchHealth \/ Health!HealthFails \/ Health!HealthEnds \/ Health!Send \/ Health!SenderSleeps \/ Health!Stop
  BY <1>4, QuietInd
<1>5. CASE UNCHANGED Health!vars
  BY <1>5 DEF HealthIndInv, HealthTypes, StoriesHold, Health!vars, Health!network, Health!healthVars, Health!senderVars
<1>. QED
  BY <1>1, <1>2, <1>3, <1>4, <1>5 DEF Health!Next, Health!HealthLoop, Health!SenderLoop

LEMMA HealthIndIsEnough == HealthIndInv => Health!TypeOK /\ Health!ChangesFollow
<1>. SUFFICES ASSUME HealthIndInv PROVE Health!TypeOK /\ Health!ChangesFollow
  OBVIOUS
<1>1. channel \in Seq(Message)
  BY DEF HealthIndInv, HealthTypes
<1>2. DOMAIN channel = 1..Len(channel) /\ \A i \in DOMAIN channel : channel[i] \in Message
  BY <1>1
<1>3. Health!TypeOK
  BY <1>2 DEF Health!TypeOK, HealthIndInv, HealthTypes, Message
<1>4. \A n \in Monitored : Health!About(n) = At(channel, n)
  BY <1>2 DEF Health!About, At
<1>5. Health!ChangesFollow
  BY <1>4 DEF Health!ChangesFollow, HealthIndInv, StoriesHold, Story
<1>. QED
  BY <1>3, <1>5

\* Spec => []TypeOK: the types of the service, the messages on the channel
\* included (health_check.rs:54-93, notification.rs:26-60).
THEOREM NotifierTypes == NodesAreFinite /\ Health!Spec => []Health!TypeOK
<1>. SUFFICES ASSUME NodesAreFinite PROVE Health!Spec => []Health!TypeOK
  OBVIOUS
<1>1. Health!Init => HealthIndInv
  BY HealthInitInd
<1>2. HealthIndInv /\ [Health!Next]_Health!vars => HealthIndInv'
  BY HealthStepInd
<1>3. HealthIndInv => Health!TypeOK
  BY HealthIndIsEnough
<1>. QED
  BY <1>1, <1>2, <1>3, PTL DEF Health!Spec

\* Spec => []ChangesFollow: however the rounds of the health loop, the sender
\* and the network interleave, what is on its way about a node starts where the
\* log ended, is chained without a gap, and ends at what the next round compares
\* with (nodes_status.rs:42-98, health_check.rs:58-84).
THEOREM StoriesAreTold == NodesAreFinite /\ Health!Spec => []Health!ChangesFollow
<1>. SUFFICES ASSUME NodesAreFinite PROVE Health!Spec => []Health!ChangesFollow
  OBVIOUS
<1>1. Health!Init => HealthIndInv
  BY HealthInitInd
<1>2. HealthIndInv /\ [Health!Next]_Health!vars => HealthIndInv'
  BY HealthStepInd
<1>3. HealthIndInv => Health!ChangesFollow
  BY HealthIndIsEnough
<1>. QED
  BY <1>1, <1>2, <1>3, PTL DEF Health!Spec


-----------------------------------------------------------------------------
(* The greatest number, as the module sees it.                               *)

LEMMA ProposalsGreatest ==
    ASSUME NEW n \in Nat, NEW S \in SUBSET (1..n), S # {}
    PROVE  Proposals!Max(S) \in S /\ \A y \in S : y <= Proposals!Max(S)
  BY MaxType DEF Proposals!Max, Max


-----------------------------------------------------------------------------
(* Sequences that name nothing twice.                                        *)

Once(T) == {s \in Seq(T) : \A i, j \in 1..Len(s) : s[i] = s[j] => i = j}

LEMMA AppendOnce ==
    ASSUME NEW T, NEW U, T \subseteq U, NEW s \in Once(T), NEW x \in U, x \notin T
    PROVE  Append(s, x) \in Once(U)
<1>1. s \in Seq(T) /\ \A i, j \in 1..Len(s) : s[i] = s[j] => i = j
  BY DEF Once
<1>. PICK L \in Nat : L = Len(s)
  BY <1>1
<1>. DEFINE r == Append(s, x)
<1>2. s \in Seq(U) /\ \A i \in 1..L : s[i] \in T
  BY <1>1
<1>3. r \in Seq(U) /\ Len(r) = L + 1 /\ (\A i \in 1..L : r[i] = s[i]) /\ r[L + 1] = x
  BY <1>2, AppendProperties
<1>. HIDE DEF r
<1>4. ASSUME NEW i \in 1..(L + 1), NEW j \in 1..(L + 1), r[i] = r[j]
      PROVE  i = j
  <2>1. CASE i \in 1..L /\ j \in 1..L
    BY <1>1, <1>3, <1>4, <2>1
  <2>2. CASE i \in 1..L /\ j = L + 1
    BY <1>2, <1>3, <1>4, <2>2
  <2>3. CASE i = L + 1 /\ j \in 1..L
    BY <1>2, <1>3, <1>4, <2>3
  <2>4. CASE i = L + 1 /\ j = L + 1
    BY <2>4
  <2>. QED
    BY <2>1, <2>2, <2>3, <2>4
<1>5. r \in Once(U)
  BY <1>3, <1>4 DEF Once
<1>. QED
  BY <1>5 DEF r

LEMMA ConcatOnce ==
    ASSUME NEW T, NEW U, T \cap U = {}, NEW s \in Once(T), NEW t \in Once(U)
    PROVE  s \o t \in Once(T \cup U)
<1>1. /\ s \in Seq(T) /\ \A i, j \in 1..Len(s) : s[i] = s[j] => i = j
      /\ t \in Seq(U) /\ \A i, j \in 1..Len(t) : t[i] = t[j] => i = j
  BY DEF Once
<1>. PICK L \in Nat : L = Len(s)
  BY <1>1
<1>. PICK M \in Nat : M = Len(t)
  BY <1>1
<1>. DEFINE r == s \o t
            W == T \cup U
<1>2. s \in Seq(W) /\ t \in Seq(W) /\ (\A i \in 1..L : s[i] \in T) /\ \A i \in 1..M : t[i] \in U
  BY <1>1
<1>. HIDE DEF W
<1>3. r \in Seq(W) /\ Len(r) = L + M /\ \A i \in 1..(L + M) : r[i] = IF i <= L THEN s[i] ELSE t[i - L]
  BY <1>2, ConcatProperties
<1>. HIDE DEF r
<1>4. \A i \in 1..(L + M) : \/ i \in 1..L /\ r[i] = s[i] /\ r[i] \in T
                            \/ i > L /\ i - L \in 1..M /\ r[i] = t[i - L] /\ r[i] \in U
  <2>1. ASSUME NEW i \in 1..(L + M)
        PROVE  \/ i \in 1..L /\ r[i] = s[i] /\ r[i] \in T
               \/ i > L /\ i - L \in 1..M /\ r[i] = t[i - L] /\ r[i] \in U
    <3>1. CASE i <= L
      <4>1. i \in 1..L /\ r[i] = s[i]
        BY <1>3, <3>1
      <4>. QED
        BY <1>2, <4>1
    <3>2. CASE ~(i <= L)
      <4>1. i > L /\ i - L \in 1..M /\ r[i] = t[i - L]
        BY <1>3, <3>2
      <4>. QED
        BY <1>2, <4>1
    <3>. QED
      BY <3>1, <3>2
  <2>. QED
    BY <2>1
<1>5. ASSUME NEW i \in 1..(L + M), NEW j \in 1..(L + M), r[i] = r[j]
      PROVE  i = j
  <2>1. CASE i \in 1..L /\ j \in 1..L
    BY <1>1, <1>4, <1>5, <2>1
  <2>2. CASE i > L /\ j > L
    <3>1. i - L \in 1..M /\ j - L \in 1..M /\ t[i - L] = t[j - L]
      BY <1>4, <1>5, <2>2
    <3>2. i - L = j - L
      BY <1>1, <3>1
    <3>. QED
      BY <3>2
  <2>3. CASE i \in 1..L /\ j > L
    BY <1>4, <1>5, <2>3
  <2>4. CASE i > L /\ j \in 1..L
    BY <1>4, <1>5, <2>4
  <2>. QED
    BY <2>1, <2>2, <2>3, <2>4
<1>6. r \in Once(W)
  BY <1>3, <1>5 DEF Once
<1>. QED
  BY <1>6 DEF r, W

-----------------------------------------------------------------------------
(* The proposals in the order of their ids, and in that of their times.      *)

LEMMA OrderedOnce ==
    ASSUME ProposalBounds, NEW ids \in SUBSET Proposals!Id
    PROVE  Proposals!Ordered(ids) \in Once(ids)
<1>. DEFINE N == Last1
            S == Seq(Proposals!Id)
            Step(p, s0) == (IF p \in ids THEN Append(s0, p) ELSE s0)
            After(n, s) == IF n < N THEN Step(n + 1, s) ELSE s
            step == [n \in Nat |-> [s \in S |-> After(n, s)]]
            IsIt(f) == f = [p \in 0..N |-> IF p = 0 THEN <<>> ELSE Step(p, f[p - 1])]
            upTo == CHOOSE f : IsIt(f)
<1>0. upTo[N] = Proposals!Ordered(ids)
  BY DEF Proposals!Ordered
<1>1. N \in Nat
  BY DEF ProposalBounds
<1>2. ASSUME NEW p \in 1..N, NEW s \in S
      PROVE  Step(p, s) \in S
  <2>1. p \in Proposals!Id
    BY DEF Proposals!Id
  <2>2. Append(s, p) \in S
    BY <2>1
  <2>. QED
    BY <2>2
<1>. HIDE DEF Step
<1>3. step \in [Nat -> [S -> S]]
  <2>1. ASSUME NEW n \in Nat, NEW s \in S
        PROVE  After(n, s) \in S
    <3>1. CASE n < N
      <4>1. n + 1 \in 1..N
        BY <1>1, <3>1
      <4>. QED
        BY <1>2, <3>1, <4>1
    <3>. QED
      BY <3>1
  <2>. HIDE DEF After, S
  <2>. QED
    BY <2>1
<1>4. <<>> \in S
  OBVIOUS
<1>5. \E f : IsIt(f)
  <2>1. BehaviourUpTo(N, S, <<>>, step) # {}
    <3>. HIDE DEF step, S, N
    <3>. QED
      BY <1>1, <1>3, <1>4, RecursionUpTo
  <2>. PICK f : f \in BehaviourUpTo(N, S, <<>>, step)
    BY <2>1
  <2>2. f \in [0..N -> S] /\ f[0] = <<>> /\ \A n \in 1..N : f[n] = step[n - 1][f[n - 1]]
    BY DEF BehaviourUpTo
  <2>3. ASSUME NEW p \in 1..N
        PROVE  f[p] = Step(p, f[p - 1])
    <3>1. p - 1 \in Nat /\ p - 1 \in 0..N /\ p - 1 < N /\ p - 1 + 1 = p
      BY <1>1
    <3>2. f[p - 1] \in S
      BY <2>2, <3>1
    <3>3. step[p - 1][f[p - 1]] = After(p - 1, f[p - 1])
      BY <3>1, <3>2
    <3>. QED
      BY <2>2, <3>1, <3>3
  <2>4. ASSUME NEW p \in 0..N
        PROVE  f[p] = IF p = 0 THEN <<>> ELSE Step(p, f[p - 1])
    <3>1. CASE p = 0
      BY <2>2, <3>1
    <3>2. CASE p # 0
      <4>1. p \in 1..N
        BY <1>1, <3>2
      <4>. QED
        BY <2>3, <3>2, <4>1
    <3>. QED
      BY <3>1, <3>2
  <2>5. f = [p \in 0..N |-> f[p]]
    BY <2>2
  <2>6. IsIt(f)
    BY <2>4, <2>5, Zenon
  <2>. QED
    BY <2>6
<1>6. IsIt(upTo)
  BY <1>5
<1>7. upTo[0] = <<>> /\ \A p \in 1..N : upTo[p] = Step(p, upTo[p - 1])
  <2>. HIDE DEF upTo
  <2>. QED
    BY <1>1, <1>6
<1>. HIDE DEF upTo
<1>. DEFINE P == {n \in 0..N : upTo[n] \in Once(ids \cap 1..n)}
<1>8. 0 \in P
  <2>1. <<>> \in Seq(ids \cap 1..0) /\ Len(<<>>) = 0 /\ 0 \in 0..N
    BY <1>1
  <2>2. <<>> \in Once(ids \cap 1..0)
    BY <2>1 DEF Once
  <2>. QED
    BY <1>7, <2>1, <2>2
<1>9. ASSUME NEW n \in P, n < N
      PROVE  n + 1 \in P
  <2>1. n \in Nat /\ n + 1 \in 1..N /\ n + 1 \in 0..N /\ (n + 1) - 1 = n
    BY <1>1, <1>9
  <2>. PICK p \in 1..N : p = n + 1
    BY <2>1
  <2>2. upTo[p] = IF p \in ids THEN Append(upTo[n], p) ELSE upTo[n]
    BY <1>7, <2>1 DEF Step
  <2>3. upTo[n] \in Once(ids \cap 1..n) /\ ids \cap 1..n \subseteq ids \cap 1..p /\ p \notin ids \cap 1..n
    BY <2>1
  <2>4. CASE p \in ids
    <3>1. p \in ids \cap 1..p
      BY <2>1, <2>4
    <3>2. Append(upTo[n], p) \in Once(ids \cap 1..p)
      BY <2>3, <3>1, AppendOnce, Zenon
    <3>. QED
      BY <2>1, <2>2, <2>4, <3>2
  <2>5. CASE p \notin ids
    <3>1. ids \cap 1..p = ids \cap 1..n
      BY <2>1, <2>5
    <3>. QED
      BY <2>1, <2>2, <2>3, <2>5, <3>1
  <2>. QED
    BY <2>4, <2>5
<1>10. P = 0..N
  <2>1. P \in SUBSET (0..N)
    OBVIOUS
  <2>. HIDE DEF P, N
  <2>. QED
    BY <1>1, <1>8, <1>9, <2>1, InductionUpTo
<1>11. upTo[N] \in Once(ids \cap 1..N)
  BY <1>1, <1>10
<1>12. ids \cap 1..N = ids
  BY DEF Proposals!Id
<1>. QED
  BY <1>0, <1>11, <1>12

LEMMA ByTimeOnce ==
    ASSUME ProposalBounds, NEW ids \in SUBSET Proposals!Id
    PROVE  Proposals!ByTime(ids) \in Once(ids)
<1>. DEFINE N == MaxClock
            S == Seq(Proposals!Id)
            Step(t, s0) == (s0 \o Proposals!Ordered({p \in ids : stamped[p] = t}))
            After(n, s) == IF n < N THEN Step(n + 1, s) ELSE s
            step == [n \in Nat |-> [s \in S |-> After(n, s)]]
            IsIt(f) == f = [t \in 0..N |-> IF t = 0 THEN <<>> ELSE Step(t, f[t - 1])]
            upTo == CHOOSE f : IsIt(f)
<1>0. upTo[N] = Proposals!ByTime(ids)
  BY DEF Proposals!ByTime
<1>1. N \in Nat
  BY DEF ProposalBounds
<1>. DEFINE In(t) == {p \in ids : stamped[p] = t}
            Before(t) == {p \in ids : stamped[p] \in 1..t}
<1>20. \A t : Proposals!Ordered(In(t)) \in Once(In(t))
  BY OrderedOnce
<1>2. ASSUME NEW t \in 1..N, NEW s \in S
      PROVE  Step(t, s) \in S
  <2>1. Proposals!Ordered(In(t)) \in Seq(In(t))
    BY <1>20 DEF Once
  <2>2. Proposals!Ordered(In(t)) \in S
    BY <2>1
  <2>. QED
    BY <2>2
<1>. HIDE DEF Step
<1>3. step \in [Nat -> [S -> S]]
  <2>1. ASSUME NEW n \in Nat, NEW s \in S
        PROVE  After(n, s) \in S
    <3>1. CASE n < N
      <4>1. n + 1 \in 1..N
        BY <1>1, <3>1
      <4>. QED
        BY <1>2, <3>1, <4>1
    <3>. QED
      BY <3>1
  <2>. HIDE DEF After, S
  <2>. QED
    BY <2>1
<1>4. <<>> \in S
  OBVIOUS
<1>5. \E f : IsIt(f)
  <2>1. BehaviourUpTo(N, S, <<>>, step) # {}
    <3>. HIDE DEF step, S, N
    <3>. QED
      BY <1>1, <1>3, <1>4, RecursionUpTo
  <2>. PICK f : f \in BehaviourUpTo(N, S, <<>>, step)
    BY <2>1
  <2>2. f \in [0..N -> S] /\ f[0] = <<>> /\ \A n \in 1..N : f[n] = step[n - 1][f[n - 1]]
    BY DEF BehaviourUpTo
  <2>3. ASSUME NEW t \in 1..N
        PROVE  f[t] = Step(t, f[t - 1])
    <3>1. t - 1 \in Nat /\ t - 1 \in 0..N /\ t - 1 < N /\ t - 1 + 1 = t
      BY <1>1
    <3>2. f[t - 1] \in S
      BY <2>2, <3>1
    <3>3. step[t - 1][f[t - 1]] = After(t - 1, f[t - 1])
      BY <3>1, <3>2
    <3>. QED
      BY <2>2, <3>1, <3>3
  <2>4. ASSUME NEW t \in 0..N
        PROVE  f[t] = IF t = 0 THEN <<>> ELSE Step(t, f[t - 1])
    <3>1. CASE t = 0
      BY <2>2, <3>1
    <3>2. CASE t # 0
      <4>1. t \in 1..N
        BY <1>1, <3>2
      <4>. QED
        BY <2>3, <3>2, <4>1
    <3>. QED
      BY <3>1, <3>2
  <2>5. f = [t \in 0..N |-> f[t]]
    BY <2>2
  <2>6. IsIt(f)
    BY <2>4, <2>5, Zenon
  <2>. QED
    BY <2>6
<1>6. IsIt(upTo)
  BY <1>5
<1>7. upTo[0] = <<>> /\ \A t \in 1..N : upTo[t] = Step(t, upTo[t - 1])
  <2>. HIDE DEF upTo
  <2>. QED
    BY <1>1, <1>6
<1>. HIDE DEF upTo
<1>. DEFINE P == {n \in 0..N : upTo[n] \in Once(Before(n))}
<1>8. 0 \in P
  <2>1. <<>> \in Seq(Before(0)) /\ Len(<<>>) = 0 /\ 0 \in 0..N
    BY <1>1
  <2>2. <<>> \in Once(Before(0))
    BY <2>1 DEF Once
  <2>. QED
    BY <1>7, <2>1, <2>2
<1>9. ASSUME NEW n \in P, n < N
      PROVE  n + 1 \in P
  <2>1. n \in Nat /\ n + 1 \in 1..N /\ n + 1 \in 0..N /\ (n + 1) - 1 = n
    BY <1>1, <1>9
  <2>. PICK t \in 1..N : t = n + 1
    BY <2>1
  <2>2. upTo[t] = upTo[n] \o Proposals!Ordered(In(t))
    BY <1>7, <2>1 DEF Step
  <2>3. upTo[n] \in Once(Before(n)) /\ Before(n) \cap In(t) = {} /\ Before(t) = Before(n) \cup In(t)
    BY <2>1
  <2>4. upTo[n] \o Proposals!Ordered(In(t)) \in Once(Before(n) \cup In(t))
    <3>. HIDE DEF Before, In
    <3>. QED
      BY <1>20, <2>3, ConcatOnce, Zenon
  <2>. QED
    BY <2>1, <2>2, <2>3, <2>4
<1>10. P = 0..N
  <2>1. P \in SUBSET (0..N)
    OBVIOUS
  <2>. HIDE DEF P, N
  <2>. QED
    BY <1>1, <1>8, <1>9, <2>1, InductionUpTo
<1>11. upTo[N] \in Once(Before(N))
  BY <1>1, <1>10
<1>12. Before(N) \subseteq ids
  OBVIOUS
<1>13. upTo[N] \in Once(ids)
  <2>. HIDE DEF Before
  <2>. QED
    BY <1>11, <1>12 DEF Once
<1>. QED
  BY <1>0, <1>13

-----------------------------------------------------------------------------
(* Messages.                                                                 *)

Apart(gs) == \A a, b \in 1..Len(gs) : a # b => gs[a] \cap gs[b] = {}

Left(gs) == {p \in Proposals!Id : \E a \in 1..Len(gs) : p \in gs[a]}

\* Two chunks have nothing in common.
LEMMA ChunksApart ==
    ASSUME NEW ids \in Once(Proposals!Id), NEW i \in 1..Len(ids), NEW j \in 1..Len(ids), i < j, Proposals!Starts(ids, j)
    PROVE  Proposals!Chunk(ids, i) \cap Proposals!Chunk(ids, j) = {}
<1>. SUFFICES ASSUME NEW p \in Proposals!Chunk(ids, i), p \in Proposals!Chunk(ids, j) PROVE FALSE
  OBVIOUS
<1>1. ids \in Seq(Proposals!Id) /\ \A a, b \in 1..Len(ids) : ids[a] = ids[b] => a = b
  BY DEF Once
<1>. PICK L \in Nat : L = Len(ids)
  BY <1>1
<1>2. PICK m \in i..L : ids[m] = p /\ \A k \in i..m : ids[k] \notin Muted /\ GroupOf[ids[k]] = GroupOf[ids[i]]
  BY DEF Proposals!Chunk
<1>3. PICK m2 \in j..L : ids[m2] = p
  BY DEF Proposals!Chunk
<1>4. m = m2 /\ m \in 1..L
  <2>1. m \in 1..L /\ m2 \in 1..L
    BY <1>2, <1>3
  <2>. QED
    BY <1>1, <1>2, <1>3, <2>1
<1>5. j \in i..m /\ j - 1 \in i..m /\ j > 1
  BY <1>2, <1>3, <1>4
<1>6. GroupOf[ids[j - 1]] = GroupOf[ids[j]] /\ ids[j - 1] \notin Muted
  BY <1>2, <1>5
<1>. QED
  BY <1>5, <1>6 DEF Proposals!Starts

\* Every group is the chunk of a place up to n, and no two are of one place.
AreChunks(gs, ids, n) ==
    /\ gs \in Seq(SUBSET Proposals!Id)
    /\ \A a \in 1..Len(gs) : \E i \in 1..n : gs[a] = Proposals!Chunk(ids, i)
    /\ Apart(gs)

LEMMA ChunkIs ==
    ASSUME NEW ids \in Once(Proposals!Id), NEW i \in 1..Len(ids)
    PROVE  Proposals!Chunk(ids, i) \in SUBSET Proposals!Id /\ \A p \in Proposals!Chunk(ids, i) : \E j \in 1..Len(ids) : ids[j] = p
<1>1. ids \in Seq(Proposals!Id)
  BY DEF Once
<1>2. \A j \in i..Len(ids) : j \in 1..Len(ids) /\ ids[j] \in Proposals!Id
  BY <1>1
<1>. QED
  BY <1>2 DEF Proposals!Chunk

LEMMA ChunksGoOn ==
    ASSUME NEW ids \in Once(Proposals!Id), NEW n \in Nat, n < Len(ids), NEW gs, AreChunks(gs, ids, n)
    PROVE  AreChunks(Proposals!WithChunk(gs, ids, n + 1), ids, n + 1)
<1>. PICK N \in Nat : N = Len(ids)
  BY DEF Once
<1>. PICK i \in 1..N : i = n + 1
  OBVIOUS
<1>1. gs \in Seq(SUBSET Proposals!Id) /\ (\A a \in 1..Len(gs) : \E m \in 1..n : gs[a] = Proposals!Chunk(ids, m)) /\ Apart(gs)
  BY DEF AreChunks
<1>. PICK L \in Nat : L = Len(gs)
  BY <1>1
<1>2. \A m \in 1..n : m \in 1..i /\ m \in 1..N /\ m < i
  OBVIOUS
<1>3. CASE ~Proposals!Starts(ids, i)
  <2>1. Proposals!WithChunk(gs, ids, i) = gs
    BY <1>3 DEF Proposals!WithChunk
  <2>. QED
    BY <1>1, <1>2, <2>1 DEF AreChunks
<1>4. CASE Proposals!Starts(ids, i)
  <2>. DEFINE c == Proposals!Chunk(ids, i)
              r == Append(gs, c)
  <2>1. c \in SUBSET Proposals!Id
    BY ChunkIs
  <2>2. \A m \in 1..n : Proposals!Chunk(ids, m) \cap c = {}
    BY <1>2, <1>4, ChunksApart
  <2>3. Proposals!WithChunk(gs, ids, i) = r
    BY <1>4 DEF Proposals!WithChunk
  <2>4. i \in 1..i /\ c = Proposals!Chunk(ids, i)
    OBVIOUS
  <2>. HIDE DEF c
  <2>5. r \in Seq(SUBSET Proposals!Id) /\ Len(r) = L + 1 /\ (\A a \in 1..L : r[a] = gs[a]) /\ r[L + 1] = c
    BY <1>1, <2>1, AppendProperties
  <2>. HIDE DEF r
  <2>6. \A a \in 1..(L + 1) : a \in 1..L \/ a = L + 1
    OBVIOUS
  <2>7. \A a \in 1..L : gs[a] \cap c = {}
    BY <1>1, <2>2
  <2>8. ASSUME NEW a \in 1..(L + 1), NEW b \in 1..(L + 1), a # b
        PROVE  r[a] \cap r[b] = {}
    <3>1. CASE a \in 1..L /\ b \in 1..L
      BY <1>1, <2>5, <2>8, <3>1 DEF Apart
    <3>2. CASE a \in 1..L /\ b = L + 1
      BY <2>5, <2>7, <3>2
    <3>3. CASE a = L + 1 /\ b \in 1..L
      BY <2>5, <2>7, <3>3
    <3>. QED
      BY <2>6, <2>8, <3>1, <3>2, <3>3
  <2>9. ASSUME NEW a \in 1..(L + 1)
        PROVE  \E m \in 1..i : r[a] = Proposals!Chunk(ids, m)
    <3>1. CASE a \in 1..L
      BY <1>1, <1>2, <2>5, <3>1
    <3>2. CASE a = L + 1
      BY <2>4, <2>5, <3>2
    <3>. QED
      BY <2>6, <3>1, <3>2
  <2>10. AreChunks(r, ids, i)
    BY <2>5, <2>8, <2>9 DEF AreChunks, Apart
  <2>. QED
    BY <2>3, <2>10
<1>. QED
  BY <1>3, <1>4

\* Messages are disjoint, and about the proposals at hand only.
LEMMA GroupsAre ==
    ASSUME NEW ids \in Once(Proposals!Id)
    PROVE  /\ Proposals!Groups(ids) \in Seq(SUBSET Proposals!Id)
           /\ Apart(Proposals!Groups(ids))
           /\ \A p \in Left(Proposals!Groups(ids)) : \E j \in 1..Len(ids) : ids[j] = p
           /\ Proposals!Groups(ids) # <<>> => ids # <<>>
<1>. DEFINE N == Len(ids)
            S == Seq(SUBSET Proposals!Id)
            Step(i, s0) == Proposals!WithChunk(s0, ids, i)
            After(n, s) == IF n < N THEN Step(n + 1, s) ELSE s
            step == [n \in Nat |-> [s \in S |-> After(n, s)]]
            IsIt(f) == f = [i \in 0..N |-> IF i = 0 THEN <<>> ELSE Step(i, f[i - 1])]
            upTo == CHOOSE f : IsIt(f)
<1>0. upTo[N] = Proposals!Groups(ids)
  BY DEF Proposals!Groups
<1>1. N \in Nat
  BY DEF Once
<1>2. ASSUME NEW i \in 1..N, NEW s \in S
      PROVE  Step(i, s) \in S
  <2>1. Proposals!Chunk(ids, i) \in SUBSET Proposals!Id
    BY ChunkIs
  <2>2. Append(s, Proposals!Chunk(ids, i)) \in S
    BY <2>1
  <2>. QED
    BY <2>2 DEF Proposals!WithChunk
<1>. HIDE DEF Step
<1>3. step \in [Nat -> [S -> S]]
  <2>1. ASSUME NEW n \in Nat, NEW s \in S
        PROVE  After(n, s) \in S
    <3>1. CASE n < N
      <4>1. n + 1 \in 1..N
        BY <1>1, <3>1
      <4>. QED
        BY <1>2, <3>1, <4>1
    <3>. QED
      BY <3>1
  <2>. HIDE DEF After, S
  <2>. QED
    BY <2>1
<1>4. <<>> \in S
  OBVIOUS
<1>5. \E f : IsIt(f)
  <2>1. BehaviourUpTo(N, S, <<>>, step) # {}
    <3>. HIDE DEF step, S, N
    <3>. QED
      BY <1>1, <1>3, <1>4, RecursionUpTo
  <2>. PICK f : f \in BehaviourUpTo(N, S, <<>>, step)
    BY <2>1
  <2>2. f \in [0..N -> S] /\ f[0] = <<>> /\ \A n \in 1..N : f[n] = step[n - 1][f[n - 1]]
    BY DEF BehaviourUpTo
  <2>3. ASSUME NEW i \in 1..N
        PROVE  f[i] = Step(i, f[i - 1])
    <3>1. i - 1 \in Nat /\ i - 1 \in 0..N /\ i - 1 < N /\ i - 1 + 1 = i
      BY <1>1
    <3>2. f[i - 1] \in S
      BY <2>2, <3>1
    <3>3. step[i - 1][f[i - 1]] = After(i - 1, f[i - 1])
      BY <3>1, <3>2
    <3>. QED
      BY <2>2, <3>1, <3>3
  <2>4. ASSUME NEW i \in 0..N
        PROVE  f[i] = IF i = 0 THEN <<>> ELSE Step(i, f[i - 1])
    <3>1. CASE i = 0
      BY <2>2, <3>1
    <3>2. CASE i # 0
      <4>1. i \in 1..N
        BY <1>1, <3>2
      <4>. QED
        BY <2>3, <3>2, <4>1
    <3>. QED
      BY <3>1, <3>2
  <2>5. f = [i \in 0..N |-> f[i]]
    BY <2>2
  <2>6. IsIt(f)
    BY <2>4, <2>5, Zenon
  <2>. QED
    BY <2>6
<1>6. IsIt(upTo)
  BY <1>5
<1>7. upTo[0] = <<>> /\ \A i \in 1..N : upTo[i] = Step(i, upTo[i - 1])
  <2>. HIDE DEF upTo
  <2>. QED
    BY <1>1, <1>6
<1>. HIDE DEF upTo
<1>. DEFINE P == {n \in 0..N : AreChunks(upTo[n], ids, n)}
<1>8. 0 \in P
  <2>1. <<>> \in Seq(SUBSET Proposals!Id) /\ Len(<<>>) = 0 /\ 1..0 = {} /\ 0 \in 0..N
    BY <1>1
  <2>2. AreChunks(<<>>, ids, 0)
    BY <2>1, Zenon DEF AreChunks, Apart
  <2>. QED
    BY <1>7, <2>1, <2>2
<1>9. ASSUME NEW n \in P, n < N
      PROVE  n + 1 \in P
  <2>1. n \in Nat /\ n + 1 \in 1..N /\ n + 1 \in 0..N /\ (n + 1) - 1 = n
    BY <1>1, <1>9
  <2>2. upTo[n + 1] = Proposals!WithChunk(upTo[n], ids, n + 1)
    BY <1>7, <2>1 DEF Step
  <2>3. AreChunks(upTo[n], ids, n) /\ n < Len(ids)
    BY <1>9
  <2>4. AreChunks(Proposals!WithChunk(upTo[n], ids, n + 1), ids, n + 1)
    BY <2>1, <2>3, ChunksGoOn
  <2>. QED
    BY <2>1, <2>2, <2>4
<1>10. P = 0..N
  <2>1. P \in SUBSET (0..N)
    OBVIOUS
  <2>. HIDE DEF P, N
  <2>. QED
    BY <1>1, <1>8, <1>9, <2>1, InductionUpTo
<1>11. AreChunks(upTo[N], ids, N)
  BY <1>1, <1>10
<1>. DEFINE gs == Proposals!Groups(ids)
<1>12. AreChunks(gs, ids, Len(ids))
  BY <1>0, <1>11
<1>13. gs # <<>> => ids # <<>>
  BY <1>0, <1>7
<1>. HIDE DEF gs
<1>14. \A p \in Left(gs) : \E j \in 1..Len(ids) : ids[j] = p
  <2>1. ASSUME NEW p \in Left(gs)
        PROVE  \E j \in 1..Len(ids) : ids[j] = p
    <3>1. PICK a \in 1..Len(gs) : p \in gs[a]
      BY DEF Left
    <3>2. PICK i \in 1..Len(ids) : gs[a] = Proposals!Chunk(ids, i)
      BY <1>12, <3>1 DEF AreChunks
    <3>. QED
      BY <3>1, <3>2, ChunkIs
  <2>. QED
    BY <2>1
<1>15. gs \in Seq(SUBSET Proposals!Id) /\ Apart(gs)
  BY <1>12 DEF AreChunks
<1>. QED
  BY <1>13, <1>14, <1>15 DEF gs

\* The first message is sent.
LEMMA HeadIsSent ==
    ASSUME NEW gs \in Seq(SUBSET Proposals!Id), gs # <<>>, Apart(gs)
    PROVE  /\ Head(gs) \in SUBSET Left(gs) /\ Tail(gs) \in Seq(SUBSET Proposals!Id)
           /\ Apart(Tail(gs)) /\ Left(Tail(gs)) \subseteq Left(gs) \ Head(gs)
<1>. DEFINE rest == Tail(gs)
            L == Len(gs)
<1>1. /\ L \in Nat /\ L >= 1 /\ Head(gs) = gs[1] /\ Len(rest) = L - 1 /\ \A i \in 1..(L - 1) : rest[i] = gs[i + 1]
      /\ rest \in Seq(SUBSET Proposals!Id) /\ \A i \in 1..L : gs[i] \in SUBSET Proposals!Id
  BY HeadTailProperties, LenProperties
<1>. HIDE DEF rest, L
<1>2. 1 \in 1..L /\ \A i \in 1..(L - 1) : i + 1 \in 1..L /\ i + 1 # 1
  BY <1>1
<1>3. Head(gs) \in SUBSET Left(gs)
  BY <1>1, <1>2 DEF Left, L
<1>4. Apart(rest)
  <2>1. ASSUME NEW a \in 1..(L - 1), NEW b \in 1..(L - 1), a # b
        PROVE  rest[a] \cap rest[b] = {}
    <3>1. a + 1 \in 1..L /\ b + 1 \in 1..L /\ a + 1 # b + 1
      BY <1>2, <2>1
    <3>2. gs[a + 1] \cap gs[b + 1] = {}
      BY <3>1 DEF Apart, L
    <3>. QED
      BY <1>1, <3>2
  <2>. QED
    BY <1>1, <2>1 DEF Apart
<1>5. ASSUME NEW p \in Left(rest)
      PROVE  p \in Left(gs) /\ p \notin Head(gs)
  <2>1. PICK a \in 1..(L - 1) : p \in rest[a]
    BY <1>1 DEF Left
  <2>2. a + 1 \in 1..L /\ a + 1 # 1 /\ p \in gs[a + 1] /\ p \in Proposals!Id
    BY <1>1, <1>2, <2>1 DEF Left
  <2>3. gs[1] \cap gs[a + 1] = {}
    BY <1>2, <2>2 DEF Apart, L
  <2>. QED
    BY <1>1, <2>2, <2>3 DEF Left, L
<1>. QED
  BY <1>1, <1>3, <1>4, <1>5 DEF rest

-----------------------------------------------------------------------------
(* The inductive invariant.  While a life of the process has not yet come to *)
(* a proposal, Slack was told about it by earlier lives only.                *)

Tasks == [pc : {"poll", "send", "dead"}, checkpoint : Nat, groups : Seq(SUBSET Proposals!Id), last : Nat]

ProposalsTypes ==
    /\ clock \in 1..MaxClock
    /\ status \in [Proposals!Id -> {"none", "pending", "decided", "failed"}] /\ stamped \in [Proposals!Id -> 0..MaxClock]
    /\ fresh \in Tasks /\ failed \in Tasks
    /\ files \in [fresh : Nat \cup {Torn}, failed : Nat \cup {Torn}]
    /\ slack \in [Proposals!Kind -> [Proposals!Id -> Nat]] /\ lost \in [Proposals!Kind -> SUBSET Proposals!Id]
    /\ crashes \in 0..MaxCrashes

NewAhead(p) == IF fresh.pc = "poll" THEN p > fresh.checkpoint ELSE p > fresh.last \/ p \in Left(fresh.groups)

FailedAhead(p) ==
    \/ status[p] # "failed"
    \/ IF failed.pc = "poll" THEN stamped[p] > failed.checkpoint
       ELSE stamped[p] > failed.last \/ p \in Left(failed.groups)

NewInHand == Apart(fresh.groups) /\ \A p \in Left(fresh.groups) : p <= fresh.last

FailedInHand ==
    /\ Apart(failed.groups)
    /\ \A p \in Left(failed.groups) : status[p] = "failed" /\ stamped[p] <= failed.last

NewCount == \A p \in Proposals!Id : slack["fresh"][p] <= crashes + 1 /\ (NewAhead(p) => slack["fresh"][p] <= crashes)

FailedCount == \A p \in Proposals!Id : slack["failed"][p] <= crashes + 1 /\ (FailedAhead(p) => slack["failed"][p] <= crashes)

ProposalsIndInv == ProposalsTypes /\ NewInHand /\ FailedInHand /\ NewCount /\ FailedCount

\* Nothing is in hand of an empty sequence.
LEMMA NothingLeft == Apart(<<>>) /\ Left(<<>>) = {} /\ <<>> \in Seq(SUBSET Proposals!Id)
<1>1. Len(<<>>) = 0 /\ 1..0 = {} /\ <<>> \in Seq(SUBSET Proposals!Id)
  OBVIOUS
<1>. QED
  BY <1>1, Zenon DEF Apart, Left

LEMMA ProposalsInitInd == ASSUME ProposalBounds, Proposals!Init PROVE ProposalsIndInv
<1>1. /\ fresh = [pc |-> "poll", checkpoint |-> 0, groups |-> <<>>, last |-> 0]
      /\ failed = [pc |-> "poll", checkpoint |-> 0, groups |-> <<>>, last |-> 0]
  BY DEF Proposals!Init, Proposals!Task
<1>2. fresh \in Tasks /\ failed \in Tasks /\ fresh.groups = <<>> /\ failed.groups = <<>>
  BY <1>1, NothingLeft DEF Tasks
<1>3. slack = [k \in Proposals!Kind |-> [p \in Proposals!Id |-> 0]]
  BY DEF Proposals!Init, Proposals!Nobody
<1>4. slack \in [Proposals!Kind -> [Proposals!Id -> Nat]] /\ \A p \in Proposals!Id : slack["fresh"][p] = 0 /\ slack["failed"][p] = 0
  BY <1>3 DEF Proposals!Kind
<1>5. crashes = 0
  BY DEF Proposals!Init
<1>6. ProposalsTypes
  BY <1>2, <1>4 DEF Proposals!Init, ProposalsTypes, ProposalBounds
<1>7. NewInHand /\ FailedInHand
  BY <1>2, NothingLeft DEF NewInHand, FailedInHand
<1>8. NewCount /\ FailedCount
  BY <1>4, <1>5 DEF NewCount, FailedCount
<1>. QED
  BY <1>6, <1>7, <1>8 DEF ProposalsIndInv

\* Governance.
LEMMA GovernanceInd ==
    ASSUME ProposalBounds, ProposalsIndInv, Proposals!Tick \/ \E p \in Proposals!Id : Proposals!Propose(p) \/ Proposals!Decide(p)
    PROVE  ProposalsIndInv'
<1>1. UNCHANGED <<fresh, failed, files, slack, lost, crashes>>
  BY DEF Proposals!Tick, Proposals!Propose, Proposals!Decide, Proposals!slack
<1>2. clock' \in 1..MaxClock /\ (clock' = clock \/ UNCHANGED <<status, stamped>>)
  BY DEF Proposals!Tick, Proposals!Propose, Proposals!Decide, ProposalsIndInv, ProposalsTypes, ProposalBounds
<1>3. status' \in [Proposals!Id -> {"none", "pending", "decided", "failed"}] /\ stamped' \in [Proposals!Id -> 0..MaxClock]
  BY DEF Proposals!Tick, Proposals!Propose, Proposals!Decide, ProposalsIndInv, ProposalsTypes, ProposalBounds
<1>4. \A p \in Proposals!Id : status[p] = "failed" => status'[p] = "failed" /\ stamped'[p] = stamped[p]
  BY DEF Proposals!Tick, Proposals!Propose, Proposals!Decide, ProposalsIndInv, ProposalsTypes
<1>5. ProposalsTypes'
  BY <1>1, <1>2, <1>3 DEF ProposalsIndInv, ProposalsTypes
<1>6. NewInHand' /\ NewCount'
  BY <1>1 DEF ProposalsIndInv, NewInHand, NewCount, NewAhead
<1>7. FailedInHand'
  <2>1. \A p \in Left(failed.groups) : p \in Proposals!Id
    BY DEF Left
  <2>. QED
    BY <1>1, <1>4, <2>1 DEF ProposalsIndInv, FailedInHand
<1>8. FailedCount'
  <2>1. ASSUME NEW p \in Proposals!Id, FailedAhead(p)'
        PROVE  FailedAhead(p)
    BY <1>1, <1>4, <2>1 DEF FailedAhead
  <2>. QED
    BY <1>1, <2>1 DEF ProposalsIndInv, FailedCount
<1>. QED
  BY <1>5, <1>6, <1>7, <1>8 DEF ProposalsIndInv

\* A message is told or lost.
LEMMA PostIs ==
    ASSUME ProposalsTypes, NEW kind \in Proposals!Kind, NEW group \in SUBSET Proposals!Id, Proposals!Post(kind, group)
    PROVE  /\ slack' \in [Proposals!Kind -> [Proposals!Id -> Nat]] /\ lost' \in [Proposals!Kind -> SUBSET Proposals!Id]
           /\ \A k \in Proposals!Kind \ {kind} : slack'[k] = slack[k]
           /\ \A p \in Proposals!Id \ group : slack'[kind][p] = slack[kind][p]
           /\ \A p \in group : slack'[kind][p] \in {slack[kind][p], slack[kind][p] + 1}
<1>1. slack \in [Proposals!Kind -> [Proposals!Id -> Nat]] /\ lost \in [Proposals!Kind -> SUBSET Proposals!Id]
  BY DEF ProposalsTypes
<1>2. CASE slack' = [slack EXCEPT ![kind] = [p \in Proposals!Id |-> IF p \in group THEN @[p] + 1 ELSE @[p]]] /\ UNCHANGED lost
  <2>. DEFINE F == [p \in Proposals!Id |-> IF p \in group THEN slack[kind][p] + 1 ELSE slack[kind][p]]
  <2>1. slack' = [slack EXCEPT ![kind] = F]
    BY <1>2
  <2>2. F \in [Proposals!Id -> Nat] /\ (\A p \in Proposals!Id \ group : F[p] = slack[kind][p]) /\ \A p \in group : F[p] = slack[kind][p] + 1
    BY <1>1
  <2>. HIDE DEF F
  <2>3. slack' \in [Proposals!Kind -> [Proposals!Id -> Nat]] /\ slack'[kind] = F /\ \A k \in Proposals!Kind \ {kind} : slack'[k] = slack[k]
    BY <1>1, <2>1, <2>2
  <2>. QED
    BY <1>1, <1>2, <2>2, <2>3
<1>3. CASE lost' = [lost EXCEPT ![kind] = @ \cup group] /\ UNCHANGED slack
  BY <1>1, <1>3
<1>. QED
  BY <1>2, <1>3 DEF Proposals!Post

\* The task that tells about new proposals.
LEMMA NewInd ==
    ASSUME ProposalBounds, ProposalsIndInv, Proposals!New
    PROVE  ProposalsTypes' /\ NewInHand' /\ NewCount'
<1>1. fresh \in Tasks /\ fresh.groups \in Seq(SUBSET Proposals!Id) /\ fresh.checkpoint \in Nat /\ fresh.last \in Nat
  BY DEF ProposalsIndInv, ProposalsTypes, Tasks
<1>2. crashes \in Nat /\ slack \in [Proposals!Kind -> [Proposals!Id -> Nat]] /\ "fresh" \in Proposals!Kind /\ ProposalsTypes
  BY DEF ProposalsIndInv, ProposalsTypes, Proposals!Kind
<1>3. \A p \in Proposals!Id : p \in Nat /\ slack["fresh"][p] \in Nat
  BY <1>2 DEF Proposals!Id, ProposalBounds
<1>4. \A p \in Left(fresh.groups) : p \in Proposals!Id
  BY DEF Left
<1>5. UNCHANGED <<clock, status, stamped, failed, crashes>>
  BY DEF Proposals!New, Proposals!PollNew, Proposals!SendNew, Proposals!CreateNew, Proposals!SaveNew, Proposals!governance
<1>6. CASE Proposals!PollNew
  <2>. DEFINE new == Proposals!NewSince({p \in Proposals!Id : status[p] = "pending"}, fresh.checkpoint)
              groups == Proposals!Groups(Proposals!Ordered(new))
  <2>1. /\ \/ /\ fresh' = [fresh EXCEPT !.pc = "send", !.groups = groups, !.last = Proposals!Max(new)]
              /\ new # {}
           \/ fresh' = [fresh EXCEPT !.checkpoint = fresh.checkpoint]
        /\ fresh.pc = "poll" /\ UNCHANGED <<slack, lost, files>>
    BY <1>6 DEF Proposals!PollNew, Proposals!CheckpointKept, Proposals!slack
  <2>2. new \in SUBSET Proposals!Id /\ \A p \in new : p > fresh.checkpoint
    BY DEF Proposals!NewSince
  <2>. HIDE DEF new
  <2>3. CASE fresh' = [fresh EXCEPT !.checkpoint = fresh.checkpoint]
    <3>1. fresh' = fresh
      BY <1>1, <2>3 DEF Tasks
    <3>. QED
      BY <1>5, <2>1, <3>1 DEF ProposalsIndInv, ProposalsTypes, NewInHand, NewCount, NewAhead
  <2>4. CASE fresh' = [fresh EXCEPT !.pc = "send", !.groups = groups, !.last = Proposals!Max(new)] /\ new # {}
    <3>. PICK m : m = Proposals!Max(new)
      OBVIOUS
    <3>1. m \in new /\ \A p \in new : p <= m
      BY <2>2, <2>4, ProposalsGreatest DEF Proposals!Id, ProposalBounds
    <3>2. Proposals!Ordered(new) \in Once(new)
      BY <2>2, OrderedOnce
    <3>3. Proposals!Ordered(new) \in Once(Proposals!Id) /\ \A j \in 1..Len(Proposals!Ordered(new)) : Proposals!Ordered(new)[j] \in new
      BY <2>2, <3>2 DEF Once
    <3>4. groups \in Seq(SUBSET Proposals!Id) /\ Apart(groups) /\ \A p \in Left(groups) : p \in new
      BY <3>3, GroupsAre
    <3>. HIDE DEF groups
    <3>5. m \in Proposals!Id /\ m \in Nat /\ m > fresh.checkpoint
      BY <1>3, <2>2, <3>1
    <3>6. /\ fresh' \in Tasks /\ fresh'.pc = "send" /\ fresh'.groups = groups /\ fresh'.last = m
      BY <1>1, <2>4, <3>4, <3>5 DEF Tasks
    <3>7. NewInHand'
      BY <3>1, <3>4, <3>6 DEF NewInHand
    <3>8. ASSUME NEW p \in Proposals!Id, NewAhead(p)'
          PROVE  NewAhead(p)
      <4>1. p > m \/ p \in Left(groups)
        BY <3>6, <3>8 DEF NewAhead
      <4>2. p > fresh.checkpoint
        BY <1>1, <1>3, <2>2, <3>4, <3>5, <4>1
      <4>. QED
        BY <2>1, <4>2 DEF NewAhead
    <3>9. NewCount'
      BY <1>5, <2>1, <3>8 DEF ProposalsIndInv, NewCount
    <3>10. ProposalsTypes'
      BY <1>5, <2>1, <3>6 DEF ProposalsIndInv, ProposalsTypes
    <3>. QED
      BY <3>7, <3>9, <3>10
  <2>. QED
    BY <2>1, <2>3, <2>4
<1>7. CASE Proposals!SendNew
  <2>. DEFINE gs == fresh.groups
              h == Head(gs)
  <2>1. /\ fresh.pc = "send" /\ gs # <<>> /\ Proposals!Post("fresh", h)
        /\ fresh' = [fresh EXCEPT !.groups = Tail(gs)] /\ UNCHANGED files
    BY <1>7 DEF Proposals!SendNew
  <2>2. gs \in Seq(SUBSET Proposals!Id) /\ Apart(gs) /\ \A p \in Left(gs) : p <= fresh.last
    BY <1>1 DEF ProposalsIndInv, NewInHand
  <2>3. h \in SUBSET Left(gs) /\ Tail(gs) \in Seq(SUBSET Proposals!Id) /\ Apart(Tail(gs)) /\ Left(Tail(gs)) \subseteq Left(gs) \ h
    BY <2>1, <2>2, HeadIsSent
  <2>4. /\ fresh' \in Tasks /\ fresh'.pc = "send" /\ fresh'.groups = Tail(gs) /\ fresh'.last = fresh.last
    <3>. PICK rest \in Seq(SUBSET Proposals!Id) : rest = Tail(gs)
      BY <2>3
    <3>. QED
      BY <1>1, <2>1 DEF Tasks
  <2>. HIDE DEF h, gs
  <2>5. h \in SUBSET Proposals!Id
    BY <1>4, <2>3 DEF gs
  <2>6. /\ slack' \in [Proposals!Kind -> [Proposals!Id -> Nat]] /\ lost' \in [Proposals!Kind -> SUBSET Proposals!Id]
        /\ \A p \in Proposals!Id \ h : slack'["fresh"][p] = slack["fresh"][p]
        /\ \A p \in h : slack'["fresh"][p] \in {slack["fresh"][p], slack["fresh"][p] + 1}
    BY <1>2, <2>1, <2>5, PostIs
  <2>7. ProposalsTypes'
    BY <1>5, <2>1, <2>4, <2>6 DEF ProposalsIndInv, ProposalsTypes
  <2>8. NewInHand'
    BY <2>2, <2>3, <2>4 DEF NewInHand
  <2>9. ASSUME NEW p \in Proposals!Id
        PROVE  slack'["fresh"][p] <= crashes + 1 /\ (NewAhead(p)' => slack'["fresh"][p] <= crashes)
    <3>1. slack["fresh"][p] <= crashes + 1 /\ (NewAhead(p) => slack["fresh"][p] <= crashes)
      BY DEF ProposalsIndInv, NewCount
    <3>2. CASE p \in h
      <4>1. p \in Left(gs) /\ p \notin Left(Tail(gs)) /\ p <= fresh.last
        BY <2>2, <2>3, <3>2
      <4>2. NewAhead(p)
        BY <2>1, <4>1 DEF NewAhead, gs
      <4>3. ~NewAhead(p)'
        BY <1>1, <1>3, <2>4, <4>1 DEF NewAhead
      <4>4. slack["fresh"][p] <= crashes /\ slack["fresh"][p] \in Nat
        BY <1>3, <3>1, <4>2
      <4>. QED
        BY <1>2, <2>6, <3>2, <4>3, <4>4
    <3>3. CASE p \notin h
      <4>1. NewAhead(p)' => NewAhead(p)
        BY <2>1, <2>3, <2>4 DEF NewAhead, gs
      <4>. QED
        BY <2>6, <3>1, <3>3, <4>1
    <3>. QED
      BY <3>2, <3>3
  <2>10. NewCount'
    BY <1>5, <2>9 DEF NewCount
  <2>. QED
    BY <2>7, <2>8, <2>10
<1>8. CASE Proposals!SaveNew
  <2>1. /\ fresh.pc = "send" /\ fresh.groups = <<>> /\ (files' = [files EXCEPT !.fresh = fresh.last] \/ files' = files)
        /\ fresh' = [pc |-> "poll", checkpoint |-> fresh.last, groups |-> <<>>, last |-> 0] /\ UNCHANGED <<slack, lost>>
    BY <1>8 DEF Proposals!SaveNew, Proposals!Task
  <2>2. fresh' \in Tasks /\ fresh'.pc = "poll" /\ fresh'.groups = <<>> /\ fresh'.checkpoint = fresh.last
    BY <1>1, <2>1, NothingLeft DEF Tasks
  <2>3. files' \in [fresh : Nat \cup {Torn}, failed : Nat \cup {Torn}]
    BY <1>1, <2>1 DEF ProposalsIndInv, ProposalsTypes
  <2>4. ProposalsTypes'
    BY <1>5, <2>1, <2>2, <2>3 DEF ProposalsIndInv, ProposalsTypes
  <2>5. NewInHand'
    BY <2>2, NothingLeft DEF NewInHand
  <2>6. \A p \in Proposals!Id : NewAhead(p)' => NewAhead(p)
    BY <2>1, <2>2 DEF NewAhead
  <2>7. NewCount'
    BY <1>5, <2>1, <2>6 DEF ProposalsIndInv, NewCount
  <2>. QED
    BY <2>4, <2>5, <2>7
<1>9. CASE Proposals!CreateNew
  <2>1. UNCHANGED <<fresh, slack, lost>> /\ files' = [files EXCEPT !.fresh = Torn]
    BY <1>9 DEF Proposals!CreateNew, Proposals!slack
  <2>. QED
    BY <1>5, <2>1 DEF ProposalsIndInv, ProposalsTypes, NewInHand, NewCount, NewAhead
<1>. QED
  BY <1>6, <1>7, <1>8, <1>9 DEF Proposals!New

\* It leaves the other task alone.
LEMMA NewLeavesFailed ==
    ASSUME ProposalsIndInv, Proposals!New
    PROVE  FailedInHand' /\ FailedCount'
<1>1. UNCHANGED <<clock, status, stamped, failed, crashes>>
  BY DEF Proposals!New, Proposals!PollNew, Proposals!SendNew, Proposals!CreateNew, Proposals!SaveNew, Proposals!governance
<1>2. slack'["failed"] = slack["failed"]
  <2>1. CASE Proposals!SendNew
    <3>1. Head(fresh.groups) \in SUBSET Proposals!Id
      <4>1. fresh.groups \in Seq(SUBSET Proposals!Id) /\ fresh.groups # <<>>
        BY <2>1 DEF Proposals!SendNew, ProposalsIndInv, ProposalsTypes, Tasks
      <4>. QED
        BY <4>1
    <3>2. Proposals!Post("fresh", Head(fresh.groups)) /\ ProposalsTypes /\ "fresh" \in Proposals!Kind /\ "failed" \in Proposals!Kind \ {"fresh"}
      BY <2>1 DEF Proposals!SendNew, ProposalsIndInv, Proposals!Kind
    <3>. QED
      BY <3>1, <3>2, PostIs
  <2>2. CASE Proposals!PollNew \/ Proposals!CreateNew \/ Proposals!SaveNew
    BY <2>2 DEF Proposals!PollNew, Proposals!CreateNew, Proposals!SaveNew, Proposals!slack
  <2>. QED
    BY <2>1, <2>2 DEF Proposals!New
<1>. QED
  BY <1>1, <1>2 DEF ProposalsIndInv, FailedInHand, FailedCount, FailedAhead

\* The task that tells about failed proposals.
LEMMA FailedInd ==
    ASSUME ProposalBounds, ProposalsIndInv, Proposals!Failed
    PROVE  ProposalsTypes' /\ FailedInHand' /\ FailedCount'
<1>1. failed \in Tasks /\ failed.groups \in Seq(SUBSET Proposals!Id) /\ failed.checkpoint \in Nat /\ failed.last \in Nat
  BY DEF ProposalsIndInv, ProposalsTypes, Tasks
<1>2. crashes \in Nat /\ slack \in [Proposals!Kind -> [Proposals!Id -> Nat]] /\ "failed" \in Proposals!Kind /\ ProposalsTypes
  BY DEF ProposalsIndInv, ProposalsTypes, Proposals!Kind
<1>3. \A p \in Proposals!Id : stamped[p] \in Nat /\ stamped[p] <= MaxClock /\ slack["failed"][p] \in Nat
  BY <1>2 DEF ProposalsTypes, ProposalBounds
<1>4. \A p \in Left(failed.groups) : p \in Proposals!Id
  BY DEF Left
<1>5. UNCHANGED <<clock, status, stamped, fresh, crashes>>
  BY DEF Proposals!Failed, Proposals!PollFailed, Proposals!SendFailed, Proposals!CreateFailed, Proposals!SaveFailed, Proposals!governance
<1>6. CASE Proposals!PollFailed
  <2>. DEFINE found == {p \in Proposals!Id : status[p] = "failed" /\ stamped[p] > failed.checkpoint}
              groups == Proposals!Groups(Proposals!ByTime(found))
              stamps == {stamped[p] : p \in found}
  <2>1. /\ failed.pc = "poll" /\ groups # <<>> /\ UNCHANGED <<slack, lost, files>>
        /\ failed' = [failed EXCEPT !.pc = "send", !.groups = groups, !.last = Proposals!Max(stamps)]
    BY <1>6 DEF Proposals!PollFailed, Proposals!LastFailure, Proposals!slack
  <2>2. found \in SUBSET Proposals!Id /\ \A p \in found : status[p] = "failed" /\ stamped[p] > failed.checkpoint
    OBVIOUS
  <2>. HIDE DEF found
  <2>3. Proposals!ByTime(found) \in Once(found)
    BY <2>2, ByTimeOnce
  <2>4. Proposals!ByTime(found) \in Once(Proposals!Id) /\ \A j \in 1..Len(Proposals!ByTime(found)) : Proposals!ByTime(found)[j] \in found
    BY <2>2, <2>3 DEF Once
  <2>5. /\ groups \in Seq(SUBSET Proposals!Id) /\ Apart(groups) /\ (\A p \in Left(groups) : p \in found)
        /\ Proposals!ByTime(found) # <<>>
    BY <2>1, <2>4, GroupsAre
  <2>6. found # {}
    <3>1. Proposals!ByTime(found) \in Seq(Proposals!Id)
      BY <2>4 DEF Once
    <3>2. 1 \in 1..Len(Proposals!ByTime(found))
      BY <2>5, <3>1
    <3>. QED
      BY <2>4, <3>2
  <2>. HIDE DEF groups
  <2>7. stamps \in SUBSET (1..MaxClock) /\ stamps # {} /\ MaxClock \in Nat
    BY <1>1, <1>3, <2>2, <2>6 DEF ProposalBounds
  <2>8. \A x \in stamps : x > failed.checkpoint
    BY <2>2
  <2>9. \A p \in found : stamped[p] \in stamps
    OBVIOUS
  <2>. HIDE DEF stamps
  <2>. PICK m : m = Proposals!Max(stamps)
    OBVIOUS
  <2>10. m \in stamps /\ \A x \in stamps : x <= m
    BY <2>7, ProposalsGreatest
  <2>11. m \in Nat /\ m > failed.checkpoint
    BY <2>7, <2>8, <2>10
  <2>12. failed' \in Tasks /\ failed'.pc = "send" /\ failed'.groups = groups /\ failed'.last = m
    BY <1>1, <2>1, <2>5, <2>11 DEF Tasks
  <2>13. FailedInHand'
    BY <1>5, <2>2, <2>5, <2>9, <2>10, <2>12 DEF FailedInHand
  <2>14. ASSUME NEW p \in Proposals!Id, FailedAhead(p)'
         PROVE  FailedAhead(p)
    <3>1. status[p] # "failed" \/ stamped[p] > m \/ p \in Left(groups)
      BY <1>5, <2>12, <2>14 DEF FailedAhead
    <3>2. status[p] # "failed" \/ stamped[p] > failed.checkpoint
      BY <1>1, <1>3, <2>2, <2>5, <2>11, <3>1
    <3>. QED
      BY <2>1, <3>2 DEF FailedAhead
  <2>15. FailedCount'
    BY <1>5, <2>1, <2>14 DEF ProposalsIndInv, FailedCount
  <2>16. ProposalsTypes'
    BY <1>5, <2>1, <2>12 DEF ProposalsIndInv, ProposalsTypes
  <2>. QED
    BY <2>13, <2>15, <2>16
<1>7. CASE Proposals!SendFailed
  <2>. DEFINE gs == failed.groups
              h == Head(gs)
  <2>1. /\ failed.pc = "send" /\ gs # <<>> /\ Proposals!Post("failed", h)
        /\ failed' = [failed EXCEPT !.groups = Tail(gs)] /\ UNCHANGED files
    BY <1>7 DEF Proposals!SendFailed
  <2>2. gs \in Seq(SUBSET Proposals!Id) /\ Apart(gs) /\ \A p \in Left(gs) : status[p] = "failed" /\ stamped[p] <= failed.last
    BY <1>1 DEF ProposalsIndInv, FailedInHand
  <2>3. h \in SUBSET Left(gs) /\ Tail(gs) \in Seq(SUBSET Proposals!Id) /\ Apart(Tail(gs)) /\ Left(Tail(gs)) \subseteq Left(gs) \ h
    BY <2>1, <2>2, HeadIsSent
  <2>4. /\ failed' \in Tasks /\ failed'.pc = "send" /\ failed'.groups = Tail(gs) /\ failed'.last = failed.last
    <3>. PICK rest \in Seq(SUBSET Proposals!Id) : rest = Tail(gs)
      BY <2>3
    <3>. QED
      BY <1>1, <2>1 DEF Tasks
  <2>. HIDE DEF h, gs
  <2>5. h \in SUBSET Proposals!Id
    BY <1>4, <2>3 DEF gs
  <2>6. /\ slack' \in [Proposals!Kind -> [Proposals!Id -> Nat]] /\ lost' \in [Proposals!Kind -> SUBSET Proposals!Id]
        /\ \A p \in Proposals!Id \ h : slack'["failed"][p] = slack["failed"][p]
        /\ \A p \in h : slack'["failed"][p] \in {slack["failed"][p], slack["failed"][p] + 1}
    BY <1>2, <2>1, <2>5, PostIs
  <2>7. ProposalsTypes'
    BY <1>5, <2>1, <2>4, <2>6 DEF ProposalsIndInv, ProposalsTypes
  <2>8. FailedInHand'
    BY <1>5, <2>2, <2>3, <2>4 DEF FailedInHand
  <2>9. ASSUME NEW p \in Proposals!Id
        PROVE  slack'["failed"][p] <= crashes + 1 /\ (FailedAhead(p)' => slack'["failed"][p] <= crashes)
    <3>1. slack["failed"][p] <= crashes + 1 /\ (FailedAhead(p) => slack["failed"][p] <= crashes)
      BY DEF ProposalsIndInv, FailedCount
    <3>2. CASE p \in h
      <4>1. p \in Left(gs) /\ p \notin Left(Tail(gs)) /\ status[p] = "failed" /\ stamped[p] <= failed.last
        BY <2>2, <2>3, <3>2
      <4>2. FailedAhead(p)
        BY <2>1, <4>1 DEF FailedAhead, gs
      <4>3. ~FailedAhead(p)'
        BY <1>1, <1>3, <1>5, <2>1, <2>4, <4>1 DEF FailedAhead
      <4>4. slack["failed"][p] <= crashes /\ slack["failed"][p] \in Nat
        BY <1>3, <3>1, <4>2
      <4>. QED
        BY <1>2, <2>6, <3>2, <4>3, <4>4
    <3>3. CASE p \notin h
      <4>1. FailedAhead(p)' => FailedAhead(p)
        BY <1>5, <2>1, <2>3, <2>4 DEF FailedAhead, gs
      <4>. QED
        BY <2>6, <3>1, <3>3, <4>1
    <3>. QED
      BY <3>2, <3>3
  <2>10. FailedCount'
    BY <1>5, <2>9 DEF FailedCount
  <2>. QED
    BY <2>7, <2>8, <2>10
<1>8. CASE Proposals!SaveFailed
  <2>1. /\ failed.pc = "send" /\ failed.groups = <<>> /\ (files' = [files EXCEPT !.failed = failed.last] \/ files' = files)
        /\ failed' = [pc |-> "poll", checkpoint |-> failed.last, groups |-> <<>>, last |-> 0] /\ UNCHANGED <<slack, lost>>
    BY <1>8 DEF Proposals!SaveFailed, Proposals!Task
  <2>2. failed' \in Tasks /\ failed'.pc = "poll" /\ failed'.groups = <<>> /\ failed'.checkpoint = failed.last
    BY <1>1, <2>1, NothingLeft DEF Tasks
  <2>3. files' \in [fresh : Nat \cup {Torn}, failed : Nat \cup {Torn}]
    BY <1>1, <2>1 DEF ProposalsIndInv, ProposalsTypes
  <2>4. ProposalsTypes'
    BY <1>5, <2>1, <2>2, <2>3 DEF ProposalsIndInv, ProposalsTypes
  <2>5. FailedInHand'
    BY <2>2, NothingLeft DEF FailedInHand
  <2>6. \A p \in Proposals!Id : FailedAhead(p)' => FailedAhead(p)
    BY <1>5, <2>1, <2>2 DEF FailedAhead
  <2>7. FailedCount'
    BY <1>5, <2>1, <2>6 DEF ProposalsIndInv, FailedCount
  <2>. QED
    BY <2>4, <2>5, <2>7
<1>9. CASE Proposals!CreateFailed
  <2>1. UNCHANGED <<failed, slack, lost>> /\ files' = [files EXCEPT !.failed = Torn]
    BY <1>9 DEF Proposals!CreateFailed, Proposals!slack
  <2>. QED
    BY <1>5, <2>1 DEF ProposalsIndInv, ProposalsTypes, FailedInHand, FailedCount, FailedAhead
<1>. QED
  BY <1>6, <1>7, <1>8, <1>9 DEF Proposals!Failed

\* It leaves the other task alone.
LEMMA FailedLeavesNew ==
    ASSUME ProposalsIndInv, Proposals!Failed
    PROVE  NewInHand' /\ NewCount'
<1>1. UNCHANGED <<clock, status, stamped, fresh, crashes>>
  BY DEF Proposals!Failed, Proposals!PollFailed, Proposals!SendFailed, Proposals!CreateFailed, Proposals!SaveFailed, Proposals!governance
<1>2. slack'["fresh"] = slack["fresh"]
  <2>1. CASE Proposals!SendFailed
    <3>1. Head(failed.groups) \in SUBSET Proposals!Id
      <4>1. failed.groups \in Seq(SUBSET Proposals!Id) /\ failed.groups # <<>>
        BY <2>1 DEF Proposals!SendFailed, ProposalsIndInv, ProposalsTypes, Tasks
      <4>. QED
        BY <4>1
    <3>2. Proposals!Post("failed", Head(failed.groups)) /\ ProposalsTypes /\ "failed" \in Proposals!Kind /\ "fresh" \in Proposals!Kind \ {"failed"}
      BY <2>1 DEF Proposals!SendFailed, ProposalsIndInv, Proposals!Kind
    <3>. QED
      BY <3>1, <3>2, PostIs
  <2>2. CASE Proposals!PollFailed \/ Proposals!CreateFailed \/ Proposals!SaveFailed
    BY <2>2 DEF Proposals!PollFailed, Proposals!CreateFailed, Proposals!SaveFailed, Proposals!slack
  <2>. QED
    BY <2>1, <2>2 DEF Proposals!Failed
<1>. QED
  BY <1>1, <1>2 DEF ProposalsIndInv, NewInHand, NewCount, NewAhead

LEMMA RestartInd ==
    ASSUME ProposalBounds, ProposalsIndInv, Proposals!Restart
    PROVE  ProposalsIndInv'
<1>1. files \in [fresh : Nat \cup {Torn}, failed : Nat \cup {Torn}] /\ crashes \in Nat
  BY DEF ProposalsIndInv, ProposalsTypes
<1>11. ASSUME NEW file \in Nat \cup {Torn}
       PROVE  Proposals!Resumed(file) \in Tasks /\ Proposals!Resumed(file).groups = <<>>
  <2>1. \A n \in Nat : Proposals!Task(n) \in Tasks /\ Proposals!Task(n).groups = <<>>
    BY NothingLeft DEF Proposals!Task, Tasks
  <2>2. [Proposals!Task(0) EXCEPT !.pc = "dead"] \in Tasks /\ [Proposals!Task(0) EXCEPT !.pc = "dead"].groups = <<>>
    BY NothingLeft DEF Proposals!Task, Tasks
  <2>. QED
    BY <2>1, <2>2 DEF Proposals!Resumed
<1>2. /\ fresh' = Proposals!Resumed(files.fresh) /\ failed' = Proposals!Resumed(files.failed)
      /\ crashes < MaxCrashes /\ crashes' = crashes + 1
      /\ UNCHANGED <<clock, status, stamped, files, slack, lost>>
  BY DEF Proposals!Restart, Proposals!governance, Proposals!slack
<1>3. fresh' \in Tasks /\ failed' \in Tasks /\ fresh'.groups = <<>> /\ failed'.groups = <<>>
  BY <1>1, <1>2, <1>11
<1>4. crashes' \in 0..MaxCrashes
  BY <1>1, <1>2 DEF ProposalBounds
<1>5. ProposalsTypes'
  BY <1>2, <1>3, <1>4 DEF ProposalsIndInv, ProposalsTypes
<1>6. NewInHand' /\ FailedInHand'
  BY <1>3, NothingLeft DEF NewInHand, FailedInHand
<1>7. \A p \in Proposals!Id : slack["fresh"][p] \in Nat /\ slack["failed"][p] \in Nat
  BY DEF ProposalsIndInv, ProposalsTypes, Proposals!Kind
<1>8. \A p \in Proposals!Id : slack["fresh"][p] <= crashes + 1 /\ slack["failed"][p] <= crashes + 1
  BY DEF ProposalsIndInv, NewCount, FailedCount
<1>9. \A p \in Proposals!Id : /\ slack'["fresh"][p] <= crashes' /\ slack'["fresh"][p] <= crashes' + 1
                              /\ slack'["failed"][p] <= crashes' /\ slack'["failed"][p] <= crashes' + 1
  BY <1>1, <1>2, <1>7, <1>8
<1>10. NewCount' /\ FailedCount'
  BY <1>9 DEF NewCount, FailedCount
<1>. QED
  BY <1>5, <1>6, <1>10 DEF ProposalsIndInv

LEMMA ProposalsStepInd ==
    ASSUME ProposalBounds, ProposalsIndInv, [Proposals!Next]_Proposals!vars
    PROVE  ProposalsIndInv'
<1>1. CASE Proposals!Tick \/ \E p \in Proposals!Id : Proposals!Propose(p) \/ Proposals!Decide(p)
  BY <1>1, GovernanceInd
<1>2. CASE Proposals!New
  BY <1>2, NewInd, NewLeavesFailed DEF ProposalsIndInv
<1>3. CASE Proposals!Failed
  BY <1>3, FailedInd, FailedLeavesNew DEF ProposalsIndInv
<1>4. CASE Proposals!Restart
  BY <1>4, RestartInd
<1>5. CASE UNCHANGED Proposals!vars
  BY <1>5 DEF ProposalsIndInv, ProposalsTypes, NewInHand, FailedInHand, NewCount, FailedCount, NewAhead, FailedAhead,
              Proposals!vars, Proposals!governance, Proposals!slack
<1>. QED
  BY <1>1, <1>2, <1>3, <1>4, <1>5 DEF Proposals!Next

LEMMA ProposalsIndIsEnough == ASSUME ProposalBounds, ProposalsIndInv PROVE Proposals!TypeOK /\ Proposals!ToldOncePerLife
<1>1. Proposals!ToldOncePerLife
  BY DEF Proposals!ToldOncePerLife, ProposalsIndInv, NewCount, FailedCount, Proposals!Kind
<1>2. /\ slack \in [Proposals!Kind -> [Proposals!Id -> Nat]] /\ crashes \in 0..MaxCrashes /\ lost \in [Proposals!Kind -> SUBSET Proposals!Id]
      /\ clock \in 1..MaxClock /\ stamped \in [Proposals!Id -> 0..MaxClock]
      /\ status \in [Proposals!Id -> {"none", "pending", "decided", "failed"}]
      /\ fresh \in Tasks /\ failed \in Tasks
  BY DEF ProposalsIndInv, ProposalsTypes
<1>3. \A k \in Proposals!Kind, p \in Proposals!Id : slack[k][p] \in 0..(MaxCrashes + 1)
  <2>1. ASSUME NEW k \in Proposals!Kind, NEW p \in Proposals!Id
        PROVE  slack[k][p] \in 0..(MaxCrashes + 1)
    <3>1. slack[k][p] \in Nat /\ slack[k][p] <= crashes + 1
      BY <1>1, <1>2 DEF Proposals!ToldOncePerLife
    <3>. QED
      BY <1>2, <3>1 DEF ProposalBounds
  <2>. QED
    BY <2>1
<1>4. slack \in [Proposals!Kind -> [Proposals!Id -> 0..(MaxCrashes + 1)]]
  BY <1>2, <1>3
<1>5. \A task \in {fresh, failed} : task.pc \in {"poll", "send", "dead"} /\ task.groups \in Seq(SUBSET Proposals!Id)
  BY <1>2 DEF Tasks
<1>. QED
  BY <1>1, <1>2, <1>4, <1>5 DEF Proposals!TypeOK

\* Spec => []TypeOK: the types of the notifier, what its two tasks have in hand
\* included (main.rs:157-280).
THEOREM ProposalTypes == ProposalBounds /\ Proposals!Spec => []Proposals!TypeOK
<1>. SUFFICES ASSUME ProposalBounds PROVE Proposals!Spec => []Proposals!TypeOK
  OBVIOUS
<1>1. Proposals!Init => ProposalsIndInv
  BY ProposalsInitInd
<1>2. ProposalsIndInv /\ [Proposals!Next]_Proposals!vars => ProposalsIndInv'
  BY ProposalsStepInd
<1>3. ProposalsIndInv => Proposals!TypeOK
  BY ProposalsIndIsEnough
<1>. QED
  BY <1>1, <1>2, <1>3, PTL DEF Proposals!Spec

\* Spec => []ToldOncePerLife: whatever is proposed, decided, grouped, lost or
\* fails, and whenever the process dies, Slack is told about a proposal once more
\* than the process was restarted, at most (main.rs:157-209 and 222-280).
THEOREM OncePerLife == ProposalBounds /\ Proposals!Spec => []Proposals!ToldOncePerLife
<1>. SUFFICES ASSUME ProposalBounds PROVE Proposals!Spec => []Proposals!ToldOncePerLife
  OBVIOUS
<1>1. Proposals!Init => ProposalsIndInv
  BY ProposalsInitInd
<1>2. ProposalsIndInv /\ [Proposals!Next]_Proposals!vars => ProposalsIndInv'
  BY ProposalsStepInd
<1>3. ProposalsIndInv => Proposals!ToldOncePerLife
  BY ProposalsIndIsEnough
<1>. QED
  BY <1>1, <1>2, <1>3, PTL DEF Proposals!Spec


Parts == {"releases", "operators", "nodes", "subnets", "version"}

ViewIs(v) == \A part \in Parts : view[part] = v

\* The registry only grows, and the local store and the view come from it.
StoreInv ==
    /\ \E R : history \in Seq(R)
    /\ Len(history) >= 1
    /\ disk \in 1..Len(history)
    /\ view \in [Parts -> Nat]
    /\ \A part \in Parts : view[part] <= disk

\* No part is older than the version that the view has, except in a view that the
\* poll left when it died; and then, as during a refresh, the registry is ahead.
PollInv ==
    ~fromCli =>
      /\ poll \in {"labels", "labels locked", "providers", "update locked"} => view.version < View!Latest
      /\ \/ \A part \in Parts : view[part] >= view.version
         \/ poll = "dead" /\ view.version < View!Latest

\* What a request has seen: it holds a guard from before it asked for the version
\* until it answers, so the view is the one the middleware compared.
RequestOk(r) ==
    /\ DOMAIN served[r] = {"kind", "pc", "guards", "latest", "status", "seen", "answer"}
    /\ served[r].latest \in 0..View!Latest
    /\ served[r].pc \in {"ask", "check", "handler", "list", "again"} => served[r].guards > 0
    /\ served[r].pc # "answered" => served[r].status # 200
    /\ served[r].pc = "again" => served[r].kind = "preview"
    /\ ~fromCli /\ served[r].pc = "check" /\ served[r].latest = view.version /\ served[r].latest # 0
         => ViewIs(served[r].latest)
    /\ ~fromCli /\ served[r].pc \in {"handler", "list", "again"}
         => served[r].latest # 0 /\ ViewIs(served[r].latest)

AnswerOk(r) ==
    ~fromCli /\ served[r].pc = "answered" /\ served[r].status = 200 =>
      /\ served[r].latest # 0
      /\ \A part \in DOMAIN served[r].seen : served[r].seen[part] = served[r].latest
      /\ served[r].kind = "available" => served[r].answer \cap history[served[r].latest].home = {}
      /\ served[r].kind = "retireable" => history[served[r].latest].runs \notin served[r].answer

RequestInv == DOMAIN served = Request /\ \A r \in Request : RequestOk(r) /\ AnswerOk(r)

ViewIndInv == StoreInv /\ PollInv /\ RequestInv

-----------------------------------------------------------------------------
LEMMA InitIndInv == View!Init => ViewIndInv
<1>. SUFFICES ASSUME View!Init PROVE ViewIndInv
  OBVIOUS
<1>1. history \in Seq({First}) /\ Len(history) = 1
  BY DEF View!Init
<1>2. view \in [Parts -> Nat] /\ ViewIs(0) /\ view.version = 0
  BY DEF View!Init, View!Empty, Parts, ViewIs
<1>3. StoreInv
  <2>1. \E R : history \in Seq(R)
    BY <1>1
  <2>2. disk = 1 /\ \A part \in Parts : view[part] <= disk
    BY <1>2 DEF View!Init, ViewIs
  <2>. QED
    BY <1>1, <1>2, <2>1, <2>2 DEF StoreInv
<1>4. PollInv
  BY <1>1, <1>2 DEF PollInv, View!Init, ViewIs, View!Latest
<1>5. PICK load : served = [r \in Request |-> View!NewRequest(load[r])]
  BY DEF View!Init
<1>6. ASSUME NEW r \in Request
      PROVE  RequestOk(r) /\ AnswerOk(r)
  BY <1>1, <1>5 DEF RequestOk, AnswerOk, View!NewRequest, View!Latest
<1>. QED
  BY <1>3, <1>4, <1>5, <1>6 DEF ViewIndInv, RequestInv

\* A refresh takes every part from the local store, or some parts and not the version.
IsRefresh(new, v, d) ==
    /\ new \in [Parts -> Nat]
    /\ \A part \in Parts : new[part] \in {v[part], d}
    /\ new["version"] = v["version"] \/ \A part \in Parts : new[part] = d

LEMMA RefreshedParts ==
    ASSUME NEW v \in [Parts -> Nat], NEW d \in Nat, NEW last \in 0..5
    PROVE  IsRefresh(View!Refreshed(v, d, last), v, d)
<1>. DEFINE new == View!Refreshed(v, d, last)
<1>. DEFINE parts == <<"releases", "operators", "nodes", "subnets", "version">>
            done  == {parts[i] : i \in 1..last}
<1>1. new = [part \in Parts |-> IF part \in done THEN d ELSE v[part]]
  BY DEF View!Refreshed
<1>2. CASE last = 5
  <2>1. \A part \in Parts : part \in done
    <3>1. /\ parts[1] = "releases" /\ parts[2] = "operators" /\ parts[3] = "nodes"
          /\ parts[4] = "subnets" /\ parts[5] = "version"
      OBVIOUS
    <3>2. 1 \in 1..last /\ 2 \in 1..last /\ 3 \in 1..last /\ 4 \in 1..last /\ 5 \in 1..last
      BY <1>2
    <3>. QED
      BY <3>1, <3>2 DEF Parts
  <2>. HIDE DEF done, new
  <2>2. new \in [Parts -> Nat]
    BY <1>1
  <2>3. \A part \in Parts : new[part] = d
    BY <1>1, <2>1
  <2>4. IsRefresh(new, v, d)
    BY <2>2, <2>3 DEF IsRefresh
  <2>. QED
    BY <2>4 DEF new
<1>3. CASE last \in 0..4
  <2>1. "version" \notin done
    BY <1>3
  <2>. HIDE DEF done, new
  <2>2. new \in [Parts -> Nat]
    BY <1>1
  <2>3. \A part \in Parts : new[part] \in {v[part], d}
    BY <1>1
  <2>4. new["version"] = v["version"]
    BY <1>1, <2>1 DEF Parts
  <2>5. IsRefresh(new, v, d)
    BY <2>2, <2>3, <2>4 DEF IsRefresh
  <2>. QED
    BY <2>5 DEF new
<1>. QED
  BY <1>2, <1>3

\* What update_node_details does to a view, however it ends.
LEMMA UpdateShape ==
    ASSUME StoreInv, NEW ends, View!UpdateNodeDetails(ends)
    PROVE  /\ view' \in [Parts -> Nat]
           /\ \A part \in Parts : view'[part] <= disk
           /\ \/ poll' = "dead" /\ view'.version = view.version
              \/ /\ poll' = ends
                 /\ \A part \in Parts : view'[part] \in {view[part], disk}
                 /\ \/ view'.version = view.version
                    \/ \A part \in Parts : view'[part] = disk
<1>. USE DEF StoreInv
<1>1. CASE history[disk].elected \cap Unbranched # {}
  BY <1>1 DEF View!UpdateNodeDetails, Parts
<1>2. CASE history[disk].elected \cap Unbranched = {}
  <2>1. poll' = ends /\ \E last \in 0..5 : view' = View!Refreshed(view, disk, last)
    BY <1>2 DEF View!UpdateNodeDetails
  <2>2. PICK last \in 0..5 : view' = View!Refreshed(view, disk, last)
    BY <2>1
  <2>3. /\ view' \in [Parts -> Nat]
        /\ \A part \in Parts : view'[part] \in {view[part], disk}
        /\ \/ view'.version = view.version
           \/ \A part \in Parts : view'[part] = disk
    <3>1. view \in [Parts -> Nat] /\ disk \in Nat
      OBVIOUS
    <3>2. IsRefresh(view', view, disk)
      BY <2>2, <3>1, RefreshedParts
    <3>. QED
      BY <3>1, <3>2 DEF Parts, IsRefresh
  <2>. QED
    BY <2>1, <2>3
<1>. QED
  BY <1>1, <1>2

-----------------------------------------------------------------------------
(* The network and the local store. *)

LEMMA ExecuteKeepsIndInv ==
    ASSUME ViewIndInv, NEW p \in Proposal, View!Execute(p)
    PROVE  ViewIndInv'
<1>. DEFINE new == View!After(View!Last(history), p)
<1>1. UNCHANGED <<fromCli, disk, view, poll, served>> /\ history' = Append(history, new)
  BY DEF View!Execute, View!viewVars
<1>. HIDE DEF new
<1>2. PICK R : history \in Seq(R)
  BY DEF ViewIndInv, StoreInv
<1>3. /\ history' \in Seq(R \cup {new}) /\ Len(history') = Len(history) + 1
      /\ \A v \in 1..Len(history) : history'[v] = history[v]
      /\ Len(history) \in Nat
  <2>1. history \in Seq(R \cup {new}) /\ new \in R \cup {new}
    BY <1>2
  <2>. QED
    BY <1>1, <2>1, AppendProperties
<1>4. StoreInv'
  BY <1>1, <1>3 DEF ViewIndInv, StoreInv
<1>5. PollInv'
  <2>1. view.version \in Nat
    BY DEF ViewIndInv, StoreInv, Parts
  <2>2. view.version < Len(history) => view.version < Len(history')
    BY <1>3, <2>1
  <2>. QED
    BY <1>1, <2>2 DEF ViewIndInv, PollInv, View!Latest
<1>6. ASSUME NEW r \in Request
      PROVE  RequestOk(r)' /\ AnswerOk(r)'
  <2>1. RequestOk(r) /\ AnswerOk(r)
    BY DEF ViewIndInv, RequestInv
  <2>2. served[r].latest \in 0..Len(history)
    BY <2>1 DEF RequestOk, View!Latest
  <2>3. served[r].latest \in 0..Len(history')
    BY <1>3, <2>2
  <2>4. served'[r] = served[r] /\ fromCli' = fromCli /\ view' = view
    BY <1>1
  <2>5. RequestOk(r)'
    BY <2>1, <2>3, <2>4 DEF RequestOk, ViewIs, View!Latest
  <2>6. served[r].latest # 0 => history'[served[r].latest] = history[served[r].latest]
    BY <1>3, <2>2
  <2>7. AnswerOk(r)'
    BY <2>1, <2>4, <2>6 DEF AnswerOk
  <2>. QED
    BY <2>5, <2>7
<1>. QED
  BY <1>1, <1>4, <1>5, <1>6 DEF ViewIndInv, RequestInv

LEMMA SameViewKeeps ==
    ASSUME ViewIndInv, UNCHANGED <<fromCli, history, view, poll, served>>
    PROVE  PollInv' /\ RequestInv'
<1>1. PollInv'
  BY DEF ViewIndInv, PollInv, View!Latest
<1>2. ASSUME NEW r \in Request
      PROVE  RequestOk(r)' /\ AnswerOk(r)'
  <2>1. RequestOk(r) /\ AnswerOk(r)
    BY DEF ViewIndInv, RequestInv
  <2>2. RequestOk(r)'
    BY <2>1 DEF RequestOk, ViewIs, View!Latest
  <2>3. AnswerOk(r)'
    BY <2>1 DEF AnswerOk
  <2>. QED
    BY <2>2, <2>3
<1>. QED
  BY <1>1, <1>2 DEF ViewIndInv, RequestInv

LEMMA SyncKeepsIndInv ==
    ASSUME ViewIndInv, View!SyncLocalStore
    PROVE  ViewIndInv'
<1>1. UNCHANGED <<fromCli, history, view, poll, served>> /\ disk < View!Latest /\ disk' = View!Latest
  BY DEF View!SyncLocalStore, View!nnsVars
<1>2. Len(history) \in Nat
  BY DEF ViewIndInv, StoreInv
<1>3. StoreInv'
  BY <1>1, <1>2 DEF ViewIndInv, StoreInv, View!Latest
<1>4. PollInv' /\ RequestInv'
  BY <1>1, SameViewKeeps
<1>. QED
  BY <1>3, <1>4 DEF ViewIndInv

-----------------------------------------------------------------------------
(* The poll. *)

LEMMA FillOnceKeepsIndInv ==
    ASSUME ViewIndInv, View!FillOnce
    PROVE  ViewIndInv'
<1>1. fromCli /\ UNCHANGED <<fromCli, history, disk, served>> /\ View!UpdateNodeDetails("done")
  BY DEF View!FillOnce, View!nnsVars
<1>2. StoreInv'
  BY <1>1, UpdateShape DEF ViewIndInv, StoreInv
<1>3. PollInv' /\ RequestInv'
  BY <1>1 DEF ViewIndInv, PollInv, RequestInv, RequestOk, AnswerOk, View!Latest
<1>. QED
  BY <1>2, <1>3 DEF ViewIndInv

\* Before the view is changed the poll only remembers that the registry is ahead.
LEMMA PollStepsKeepIndInv ==
    ASSUME ViewIndInv, View!PollCompare \/ View!PollLabels \/ View!PollProviders \/ View!StoreLabels
    PROVE  ViewIndInv'
<1>1. UNCHANGED <<fromCli, history, disk, view, served>>
  BY DEF View!PollCompare, View!PollLabels, View!PollProviders, View!StoreLabels, View!nnsVars
<1>2. StoreInv' /\ RequestInv'
  BY <1>1 DEF ViewIndInv, StoreInv, RequestInv, RequestOk, AnswerOk, ViewIs, View!Latest
<1>3. PollInv'
  <2>. SUFFICES ASSUME ~fromCli PROVE PollInv'
    BY <1>1 DEF PollInv
  <2>1. view.version \in Nat /\ view.version <= Len(history) /\ Len(history) \in Nat
    BY DEF ViewIndInv, StoreInv, Parts
  <2>2. CASE View!PollCompare
    BY <1>1, <2>1, <2>2 DEF ViewIndInv, PollInv, View!PollCompare, View!Behind, View!Latest
  <2>3. CASE View!PollLabels \/ View!PollProviders \/ View!StoreLabels
    BY <1>1, <2>3 DEF ViewIndInv, PollInv, View!PollLabels, View!PollProviders, View!StoreLabels, View!Latest
  <2>. QED
    BY <2>2, <2>3
<1>. QED
  BY <1>2, <1>3 DEF ViewIndInv

\* No request holds a guard while the view changes.
LEMMA UpdateKeepsIndInv ==
    ASSUME ViewIndInv, View!Update
    PROVE  ViewIndInv'
<1>1. /\ UNCHANGED <<fromCli, history, disk, served>>
      /\ View!UpdateNodeDetails("sleep") /\ View!Guards = {} /\ poll = "update locked"
  BY DEF View!Update, View!nnsVars
<1>2. /\ view' \in [Parts -> Nat] /\ view \in [Parts -> Nat]
      /\ \A part \in Parts : view'[part] <= disk
      /\ \/ poll' = "dead" /\ view'.version = view.version
         \/ /\ poll' = "sleep"
            /\ \A part \in Parts : view'[part] \in {view[part], disk}
            /\ \/ view'.version = view.version
               \/ \A part \in Parts : view'[part] = disk
  BY <1>1, UpdateShape DEF ViewIndInv, StoreInv
<1>3. StoreInv'
  BY <1>1, <1>2 DEF ViewIndInv, StoreInv
<1>4. PollInv'
  <2>. SUFFICES ASSUME ~fromCli PROVE PollInv'
    BY <1>1 DEF PollInv
  <2>1. view.version < View!Latest /\ \A part \in Parts : view[part] >= view.version
    BY <1>1 DEF ViewIndInv, PollInv
  <2>2. view.version \in Nat /\ view.version <= disk /\ disk \in Nat
    BY DEF ViewIndInv, StoreInv, Parts
  <2>3. CASE poll' = "dead" /\ view'.version = view.version
    BY <1>1, <2>1, <2>3 DEF PollInv, View!Latest
  <2>4. CASE /\ poll' = "sleep" /\ view'.version = view.version
             /\ \A part \in Parts : view'[part] \in {view[part], disk}
    <3>1. \A part \in Parts : view'[part] >= view'.version
      BY <2>1, <2>2, <2>4
    <3>. QED
      BY <2>4, <3>1 DEF PollInv
  <2>5. CASE poll' = "sleep" /\ \A part \in Parts : view'[part] = disk
    <3>1. \A part \in Parts : view'[part] >= view'.version
      BY <2>2, <2>5 DEF Parts
    <3>. QED
      BY <2>5, <3>1 DEF PollInv
  <2>. QED
    BY <1>2, <2>3, <2>4, <2>5
<1>5. ASSUME NEW r \in Request
      PROVE  RequestOk(r)' /\ AnswerOk(r)'
  <2>1. served[r].pc \notin {"ask", "check", "handler", "list", "again"}
    BY <1>1 DEF View!Guards, ViewIndInv, RequestInv, RequestOk
  <2>2. RequestOk(r) /\ AnswerOk(r)
    BY DEF ViewIndInv, RequestInv
  <2>3. served'[r] = served[r] /\ fromCli' = fromCli /\ history' = history
    BY <1>1
  <2>4. RequestOk(r)'
    BY <2>1, <2>2, <2>3 DEF RequestOk, View!Latest
  <2>5. AnswerOk(r)'
    BY <2>2, <2>3 DEF AnswerOk
  <2>. QED
    BY <2>4, <2>5
<1>. QED
  BY <1>1, <1>3, <1>4, <1>5 DEF ViewIndInv, RequestInv

-----------------------------------------------------------------------------
(* Requests. *)

\* A step of one request is about that request alone.
LEMMA ServeOne ==
    ASSUME ViewIndInv, NEW r \in Request, NEW state, View!Serve(r, state), RequestOk(r)', AnswerOk(r)'
    PROVE  ViewIndInv'
<1>1. UNCHANGED <<fromCli, history, disk, view, poll>> /\ served' = [served EXCEPT ![r] = state]
  BY DEF View!Serve, View!nnsVars, View!viewVars
<1>2. StoreInv' /\ PollInv'
  BY <1>1 DEF ViewIndInv, StoreInv, PollInv, View!Latest
<1>3. ASSUME NEW q \in Request, q # r
      PROVE  RequestOk(q)' /\ AnswerOk(q)'
  <2>1. served'[q] = served[q]
    BY <1>1, <1>3 DEF ViewIndInv, RequestInv
  <2>. QED
    BY <1>1, <2>1 DEF ViewIndInv, RequestInv, RequestOk, AnswerOk, ViewIs, View!Latest
<1>4. DOMAIN served' = Request
  BY <1>1 DEF ViewIndInv, RequestInv
<1>. QED
  BY <1>2, <1>3, <1>4 DEF ViewIndInv, RequestInv

\* What the step leaves as it is, and the state it gives to the request.
LEMMA ServeFacts ==
    ASSUME ViewIndInv, NEW r \in Request, NEW state, View!Serve(r, state)
    PROVE  /\ UNCHANGED <<fromCli, history, disk, view, poll>>
           /\ served'[r] = state
           /\ RequestOk(r)
           /\ Len(history) \in Nat
BY DEF ViewIndInv, StoreInv, RequestInv, View!Serve, View!nnsVars, View!viewVars

LEMMA EnterKeepsIndInv ==
    ASSUME ViewIndInv, NEW r \in Request, View!Enter(r)
    PROVE  ViewIndInv'
<1>. DEFINE state == [served[r] EXCEPT !.pc = "ask", !.guards = 1]
<1>1. View!Serve(r, state) /\ served[r].pc = "enter"
  BY DEF View!Enter, View!Waits
<1>2. /\ UNCHANGED <<fromCli, history, disk, view, poll>> /\ served'[r] = state
      /\ RequestOk(r) /\ Len(history) \in Nat
  BY <1>1, ServeFacts
<1>3. DOMAIN state = DOMAIN served[r] /\ state.pc = "ask" /\ state.guards = 1
      /\ state.latest = served[r].latest /\ state.status = served[r].status
  BY <1>2 DEF RequestOk
<1>. HIDE DEF state
<1>4. RequestOk(r)' /\ AnswerOk(r)'
  BY <1>1, <1>2, <1>3 DEF RequestOk, AnswerOk, View!Latest
<1>. QED
  BY <1>1, <1>4, ServeOne

\* The latest version is as new as the local store, and newer than a view of a
\* poll that died.
LEMMA AskLatestKeepsIndInv ==
    ASSUME ViewIndInv, NEW r \in Request, View!AskLatest(r)
    PROVE  ViewIndInv'
<1>1. PICK v \in {View!Latest, 0} : View!Serve(r, [served[r] EXCEPT !.pc = "check", !.latest = v])
  BY DEF View!AskLatest
<1>. DEFINE state == [served[r] EXCEPT !.pc = "check", !.latest = v]
<1>2. /\ UNCHANGED <<fromCli, history, disk, view, poll>> /\ served'[r] = state
      /\ RequestOk(r) /\ Len(history) \in Nat /\ served[r].pc = "ask"
  <2>1. View!Serve(r, state)
    BY <1>1
  <2>. QED
    BY <2>1, ServeFacts DEF View!AskLatest, View!Waits
<1>3. DOMAIN state = DOMAIN served[r] /\ state.pc = "check" /\ state.latest = v
      /\ state.guards = served[r].guards /\ state.status = served[r].status
  BY <1>2 DEF RequestOk
<1>. HIDE DEF state
<1>4. ~fromCli /\ v = view.version /\ v # 0 => ViewIs(v)
  <2>. SUFFICES ASSUME ~fromCli, v = view.version, v # 0, NEW part \in Parts
                PROVE  view[part] = v
    BY DEF ViewIs
  <2>1. v = Len(history) /\ disk <= Len(history) /\ disk \in Nat
    BY DEF View!Latest, ViewIndInv, StoreInv
  <2>2. view[part] \in Nat /\ view[part] <= disk
    BY DEF ViewIndInv, StoreInv
  <2>3. view[part] >= view.version
    <3>1. view.version \in Nat /\ ~(view.version < View!Latest)
      BY <2>1 DEF View!Latest, ViewIndInv, StoreInv, Parts
    <3>. QED
      BY <3>1 DEF ViewIndInv, PollInv
  <2>. QED
    BY <1>2, <2>1, <2>2, <2>3
<1>5. RequestOk(r)' /\ AnswerOk(r)'
  BY <1>2, <1>3, <1>4 DEF RequestOk, AnswerOk, ViewIs, View!Latest
<1>. QED
  BY <1>1, <1>5, ServeOne

LEMMA CheckKeepsIndInv ==
    ASSUME ViewIndInv, NEW r \in Request, View!Check(r)
    PROVE  ViewIndInv'
<1>. DEFINE refused == View!Unavailable(r)
            passed  == [served[r] EXCEPT !.pc = "handler"]
            state   == IF View!Refuses(served[r].latest) THEN refused ELSE passed
<1>1. View!Serve(r, state) /\ served[r].pc = "check"
  BY DEF View!Check, View!Waits
<1>2. /\ UNCHANGED <<fromCli, history, disk, view, poll>> /\ served'[r] = state
      /\ RequestOk(r) /\ Len(history) \in Nat
  BY <1>1, ServeFacts
<1>3. DOMAIN refused = DOMAIN served[r] /\ refused.pc = "answered" /\ refused.status = 503
      /\ refused.latest = 0
  BY <1>2 DEF RequestOk, View!Unavailable
<1>4. DOMAIN passed = DOMAIN served[r] /\ passed.pc = "handler" /\ passed.latest = served[r].latest
      /\ passed.guards = served[r].guards /\ passed.status = served[r].status
  BY <1>2 DEF RequestOk
<1>. HIDE DEF refused, passed
<1>5. CASE View!Refuses(served[r].latest)
  <2>1. served'[r] = refused
    BY <1>2, <1>5
  <2>2. RequestOk(r)' /\ AnswerOk(r)'
    BY <1>2, <1>3, <2>1 DEF RequestOk, AnswerOk, View!Latest
  <2>. QED
    BY <1>1, <2>2, ServeOne
<1>6. CASE ~View!Refuses(served[r].latest)
  <2>1. served'[r] = passed
    BY <1>2, <1>6
  <2>2. ~fromCli => served[r].latest # 0 /\ ViewIs(served[r].latest)
    BY <1>1, <1>2, <1>6 DEF RequestOk, View!Refuses
  <2>3. RequestOk(r)' /\ AnswerOk(r)'
    BY <1>1, <1>2, <1>4, <2>1, <2>2 DEF RequestOk, AnswerOk, ViewIs, View!Latest
  <2>. QED
    BY <1>1, <2>3, ServeOne
<1>. QED
  BY <1>5, <1>6

LEMMA HandlerReadKeepsIndInv ==
    ASSUME ViewIndInv, NEW r \in Request, View!HandlerRead(r)
    PROVE  ViewIndInv'
<1>. DEFINE state == [served[r] EXCEPT !.pc = "list", !.guards = 2]
<1>1. View!Serve(r, state) /\ served[r].pc = "handler"
  BY DEF View!HandlerRead, View!Waits
<1>2. /\ UNCHANGED <<fromCli, history, disk, view, poll>> /\ served'[r] = state
      /\ RequestOk(r) /\ Len(history) \in Nat
  BY <1>1, ServeFacts
<1>3. DOMAIN state = DOMAIN served[r] /\ state.pc = "list" /\ state.guards = 2
      /\ state.latest = served[r].latest /\ state.status = served[r].status
  BY <1>2 DEF RequestOk
<1>. HIDE DEF state
<1>4. RequestOk(r)' /\ AnswerOk(r)'
  BY <1>1, <1>2, <1>3 DEF RequestOk, AnswerOk, ViewIs, View!Latest
<1>. QED
  BY <1>1, <1>4, ServeOne

\* The answers of the two endpoints, from a view that is one version.
LEMMA AnswersFromView ==
    ASSUME NEW v, v # 0, ViewIs(v)
    PROVE  /\ View!AvailableNodes \cap history[v].home = {}
           /\ history[v].runs \notin View!Retireable
<1>1. view.nodes = v /\ view.subnets = v
  BY DEF ViewIs, Parts
<1>. QED
  BY <1>1 DEF View!AvailableNodes, View!Placed, View!Retireable, View!InUse

LEMMA ListProposalsKeepsIndInv ==
    ASSUME ViewIndInv, NEW r \in Request, View!ListProposals(r)
    PROVE  ViewIndInv'
<1>. DEFINE answer   == IF served[r].kind = "available" THEN View!AvailableNodes ELSE View!Retireable
            again    == [served[r] EXCEPT !.pc = "again", !.guards = 2]
            answered == [served[r] EXCEPT !.pc = "answered", !.guards = 0, !.status = 200, !.seen = view,
                                          !.answer = answer]
            state    == IF served[r].kind = "preview" THEN again ELSE answered
<1>1. View!Serve(r, state) /\ served[r].pc = "list"
  BY DEF View!ListProposals, View!Waits
<1>2. /\ UNCHANGED <<fromCli, history, disk, view, poll>> /\ served'[r] = state
      /\ RequestOk(r) /\ Len(history) \in Nat
  BY <1>1, ServeFacts
<1>3. /\ DOMAIN again = DOMAIN served[r] /\ again.pc = "again" /\ again.guards = 2
      /\ again.latest = served[r].latest /\ again.status = served[r].status /\ again.kind = served[r].kind
  BY <1>2 DEF RequestOk
<1>4. /\ DOMAIN answered = DOMAIN served[r] /\ answered.pc = "answered" /\ answered.status = 200
      /\ answered.latest = served[r].latest /\ answered.kind = served[r].kind
      /\ answered.seen = view /\ answered.answer = answer
  <2>. HIDE DEF answer
  <2>. QED
    BY <1>2 DEF RequestOk
<1>5. ~fromCli => /\ served[r].latest # 0 /\ ViewIs(served[r].latest)
                  /\ served[r].kind = "available" => answer \cap history[served[r].latest].home = {}
                  /\ served[r].kind = "retireable" => history[served[r].latest].runs \notin answer
  BY <1>1, <1>2, AnswersFromView DEF RequestOk
<1>. HIDE DEF again, answered, answer
<1>6. CASE served[r].kind = "preview"
  <2>1. served'[r] = again
    BY <1>2, <1>6
  <2>2. RequestOk(r)' /\ AnswerOk(r)'
    BY <1>1, <1>2, <1>3, <1>5, <1>6, <2>1 DEF RequestOk, AnswerOk, ViewIs, View!Latest
  <2>. QED
    BY <1>1, <2>2, ServeOne
<1>7. CASE served[r].kind # "preview"
  <2>1. served'[r] = answered
    BY <1>2, <1>7
  <2>2. RequestOk(r)'
    BY <1>2, <1>4, <2>1 DEF RequestOk, View!Latest
  <2>3. AnswerOk(r)'
    <3>1. DOMAIN view = Parts
      BY DEF ViewIndInv, StoreInv
    <3>. QED
      BY <1>2, <1>4, <1>5, <2>1, <3>1 DEF AnswerOk, ViewIs
  <2>. QED
    BY <1>1, <2>2, <2>3, ServeOne
<1>. QED
  BY <1>6, <1>7

LEMMA ReadAgainKeepsIndInv ==
    ASSUME ViewIndInv, NEW r \in Request, View!ReadAgain(r)
    PROVE  ViewIndInv'
<1>. DEFINE state == [served[r] EXCEPT !.pc = "answered", !.guards = 0, !.status = 200, !.seen = view]
<1>1. View!Serve(r, state) /\ served[r].pc = "again"
  BY DEF View!ReadAgain, View!Waits
<1>2. /\ UNCHANGED <<fromCli, history, disk, view, poll>> /\ served'[r] = state
      /\ RequestOk(r) /\ Len(history) \in Nat
  BY <1>1, ServeFacts
<1>3. DOMAIN state = DOMAIN served[r] /\ state.pc = "answered" /\ state.latest = served[r].latest
      /\ state.kind = served[r].kind /\ state.seen = view
  BY <1>2 DEF RequestOk
<1>. HIDE DEF state
<1>4. RequestOk(r)'
  BY <1>2, <1>3 DEF RequestOk, View!Latest
<1>5. AnswerOk(r)'
  <2>1. DOMAIN view = Parts
    BY DEF ViewIndInv, StoreInv
  <2>. QED
    BY <1>1, <1>2, <1>3, <2>1 DEF RequestOk, AnswerOk, ViewIs
<1>. QED
  BY <1>1, <1>4, <1>5, ServeOne

-----------------------------------------------------------------------------
LEMMA NextKeepsIndInv ==
    ASSUME ViewIndInv, [View!Next]_View!vars
    PROVE  ViewIndInv'
<1>1. CASE \E p \in Proposal : View!Submit(p)
  <2>1. UNCHANGED <<fromCli, history, disk, view, poll, served>>
    BY <1>1 DEF View!Submit, View!viewVars
  <2>2. StoreInv'
    BY <2>1 DEF ViewIndInv, StoreInv
  <2>. QED
    BY <2>1, <2>2, SameViewKeeps DEF ViewIndInv
<1>2. CASE UNCHANGED View!vars
  <2>1. UNCHANGED <<fromCli, history, disk, view, poll, served>>
    BY <1>2 DEF View!vars, View!nnsVars, View!viewVars
  <2>2. StoreInv'
    BY <2>1 DEF ViewIndInv, StoreInv
  <2>. QED
    BY <2>1, <2>2, SameViewKeeps DEF ViewIndInv
<1>3. CASE View!Poll
  BY <1>3, PollStepsKeepIndInv, UpdateKeepsIndInv DEF View!Poll
<1>4. CASE \E r \in Request : View!Handle(r)
  BY <1>4, EnterKeepsIndInv, AskLatestKeepsIndInv, CheckKeepsIndInv, HandlerReadKeepsIndInv,
     ListProposalsKeepsIndInv, ReadAgainKeepsIndInv DEF View!Handle
<1>. QED
  BY <1>1, <1>2, <1>3, <1>4, ExecuteKeepsIndInv, SyncKeepsIndInv, FillOnceKeepsIndInv DEF View!Next

LEMMA IndInvAnswers == ViewIndInv => View!AnswersAreTrue
BY DEF ViewIndInv, RequestInv, RequestOk, AnswerOk, View!AnswersAreTrue

\* For any requests, proposals, failures and orders: an answer of the server is true
\* of the one registry version that was the latest when the middleware asked
\* (endpoints/mod.rs:57-71, registry.rs:254-263).
THEOREM AnswersTrue == View!Spec => []View!AnswersAreTrue
<1>1. View!Init => ViewIndInv
  BY InitIndInv
<1>2. ViewIndInv /\ [View!Next]_View!vars => ViewIndInv'
  BY NextKeepsIndInv
<1>3. ViewIndInv => View!AnswersAreTrue
  BY IndInvAnswers
<1>. QED
  BY <1>1, <1>2, <1>3, PTL DEF View!Spec

-----------------------------------------------------------------------------
(* RegistryView: types.                                                      *)

\* A version of the registry.
Locked == {"labels locked", "update locked"}

ViewPollInv ==
    /\ poll \in {"first", "done", "sleep", "labels", "labels locked", "providers", "update locked", "dead"}
    /\ writer \in {"no", "waiting"} /\ (writer = "waiting" <=> poll \in Locked)
    /\ faults \in 0..MaxViewFailures

ViewTypeInv ==
    /\ fromCli \in BOOLEAN
    /\ history \in Seq(RegistryType)
    /\ votes \in [Proposal -> {"new", "open", "done"}]
    /\ ViewPollInv
    /\ \A r \in Request : served[r].guards \in 0..2 /\ served[r].status \in {0, 200, 503}

LEMMA AfterIsTyped ==
    ASSUME ProposalsKnown, NEW r \in RegistryType, NEW p \in Proposal
    PROVE  View!After(r, p) \in RegistryType
<1>1. p.kind \in {"add", "remove", "upgrade", "elect"}
  BY DEF ProposalsKnown
<1>2. CASE p.kind = "add"
  <2>1. p.nodes \subseteq Node
    BY <1>2 DEF ProposalsKnown
  <2>. QED
    BY <1>2, <2>1 DEF View!After, RegistryType
<1>3. CASE p.kind = "remove"
  BY <1>3 DEF View!After, RegistryType
<1>4. CASE p.kind = "upgrade"
  <2>1. p.version \in View!Version
    BY <1>4 DEF ProposalsKnown
  <2>. QED
    BY <1>4, <2>1 DEF View!After, RegistryType
<1>5. CASE p.kind = "elect"
  <2>1. p.version \in View!Version
    BY <1>5 DEF ProposalsKnown
  <2>. QED
    BY <1>5, <2>1 DEF View!After, RegistryType
<1>. QED
  BY <1>1, <1>2, <1>3, <1>4, <1>5

LEMMA ViewInitTypes == ProposalsKnown /\ View!Init => ViewTypeInv
<1>. SUFFICES ASSUME ProposalsKnown, View!Init PROVE ViewTypeInv
  OBVIOUS
<1>1. history \in Seq(RegistryType)
  BY DEF View!Init, ProposalsKnown
<1>2. votes \in [Proposal -> {"new", "open", "done"}]
  <2>1. PICK agenda \in Agendas : votes = [p \in Proposal |-> IF p \in agenda THEN "new" ELSE "done"]
    BY DEF View!Init
  <2>. QED
    BY <2>1
<1>3. ViewPollInv
  BY DEF View!Init, ViewPollInv, Locked, ProposalsKnown
<1>4. ASSUME NEW r \in Request
      PROVE  served[r].guards \in 0..2 /\ served[r].status \in {0, 200, 503}
  <2>1. PICK load \in Loads : served = [q \in Request |-> View!NewRequest(load[q])]
    BY DEF View!Init
  <2>. QED
    BY <2>1 DEF View!NewRequest
<1>5. fromCli \in BOOLEAN
  BY DEF View!Init
<1>. QED
  BY <1>1, <1>2, <1>3, <1>4, <1>5 DEF ViewTypeInv

\* A step of one request.
LEMMA ServeKeepsTypes ==
    ASSUME ViewIndInv, ViewTypeInv, NEW r \in Request, NEW state, View!Serve(r, state),
           state.guards \in 0..2, state.status \in {0, 200, 503}
    PROVE  ViewTypeInv'
<1>1. UNCHANGED <<fromCli, history, votes, poll, writer, faults>> /\ served' = [served EXCEPT ![r] = state]
  BY DEF View!Serve, View!nnsVars, View!viewVars
<1>2. ViewPollInv'
  <2>1. poll' = poll /\ writer' = writer /\ faults' = faults
    BY <1>1
  <2>2. ViewPollInv
    BY DEF ViewTypeInv
  <2>. QED
    BY <2>1, <2>2 DEF ViewPollInv, Locked
<1>3. DOMAIN served = Request
  BY DEF ViewIndInv, RequestInv
<1>4. \A q \in Request : served'[q].guards \in 0..2 /\ served'[q].status \in {0, 200, 503}
  BY <1>1, <1>3 DEF ViewTypeInv
<1>. QED
  BY <1>1, <1>2, <1>4 DEF ViewTypeInv

LEMMA HandleKeepsTypes ==
    ASSUME ViewIndInv, ViewTypeInv, NEW r \in Request, View!Handle(r)
    PROVE  ViewTypeInv'
<1>. DEFINE s == served[r]
<1>1. /\ DOMAIN s = {"kind", "pc", "guards", "latest", "status", "seen", "answer"}
      /\ s.guards \in 0..2 /\ s.status \in {0, 200, 503}
  BY DEF ViewIndInv, RequestInv, RequestOk, ViewTypeInv
<1>2. CASE View!Enter(r)
  <2>. DEFINE state == [s EXCEPT !.pc = "ask", !.guards = 1]
  <2>1. View!Serve(r, state)
    BY <1>2 DEF View!Enter
  <2>2. state.guards = 1 /\ state.status = s.status
    BY <1>1
  <2>. HIDE DEF state
  <2>. QED
    BY <1>1, <2>1, <2>2, ServeKeepsTypes
<1>3. CASE View!AskLatest(r)
  <2>1. PICK v \in {View!Latest, 0} : View!Serve(r, [s EXCEPT !.pc = "check", !.latest = v])
    BY <1>3 DEF View!AskLatest
  <2>. DEFINE state == [s EXCEPT !.pc = "check", !.latest = v]
  <2>2. View!Serve(r, state)
    BY <2>1
  <2>3. state.guards = s.guards /\ state.status = s.status
    BY <1>1
  <2>. HIDE DEF state
  <2>. QED
    BY <1>1, <2>2, <2>3, ServeKeepsTypes
<1>4. CASE View!Check(r)
  <2>. DEFINE refused == View!Unavailable(r)
              passed  == [s EXCEPT !.pc = "handler"]
  <2>1. View!Serve(r, refused) \/ View!Serve(r, passed)
    BY <1>4 DEF View!Check
  <2>2. refused.guards = 0 /\ refused.status = 503
    BY <1>1 DEF View!Unavailable
  <2>3. passed.guards = s.guards /\ passed.status = s.status
    BY <1>1
  <2>. HIDE DEF refused, passed
  <2>4. CASE View!Serve(r, refused)
    BY <2>2, <2>4, ServeKeepsTypes
  <2>5. CASE View!Serve(r, passed)
    BY <1>1, <2>3, <2>5, ServeKeepsTypes
  <2>. QED
    BY <2>1, <2>4, <2>5
<1>5. CASE View!HandlerRead(r)
  <2>. DEFINE state == [s EXCEPT !.pc = "list", !.guards = 2]
  <2>1. View!Serve(r, state)
    BY <1>5 DEF View!HandlerRead
  <2>2. state.guards = 2 /\ state.status = s.status
    BY <1>1
  <2>. HIDE DEF state
  <2>. QED
    BY <1>1, <2>1, <2>2, ServeKeepsTypes
<1>6. CASE View!ListProposals(r)
  <2>. DEFINE answer   == IF s.kind = "available" THEN View!AvailableNodes ELSE View!Retireable
              again    == [s EXCEPT !.pc = "again", !.guards = 2]
              answered == [s EXCEPT !.pc = "answered", !.guards = 0, !.status = 200, !.seen = view,
                                    !.answer = answer]
  <2>1. View!Serve(r, again) \/ View!Serve(r, answered)
    BY <1>6 DEF View!ListProposals
  <2>2. again.guards = 2 /\ again.status = s.status
    BY <1>1
  <2>3. answered.guards = 0 /\ answered.status = 200
    <3>. HIDE DEF answer
    <3>. QED
      BY <1>1
  <2>. HIDE DEF again, answered
  <2>4. CASE View!Serve(r, again)
    BY <1>1, <2>2, <2>4, ServeKeepsTypes
  <2>5. CASE View!Serve(r, answered)
    BY <2>3, <2>5, ServeKeepsTypes
  <2>. QED
    BY <2>1, <2>4, <2>5
<1>7. CASE View!ReadAgain(r)
  <2>. DEFINE state == [s EXCEPT !.pc = "answered", !.guards = 0, !.status = 200, !.seen = view]
  <2>1. View!Serve(r, state)
    BY <1>7 DEF View!ReadAgain
  <2>2. state.guards = 0 /\ state.status = 200
    BY <1>1
  <2>. HIDE DEF state
  <2>. QED
    BY <2>1, <2>2, ServeKeepsTypes
<1>. QED
  BY <1>2, <1>3, <1>4, <1>5, <1>6, <1>7 DEF View!Handle

LEMMA UpdateKeepsFaults ==
    ASSUME ProposalsKnown, ViewPollInv, NEW ends, View!UpdateNodeDetails(ends)
    PROVE  poll' \in {ends, "dead"} /\ faults' \in 0..MaxViewFailures
<1>1. CASE history[disk].elected \cap Unbranched # {}
  BY <1>1 DEF View!UpdateNodeDetails, ViewPollInv
<1>2. CASE history[disk].elected \cap Unbranched = {}
  <2>1. /\ poll' = ends
        /\ faults' = faults \/ (faults < MaxViewFailures /\ faults' = faults + 1)
    BY <1>2 DEF View!UpdateNodeDetails
  <2>2. faults \in 0..MaxViewFailures /\ MaxViewFailures \in Nat
    BY DEF ViewPollInv, ProposalsKnown
  <2>3. faults' \in 0..MaxViewFailures
    BY <2>1, <2>2
  <2>. QED
    BY <2>1, <2>3
<1>. QED
  BY <1>1, <1>2

LEMMA ViewNextTypes ==
    ASSUME ProposalsKnown, ViewIndInv, ViewTypeInv, [View!Next]_View!vars
    PROVE  ViewTypeInv'
<1>1. ASSUME NEW p \in Proposal, View!Submit(p)
      PROVE  ViewTypeInv'
  <2>1. /\ UNCHANGED <<fromCli, history, poll, writer, faults, served>>
        /\ votes' = [votes EXCEPT ![p] = "open"]
    BY <1>1 DEF View!Submit, View!viewVars
  <2>. QED
    BY <2>1 DEF ViewTypeInv, ViewPollInv
<1>2. ASSUME NEW p \in Proposal, View!Execute(p)
      PROVE  ViewTypeInv'
  <2>. DEFINE new == View!After(View!Last(history), p)
  <2>1. /\ UNCHANGED <<fromCli, poll, writer, faults, served>>
        /\ votes' = [votes EXCEPT ![p] = "done"] /\ history' = Append(history, new)
    BY <1>2 DEF View!Execute, View!viewVars
  <2>2. View!Last(history) \in RegistryType
    BY DEF View!Last, ViewIndInv, StoreInv, ViewTypeInv
  <2>3. new \in RegistryType
    BY <2>2, AfterIsTyped
  <2>. HIDE DEF new
  <2>4. history' \in Seq(RegistryType)
    BY <2>1, <2>3 DEF ViewTypeInv
  <2>. QED
    BY <2>1, <2>4 DEF ViewTypeInv, ViewPollInv
<1>3. CASE View!SyncLocalStore
  <2>1. UNCHANGED <<fromCli, history, votes, poll, writer, faults, served>>
    BY <1>3 DEF View!SyncLocalStore, View!nnsVars
  <2>. QED
    BY <2>1 DEF ViewTypeInv, ViewPollInv
<1>4. CASE View!FillOnce
  <2>1. UNCHANGED <<fromCli, history, votes, writer, served>> /\ poll = "first"
    BY <1>4 DEF View!FillOnce, View!nnsVars
  <2>2. poll' \in {"done", "dead"} /\ faults' \in 0..MaxViewFailures
    BY <1>4, UpdateKeepsFaults DEF View!FillOnce, ViewTypeInv
  <2>3. ViewPollInv'
    BY <2>1, <2>2 DEF ViewTypeInv, ViewPollInv, Locked
  <2>. QED
    BY <2>1, <2>3 DEF ViewTypeInv
<1>5. CASE View!Update
  <2>1. UNCHANGED <<fromCli, history, votes, served>> /\ writer' = "no"
    BY <1>5 DEF View!Update, View!nnsVars, View!LockReleased
  <2>2. poll' \in {"sleep", "dead"} /\ faults' \in 0..MaxViewFailures
    BY <1>5, UpdateKeepsFaults DEF View!Update, ViewTypeInv
  <2>3. ViewPollInv'
    BY <2>1, <2>2 DEF ViewPollInv, Locked
  <2>. QED
    BY <2>1, <2>3 DEF ViewTypeInv
<1>6. CASE View!PollCompare \/ View!PollLabels \/ View!PollProviders \/ View!StoreLabels
  <2>1. UNCHANGED <<fromCli, history, votes, served>>
    BY <1>6 DEF View!PollCompare, View!PollLabels, View!PollProviders, View!StoreLabels, View!nnsVars
  <2>2. faults \in 0..MaxViewFailures /\ MaxViewFailures \in Nat
    BY DEF ViewTypeInv, ViewPollInv, ProposalsKnown
  <2>3. faults' \in 0..MaxViewFailures
    <3>1. faults' = faults \/ (faults < MaxViewFailures /\ faults' = faults + 1)
      BY <1>6, Zenon DEF View!PollCompare, View!PollLabels, View!PollProviders, View!StoreLabels
    <3>. QED
      BY <2>2, <3>1
  <2>4. ViewPollInv'
    <3>1. CASE View!PollCompare
      BY <2>3, <3>1 DEF ViewTypeInv, ViewPollInv, Locked, View!PollCompare
    <3>2. CASE View!PollLabels
      BY <2>3, <3>2 DEF ViewTypeInv, ViewPollInv, Locked, View!PollLabels
    <3>3. CASE View!PollProviders
      BY <2>3, <3>3 DEF ViewTypeInv, ViewPollInv, Locked, View!PollProviders
    <3>4. CASE View!StoreLabels
      BY <2>3, <3>4 DEF ViewTypeInv, ViewPollInv, Locked, View!StoreLabels, View!LockReleased
    <3>. QED
      BY <1>6, <3>1, <3>2, <3>3, <3>4
  <2>. QED
    BY <2>1, <2>4 DEF ViewTypeInv
<1>7. CASE UNCHANGED View!vars
  <2>1. UNCHANGED <<fromCli, history, votes, poll, writer, faults, served>>
    BY <1>7 DEF View!vars, View!nnsVars, View!viewVars
  <2>. QED
    BY <2>1 DEF ViewTypeInv, ViewPollInv
<1>. QED
  BY <1>1, <1>2, <1>3, <1>4, <1>5, <1>6, <1>7, HandleKeepsTypes DEF View!Next, View!Poll

LEMMA ViewInvIsTyped == ViewIndInv /\ ViewTypeInv => View!TypeOK
<1>. SUFFICES ASSUME ViewIndInv, ViewTypeInv PROVE View!TypeOK
  OBVIOUS
<1>1. disk \in DOMAIN history /\ DOMAIN history = 1..Len(history) /\ Len(history) \in Nat
  BY DEF ViewIndInv, StoreInv, ViewTypeInv
<1>2. \A v \in DOMAIN history : history[v].home \subseteq Node /\ history[v].runs \in View!Version
  <2>1. \A v \in DOMAIN history : history[v] \in RegistryType
    BY <1>1 DEF ViewTypeInv
  <2>. QED
    BY <2>1 DEF RegistryType
<1>3. view \in [{"releases", "operators", "nodes", "subnets", "version"} -> 0..View!Latest]
  <2>1. view \in [Parts -> Nat] /\ \A part \in Parts : view[part] <= disk
    BY DEF ViewIndInv, StoreInv
  <2>2. \A part \in Parts : view[part] \in 0..Len(history)
    BY <1>1, <2>1
  <2>3. view \in [Parts -> 0..Len(history)]
    BY <2>1, <2>2
  <2>. QED
    BY <2>3 DEF Parts, View!Latest
<1>. QED
  BY <1>1, <1>2, <1>3 DEF ViewTypeInv, ViewPollInv, Locked, View!TypeOK

\* For any proposals, requests and failures: parts of the view are versions of the
\* registry, the poll waits for the lock exactly where it takes it, and a request
\* holds at most two guards (registry.rs:1036-1087, endpoints/mod.rs:57-71).
THEOREM ViewTypes == ASSUME ProposalsKnown PROVE View!Spec => []View!TypeOK
<1>1. View!Init => ViewIndInv /\ ViewTypeInv
  BY InitIndInv, ViewInitTypes
<1>2. ViewIndInv /\ ViewTypeInv /\ [View!Next]_View!vars => (ViewIndInv /\ ViewTypeInv)'
  BY NextKeepsIndInv, ViewNextTypes
<1>3. ViewIndInv /\ ViewTypeInv => View!TypeOK
  BY ViewInvIsTyped
<1>. QED
  BY <1>1, <1>2, <1>3, PTL DEF View!Spec

-----------------------------------------------------------------------------
(* DashboardCache: types.                                                    *)

UserState == [pc : {"idle", "read", "fetch", "parse", "write"}, data : Cache!Held, late : BOOLEAN]

LEMMA OlderIsHeld ==
    ASSUME CacheBounds
    PROVE  /\ \A x \in Cache!Held : Cache!Older(x) \in Cache!Held
           /\ \A x \in Cache!Age : Cache!Older(x) \in Cache!Age
<1>1. ASSUME NEW x \in Cache!Age
      PROVE  Cache!Older(x) \in Cache!Age
  BY <1>1 DEF CacheBounds, Cache!Older, Cache!Age
<1>2. ASSUME NEW x \in {Nothing, Torn}
      PROVE  Cache!Older(x) = x
  BY <1>2 DEF CacheBounds, Cache!Older, Cache!Age
<1>. QED
  BY <1>1, <1>2 DEF Cache!Held

LEMMA StepKeepsUsers ==
    ASSUME user \in [User -> UserState], NEW u \in User,
           NEW pc \in {"idle", "read", "fetch", "parse", "write"}, NEW data \in Cache!Held,
           Cache!Step(u, pc, data)
    PROVE  user' \in [User -> UserState]
<1>. DEFINE new == [pc |-> pc, data |-> data, late |-> user[u].late]
<1>1. user[u] \in UserState
  OBVIOUS
<1>2. user' = [user EXCEPT ![u] = new]
  <2>. DEFINE middle == [user EXCEPT ![u] = [user[u] EXCEPT !.pc = pc]]
  <2>1. user' = [middle EXCEPT ![u] = [middle[u] EXCEPT !.data = data]]
    BY DEF Cache!Step
  <2>2. middle[u] = [user[u] EXCEPT !.pc = pc]
    OBVIOUS
  <2>3. middle[u] = [pc |-> pc, data |-> user[u].data, late |-> user[u].late]
    BY <1>1, <2>2 DEF UserState
  <2>. HIDE DEF middle
  <2>4. [middle[u] EXCEPT !.data = data] = new
    BY <2>3
  <2>5. user' = [middle EXCEPT ![u] = new]
    BY <2>1, <2>4
  <2>. HIDE DEF new
  <2>. QED
    BY <2>5 DEF middle
<1>3. new \in UserState
  BY <1>1 DEF UserState
<1>. QED
  BY <1>2, <1>3

LEMMA CacheNextTypes ==
    ASSUME CacheBounds, Cache!TypeOK, [Cache!Next]_Cache!vars
    PROVE  Cache!TypeOK'
<1>1. /\ cached \in Cache!Held /\ modified \in Cache!Age /\ stops \in 0..MaxStops
      /\ user \in [User -> UserState]
  BY DEF Cache!TypeOK, UserState
<1>2. /\ Nothing \in Cache!Held /\ Torn \in Cache!Held /\ 0 \in Cache!Held /\ 0 \in Cache!Age
      /\ Cache!Idle \in UserState
  BY DEF CacheBounds, Cache!Held, Cache!Age, Cache!Idle, UserState
<1>3. \A u \in User : user[u].data \in Cache!Held
  BY <1>1 DEF UserState
<1>4. ASSUME NEW u \in User, Cache!Done(u)
      PROVE  user' \in [User -> UserState]
  BY <1>1, <1>2, <1>4 DEF Cache!Done
<1>5. CASE Cache!Tick
  <2>1. cached' \in Cache!Held /\ modified' \in Cache!Age /\ stops' = stops
    BY <1>1, <1>5, OlderIsHeld DEF Cache!Tick
  <2>2. ASSUME NEW u \in User
        PROVE  [user[u] EXCEPT !.data = Cache!Older(@), !.late = user[u] # Cache!Idle] \in UserState
    <3>1. user[u] \in UserState /\ Cache!Older(user[u].data) \in Cache!Held
      BY <1>1, <1>3, OlderIsHeld
    <3>. QED
      BY <3>1 DEF UserState
  <2>3. user' \in [User -> UserState]
    BY <1>5, <2>2 DEF Cache!Tick
  <2>. QED
    BY <1>1, <2>1, <2>3 DEF Cache!TypeOK, UserState
<1>6. ASSUME NEW u \in User, Cache!Query(u) \/ Cache!ReadFile(u)
      PROVE  Cache!TypeOK'
  <2>1. user' \in [User -> UserState]
    BY <1>1, <1>2, <1>6, StepKeepsUsers DEF Cache!Query, Cache!ReadFile
  <2>. QED
    BY <1>1, <1>6, <2>1 DEF Cache!TypeOK, UserState, Cache!Query, Cache!ReadFile
<1>7. ASSUME NEW u \in User, Cache!Fetch(u)
      PROVE  Cache!TypeOK'
  <2>1. user' \in [User -> UserState]
    BY <1>1, <1>2, <1>4, <1>7, StepKeepsUsers DEF Cache!Fetch
  <2>2. stops' \in 0..MaxStops /\ UNCHANGED <<cached, modified>>
    BY <1>1, <1>7 DEF Cache!Fetch, CacheBounds
  <2>. QED
    BY <1>1, <2>1, <2>2 DEF Cache!TypeOK, UserState
<1>8. ASSUME NEW u \in User, Cache!Parse(u)
      PROVE  Cache!TypeOK'
  <2>1. user' \in [User -> UserState]
    BY <1>1, <1>3, <1>4, <1>8, StepKeepsUsers DEF Cache!Parse, Cache!CreateFile
  <2>2. cached' \in Cache!Held /\ modified' \in Cache!Age /\ stops' = stops
    BY <1>1, <1>2, <1>8 DEF Cache!Parse, Cache!CreateFile
  <2>. QED
    BY <1>1, <2>1, <2>2 DEF Cache!TypeOK, UserState
<1>9. ASSUME NEW u \in User, Cache!WriteFile(u) \/ Cache!Crash(u)
      PROVE  Cache!TypeOK'
  <2>1. user' \in [User -> UserState]
    BY <1>4, <1>9 DEF Cache!WriteFile, Cache!Crash
  <2>2. cached' \in Cache!Held /\ modified' \in Cache!Age
    BY <1>1, <1>2, <1>3, <1>9 DEF Cache!WriteFile, Cache!Crash
  <2>3. stops' \in 0..MaxStops
    BY <1>1, <1>9 DEF Cache!WriteFile, Cache!Crash, CacheBounds
  <2>. QED
    BY <2>1, <2>2, <2>3 DEF Cache!TypeOK, UserState
<1>10. CASE UNCHANGED Cache!vars
  BY <1>10 DEF Cache!TypeOK, Cache!vars
<1>. QED
  BY <1>5, <1>6, <1>7, <1>8, <1>9, <1>10 DEF Cache!Next, Cache!Run

\* For any processes, intervals and crashes: the file is absent, torn or an answer
\* (public_dashboard.rs:19-45).
THEOREM CacheTypes == ASSUME CacheBounds PROVE Cache!Spec => []Cache!TypeOK
<1>1. Cache!Init => Cache!TypeOK
  BY DEF Cache!Init, Cache!TypeOK, Cache!Held, Cache!Age, Cache!Idle, CacheBounds
<1>2. Cache!TypeOK /\ [Cache!Next]_Cache!vars => Cache!TypeOK'
  BY CacheNextTypes
<1>. QED
  BY <1>1, <1>2, PTL DEF Cache!Spec

-----------------------------------------------------------------------------
(* The services together: every behaviour is one of the service at hand.     *)

LEMMA OtherServicesStay ==
    ASSUME NEW name, service # name, [Next]_<<service, healthVars, proposalVars, viewVars, cacheVars>>
    PROVE  service' # name
  BY DEF Next

LEMMA HealthRuns ==
    Spec => (Health!Spec /\ [](service = "health")) \/ []~(service = "health")
<1>1. Init /\ service = "health" => Health!Init
  BY DEF Init
<1>2. service = "health" /\ [Next]_<<service, healthVars, proposalVars, viewVars, cacheVars>>
        => (service = "health")' /\ [Health!Next]_Health!vars
  BY DEF Next, healthVars, Health!vars, Health!network, Health!healthVars, Health!senderVars
<1>3. ~(service = "health") /\ [Next]_<<service, healthVars, proposalVars, viewVars, cacheVars>>
        => ~(service = "health")'
  BY OtherServicesStay
<1>. QED
  BY <1>1, <1>2, <1>3, PTL DEF Spec, Health!Spec

LEMMA ProposalsRun ==
    Spec => (Proposals!Spec /\ [](service = "proposals")) \/ []~(service = "proposals")
<1>1. Init /\ service = "proposals" => Proposals!Init
  BY DEF Init
<1>2. service = "proposals" /\ [Next]_<<service, healthVars, proposalVars, viewVars, cacheVars>>
        => (service = "proposals")' /\ [Proposals!Next]_Proposals!vars
  BY DEF Next, proposalVars, Proposals!vars, Proposals!governance, Proposals!slack
<1>3. ~(service = "proposals") /\ [Next]_<<service, healthVars, proposalVars, viewVars, cacheVars>>
        => ~(service = "proposals")'
  BY OtherServicesStay
<1>. QED
  BY <1>1, <1>2, <1>3, PTL DEF Spec, Proposals!Spec

LEMMA ViewRuns ==
    Spec => (View!Spec /\ [](service = "view")) \/ []~(service = "view")
<1>1. Init /\ service = "view" => View!Init
  BY DEF Init
<1>2. service = "view" /\ [Next]_<<service, healthVars, proposalVars, viewVars, cacheVars>>
        => (service = "view")' /\ [View!Next]_View!vars
  BY DEF Next, viewVars, View!vars, View!nnsVars, View!viewVars
<1>3. ~(service = "view") /\ [Next]_<<service, healthVars, proposalVars, viewVars, cacheVars>>
        => ~(service = "view")'
  BY OtherServicesStay
<1>. QED
  BY <1>1, <1>2, <1>3, PTL DEF Spec, View!Spec

LEMMA CacheRuns ==
    Spec => (Cache!Spec /\ [](service = "cache")) \/ []~(service = "cache")
<1>1. Init /\ service = "cache" => Cache!Init
  BY DEF Init
<1>2. service = "cache" /\ [Next]_<<service, healthVars, proposalVars, viewVars, cacheVars>>
        => (service = "cache")' /\ [Cache!Next]_Cache!vars
  BY DEF Next, cacheVars, Cache!vars
<1>3. ~(service = "cache") /\ [Next]_<<service, healthVars, proposalVars, viewVars, cacheVars>>
        => ~(service = "cache")'
  BY OtherServicesStay
<1>. QED
  BY <1>1, <1>2, <1>3, PTL DEF Spec, Cache!Spec

\* For any nodes, proposals, losses, crashes and orders: the notifications of a node
\* follow one another without a gap and tell what the dashboard showed, and a
\* proposal is told once per life of the process (node_health.rs, slack.rs:58-100).
THEOREM NotificationsInOrder == ASSUME NodesAreFinite, ProposalBounds PROVE Spec => []ToldInOrder
<1>1. Health!Spec => []Health!ChangesFollow
  BY StoriesAreTold
<1>2. Proposals!Spec => []Proposals!ToldOncePerLife
  BY OncePerLife
<1>3. (service = "health" => Health!ChangesFollow) /\ (service = "proposals" => Proposals!ToldOncePerLife)
        => ToldInOrder
  BY DEF ToldInOrder
<1>. QED
  BY <1>1, <1>2, <1>3, HealthRuns, ProposalsRun, PTL

\* For any requests, proposals, failures and orders: an answer of the server is true
\* of the one registry version that was the latest when the middleware asked.
THEOREM ServerAnswersAreTrue == Spec => []AnswersAreTrue
<1>1. View!Spec => []View!AnswersAreTrue
  BY AnswersTrue
<1>2. (service = "view" => View!AnswersAreTrue) => AnswersAreTrue
  BY DEF AnswersAreTrue
<1>. QED
  BY <1>1, <1>2, ViewRuns, PTL

\* The state of every service keeps its type.
THEOREM ServicesTypes ==
    ASSUME NodesAreFinite, ProposalBounds, ProposalsKnown, CacheBounds
    PROVE  Spec => []TypeOK
<1>1. Health!Spec => []Health!TypeOK
  BY NotifierTypes
<1>2. Proposals!Spec => []Proposals!TypeOK
  BY ProposalTypes
<1>3. View!Spec => []View!TypeOK
  BY ViewTypes
<1>4. Cache!Spec => []Cache!TypeOK
  BY CacheTypes
<1>5. /\ service = "health" => Health!TypeOK
      /\ service = "proposals" => Proposals!TypeOK
      /\ service = "view" => View!TypeOK
      /\ service = "cache" => Cache!TypeOK
      => TypeOK
  BY DEF TypeOK
<1>. QED
  BY <1>1, <1>2, <1>3, <1>4, <1>5, HealthRuns, ProposalsRun, ViewRuns, CacheRuns, PTL
=============================================================================
