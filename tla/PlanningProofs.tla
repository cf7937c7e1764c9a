----------------------------- MODULE PlanningProofs -----------------------------
(***************************************************************************)
(* Theorems about the parts that plan changes: the groups of a HostOS      *)
(* rollout, for any nodes, subnets, requests, votes and failures, the      *)
(* proposals of the command line tool, for any operators, commands, images *)
(* and edits of firewall rules, and the changes of subnets, for any nodes, *)
(* features, filters and reports.                                          *)
(***************************************************************************)
EXTENDS Planning, LeastAndGreatest, SequenceTheorems, FiniteSetTheorems, TLAPS

-----------------------------------------------------------------------------
(* Cardinality, as the modules see it.                                       *)

LEMMA HostosCardinality ==
    ASSUME NEW S
    PROVE  Hostos!Cardinality(S) = Cardinality(S)
  BY DEF Hostos!Cardinality, Cardinality


-----------------------------------------------------------------------------
\* The nodes that a subnet has at the start.
Own(s) == {n \in Hostos!EveryNode : HomeOf[n] = s}

-----------------------------------------------------------------------------
(* The first nodes of a set. *)

LEMMA FirstFew ==
    ASSUME Nodes \in Seq(Hostos!EveryNode), NEW set, NEW count \in Nat
    PROVE  /\ Hostos!FirstOf(set, count) \subseteq set /\ Hostos!FirstOf(set, count) \subseteq Hostos!EveryNode
           /\ IsFiniteSet(Hostos!FirstOf(set, count))
           /\ Cardinality(Hostos!FirstOf(set, count)) <= count
<1>. DEFINE P == {k \in DOMAIN Nodes : Nodes[k] \in set /\ Cardinality(Hostos!Before(k, set)) < count}
            F == [k \in P |-> Nodes[k]]
<1>1. Len(Nodes) \in Nat /\ DOMAIN Nodes = 1..Len(Nodes)
  OBVIOUS
<1>2. P \in SUBSET (1..Len(Nodes)) /\ IsFiniteSet(1..Len(Nodes))
  BY <1>1, FS_Interval
<1>3. IsFiniteSet(P) /\ Cardinality(P) \in Nat
  BY <1>2, FS_Subset, FS_CardinalityType
<1>4. Cardinality(P) <= count
  <2>1. CASE P = {}
    <3>1. Cardinality(P) = Cardinality({})
      BY <2>1
    <3>. HIDE DEF P
    <3>. QED
      BY <3>1, FS_EmptySet
  <2>2. CASE P # {}
    <3>1. Max(P) \in P /\ \A y \in P : y <= Max(P)
      BY <1>1, <1>2, <2>2, MaxType
    <3>2. Cardinality(Hostos!Before(Max(P), set)) < count
      BY <3>1
    <3>3. P \ {Max(P)} \subseteq Hostos!Before(Max(P), set)
      <4>1. ASSUME NEW y \in P, y # Max(P)
            PROVE  y \in Hostos!Before(Max(P), set)
        <5>1. y \in Nat /\ Max(P) \in Nat /\ y <= Max(P)
          BY <1>2, <3>1
        <5>2. y < Max(P)
          BY <4>1, <5>1
        <5>. QED
          BY <5>2 DEF Hostos!Before
      <4>. QED
        BY <4>1
    <3>4. IsFiniteSet(Hostos!Before(Max(P), set))
      <4>1. Hostos!Before(Max(P), set) \subseteq 1..Len(Nodes)
        BY <1>1 DEF Hostos!Before
      <4>. QED
        BY <1>2, <4>1, FS_Subset
    <3>. HIDE DEF P
    <3>5. Cardinality(P \ {Max(P)}) <= Cardinality(Hostos!Before(Max(P), set))
      BY <3>3, <3>4, FS_Subset
    <3>6. Cardinality(P \ {Max(P)}) = Cardinality(P) - 1
      BY <1>3, <3>1, FS_RemoveElement
    <3>7. Cardinality(Hostos!Before(Max(P), set)) \in Nat
      BY <3>4, FS_CardinalityType
    <3>. QED
      BY <1>3, <3>2, <3>5, <3>6, <3>7
  <2>. QED
    BY <2>1, <2>2
<1>5. Hostos!FirstOf(set, count) = {Nodes[k] : k \in P}
  <2>1. \A k \in DOMAIN Nodes : Hostos!Cardinality(Hostos!Before(k, set)) = Cardinality(Hostos!Before(k, set))
    BY HostosCardinality
  <2>. QED
    BY <2>1 DEF Hostos!FirstOf
<1>6. Hostos!FirstOf(set, count) \subseteq set /\ Hostos!FirstOf(set, count) \subseteq Hostos!EveryNode
  BY <1>1, <1>5
<1>. HIDE DEF P
<1>7. F \in Surjection(P, Hostos!FirstOf(set, count))
  BY <1>5 DEF Surjection
<1>8. IsFiniteSet(Hostos!FirstOf(set, count)) /\ Cardinality(Hostos!FirstOf(set, count)) <= Cardinality(P)
  BY <1>3, <1>7, FS_Surjection
<1>9. Cardinality(Hostos!FirstOf(set, count)) \in Nat
  BY <1>8, FS_CardinalityType
<1>. QED
  BY <1>3, <1>4, <1>6, <1>8, <1>9

LEMMA EveryNodeIsFinite ==
    ASSUME Nodes \in Seq(Hostos!EveryNode)
    PROVE  IsFiniteSet(Hostos!EveryNode)
<1>. DEFINE F == [k \in 1..Len(Nodes) |-> Nodes[k]]
<1>1. Len(Nodes) \in Nat /\ DOMAIN Nodes = 1..Len(Nodes)
  OBVIOUS
<1>2. F \in Surjection(1..Len(Nodes), Hostos!EveryNode)
  BY <1>1 DEF Surjection, Hostos!EveryNode, Hostos!ToSet
<1>3. IsFiniteSet(1..Len(Nodes))
  BY <1>1, FS_Interval
<1>. QED
  BY <1>2, <1>3, FS_Surjection

\* A part of a smaller number, rounded down.
LEMMA Share ==
    ASSUME NEW a \in Nat, NEW b \in Nat, a <= b, NEW percent \in Nat,
           NEW c \in Nat, c <= (a * percent) \div 100
    PROVE  100 * c <= percent * b
<1>. DEFINE x == a * percent
<1>1. x \in Nat /\ x <= percent * b
  <2>1. PICK d \in Nat : b = a + d
    <3>1. b - a \in Nat /\ b = a + (b - a)
      OBVIOUS
    <3>. QED
      BY <3>1
  <2>2. percent * b = a * percent + percent * d /\ percent * d \in Nat
    BY <2>1
  <2>. QED
    BY <2>2
<1>2. c <= x \div 100
  OBVIOUS
<1>. HIDE DEF x
<1>3. x \div 100 \in Nat /\ 100 * (x \div 100) <= x
  BY <1>1
<1>4. 100 * c <= x
  BY <1>1, <1>2, <1>3
<1>. QED
  BY <1>1, <1>4

LEMMA ShareGrows ==
    ASSUME NEW c \in Nat, NEW percent \in Nat, NEW b \in Nat, NEW f \in Nat, NEW g \in Nat,
           f <= g, c <= percent * (b + f)
    PROVE  c <= percent * (b + g)
<1>1. PICK d \in Nat : g = f + d
  <2>1. g - f \in Nat /\ g = f + (g - f)
    OBVIOUS
  <2>. QED
    BY <2>1
<1>2. percent * (b + g) = percent * (b + f) + percent * d /\ percent * d \in Nat
  BY <1>1
<1>3. percent * (b + f) \in Nat
  OBVIOUS
<1>. QED
  BY <1>2, <1>3

-----------------------------------------------------------------------------
(* The network: nodes of subnets stay where they are, and subnets get no     *)
(* more nodes than were added.                                               *)

\* Spare nodes that are in a subnet by now.
Moved(homes) == {n \in Hostos!EveryNode : HomeOf[n] = NoSubnet /\ homes[n] \in RolloutSubnet}

\* Nodes that are proposed to be added to one.
Adding == UNION {p.nodes : p \in {q \in inVote : q.kind = "add"}}

Touched == Moved(home) \cup Adding

NetworkInv == /\ home \in [Hostos!EveryNode -> RolloutSubnet \cup {NoSubnet, Hostos!Removed}]
              /\ failures \in Nat
              /\ \A p \in inVote : p.nodes \subseteq Hostos!EveryNode /\ (p.kind = "add" => p.to \in RolloutSubnet)
              /\ \A n \in Hostos!EveryNode : HomeOf[n] \in RolloutSubnet => home[n] = HomeOf[n]
              /\ Cardinality(Touched) <= failures

\* The run under way: what it has read is still so where the run relies on it.
QueryInv == run.pc = "query" =>
              /\ DOMAIN run = {"pc", "request", "registry", "status", "open", "left"}
              /\ run.request \in Requests
              /\ \A n \in Hostos!EveryNode :
                   /\ run.registry.home[n] \in RolloutSubnet => home[n] = run.registry.home[n]
                   /\ HomeOf[n] \in RolloutSubnet => run.registry.home[n] = HomeOf[n]
              /\ "proposals" \notin run.left => \A p \in inVote : p.kind = "hostos" => p \in run.open

ProposeInv == run.pc = "propose" =>
                /\ run.request \in Requests /\ run.nodes \subseteq Hostos!EveryNode
                /\ run.request.kind = "hostos" =>
                     \A p \in inVote : p.kind = "hostos" => p.nodes \cap run.nodes = {}

GroupsInv == NetworkInv /\ QueryInv /\ ProposeInv /\ Hostos!NodeProposedOnce /\ Hostos!SubnetShareIsKept

LEMMA TouchedIsFinite ==
    ASSUME HomesKnown, NetworkInv
    PROVE  IsFiniteSet(Touched) /\ Cardinality(Touched) \in Nat
<1>1. Touched \subseteq Hostos!EveryNode
  BY DEF Touched, Moved, Adding, NetworkInv
<1>. QED
  BY <1>1, EveryNodeIsFinite, FS_Subset, FS_CardinalityType DEF HomesKnown

\* A proposal moves nodes that are spare, and only into the subnet it names.
LEMMA ExecuteMoves ==
    ASSUME HomesKnown, NetworkInv, NEW p \in inVote, Hostos!Execute(p)
    PROVE  /\ NetworkInv' /\ \A n \in Hostos!EveryNode : home[n] \in RolloutSubnet => home'[n] = home[n]
           /\ inVote' \subseteq inVote
<1>1. inVote' = inVote \ {p} /\ failures' = failures
  BY DEF Hostos!Execute
<1>2. \A n \in Hostos!EveryNode :
        home'[n] = IF p.kind = "remove" /\ Hostos!Allowed(p) /\ n \in p.nodes THEN Hostos!Removed
                   ELSE IF p.kind = "add" /\ Hostos!Allowed(p) /\ n \in p.nodes THEN p.to ELSE home[n]
  BY DEF Hostos!Execute
<1>3. home' \in [Hostos!EveryNode -> RolloutSubnet \cup {NoSubnet, Hostos!Removed}]
  <2>1. \A n \in Hostos!EveryNode : home'[n] \in RolloutSubnet \cup {NoSubnet, Hostos!Removed}
    BY <1>2 DEF NetworkInv
  <2>2. home' = [n \in Hostos!EveryNode |-> home'[n]]
    BY DEF Hostos!Execute
  <2>. QED
    BY <2>1, <2>2
<1>4. \A n \in Hostos!EveryNode : home[n] \in RolloutSubnet => home'[n] = home[n]
  BY <1>2 DEF Hostos!Allowed, HomesKnown
<1>5. \A n \in Hostos!EveryNode : HomeOf[n] \in RolloutSubnet => home'[n] = HomeOf[n]
  BY <1>4 DEF NetworkInv
<1>6. Touched' \subseteq Touched
  <2>1. Adding' \subseteq Adding
    BY <1>1 DEF Adding
  <2>2. ASSUME NEW n \in Moved(home)'
        PROVE  n \in Touched
    <3>1. n \in Hostos!EveryNode /\ HomeOf[n] = NoSubnet /\ home'[n] \in RolloutSubnet
      BY <2>2 DEF Moved
    <3>2. CASE home'[n] = home[n]
      BY <3>1, <3>2 DEF Touched, Moved
    <3>3. CASE home'[n] # home[n]
      <4>1. p.kind = "add" /\ n \in p.nodes
        BY <1>2, <3>1, <3>3 DEF HomesKnown
      <4>. QED
        BY <4>1 DEF Touched, Adding
    <3>. QED
      BY <3>2, <3>3
  <2>. QED
    BY <2>1, <2>2 DEF Touched
<1>7. Cardinality(Touched') <= failures
  <2>1. IsFiniteSet(Touched) /\ Cardinality(Touched) <= failures /\ Cardinality(Touched) \in Nat
    BY TouchedIsFinite DEF NetworkInv
  <2>2. IsFiniteSet(Touched') /\ Cardinality(Touched') <= Cardinality(Touched)
    BY <1>6, <2>1, FS_Subset
  <2>3. Cardinality(Touched') \in Nat /\ failures \in Nat
    BY <2>2, FS_CardinalityType DEF NetworkInv
  <2>. QED
    BY <2>1, <2>2, <2>3
<1>. QED
  BY <1>1, <1>3, <1>4, <1>5, <1>7 DEF NetworkInv

LEMMA OneMore ==
    ASSUME NEW A, NEW x, IsFiniteSet(A)
    PROVE  IsFiniteSet(A \cup {x}) /\ Cardinality(A \cup {x}) <= Cardinality(A) + 1
<1>1. Cardinality(A) \in Nat
  BY FS_CardinalityType
<1>2. IsFiniteSet(A \cup {x})
      /\ Cardinality(A \cup {x}) = IF x \in A THEN Cardinality(A) ELSE Cardinality(A) + 1
  BY FS_AddElement
<1>3. CASE x \in A
  BY <1>1, <1>2, <1>3
<1>4. CASE x \notin A
  BY <1>1, <1>2, <1>4
<1>. QED
  BY <1>3, <1>4

LEMMA AddMoves ==
    ASSUME HomesKnown, NetworkInv, NEW n \in Hostos!EveryNode, NEW s \in RolloutSubnet, Hostos!AddToSubnet(n, s)
    PROVE  NetworkInv'
<1>1. /\ inVote' = inVote \cup {[kind |-> "add", nodes |-> {n}, to |-> s]}
      /\ failures' = failures + 1 /\ UNCHANGED home
  BY DEF Hostos!AddToSubnet
<1>2. Touched' \subseteq Touched \cup {n}
  <2>1. Adding' \subseteq Adding \cup {n}
    BY <1>1 DEF Adding
  <2>. QED
    BY <1>1, <2>1 DEF Touched, Moved
<1>3. Cardinality(Touched') <= failures'
  <2>1. IsFiniteSet(Touched) /\ Cardinality(Touched) <= failures /\ Cardinality(Touched) \in Nat
    BY TouchedIsFinite DEF NetworkInv
  <2>2. IsFiniteSet(Touched \cup {n}) /\ Cardinality(Touched \cup {n}) <= Cardinality(Touched) + 1
    BY <2>1, OneMore
  <2>3. IsFiniteSet(Touched') /\ Cardinality(Touched') <= Cardinality(Touched \cup {n})
    BY <1>2, <2>2, FS_Subset
  <2>4. Cardinality(Touched') \in Nat /\ Cardinality(Touched \cup {n}) \in Nat /\ failures \in Nat
    BY <2>2, <2>3, FS_CardinalityType DEF NetworkInv
  <2>. QED
    BY <1>1, <2>1, <2>2, <2>3, <2>4
<1>4. \A p \in inVote' : p.nodes \subseteq Hostos!EveryNode /\ (p.kind = "add" => p.to \in RolloutSubnet)
  BY <1>1 DEF NetworkInv
<1>. QED
  BY <1>1, <1>3, <1>4 DEF NetworkInv

\* A step that leaves the homes and opens no proposal to add nodes.
LEMMA OthersMoveNothing ==
    ASSUME HomesKnown, NetworkInv, UNCHANGED home, failures' \in Nat, failures <= failures',
           \A p \in inVote' : p \in inVote \/ (p.nodes \subseteq Hostos!EveryNode /\ p.kind # "add")
    PROVE  NetworkInv'
<1>1. Touched' \subseteq Touched
  BY DEF Touched, Moved, Adding
<1>2. Cardinality(Touched') <= failures'
  <2>1. IsFiniteSet(Touched) /\ Cardinality(Touched) <= failures /\ Cardinality(Touched) \in Nat
    BY TouchedIsFinite DEF NetworkInv
  <2>2. IsFiniteSet(Touched') /\ Cardinality(Touched') <= Cardinality(Touched)
    BY <1>1, <2>1, FS_Subset
  <2>3. Cardinality(Touched') \in Nat /\ failures \in Nat
    BY <2>2, FS_CardinalityType DEF NetworkInv
  <2>. QED
    BY <2>1, <2>2, <2>3
<1>. QED
  BY <1>2 DEF NetworkInv

\* The nodes of the world: the homes of those in subnets stay.
LEMMA NetworkStep ==
    ASSUME HomesKnown, RequestsKnown, NetworkInv, ProposeInv, [Hostos!Next]_Hostos!vars
    PROVE  /\ NetworkInv' /\ failures <= failures'
           /\ \A n \in Hostos!EveryNode : home[n] \in RolloutSubnet => home'[n] = home[n]
<1>0. failures \in Nat
  BY DEF NetworkInv
<1>1. ASSUME NEW p \in inVote, Hostos!Execute(p)
      PROVE  /\ NetworkInv' /\ failures <= failures'
             /\ \A n \in Hostos!EveryNode : home[n] \in RolloutSubnet => home'[n] = home[n]
  <2>1. failures' = failures
    BY <1>1 DEF Hostos!Execute
  <2>. QED
    BY <1>0, <1>1, <2>1, ExecuteMoves
<1>2. ASSUME NEW n \in Hostos!EveryNode, NEW s \in RolloutSubnet, Hostos!AddToSubnet(n, s)
      PROVE  NetworkInv' /\ failures <= failures' /\ UNCHANGED home
  BY <1>0, <1>2, AddMoves DEF Hostos!AddToSubnet
<1>3. CASE Hostos!Propose
  <2>1. \A p \in inVote' : p \in inVote \/ (p.nodes \subseteq Hostos!EveryNode /\ p.kind # "add")
    <3>1. run.request \in Requests /\ run.nodes \subseteq Hostos!EveryNode
      BY <1>3 DEF Hostos!Propose, ProposeInv
    <3>2. run.request.kind # "add"
      BY <3>1 DEF RequestsKnown
    <3>. QED
      BY <1>3, <3>1, <3>2 DEF Hostos!Propose
  <2>2. failures' = failures /\ UNCHANGED home
    BY <1>3 DEF Hostos!Propose
  <2>. QED
    BY <1>0, <2>1, <2>2, OthersMoveNothing
<1>4. ASSUME NEW p \in inVote, Hostos!Reject(p)
      PROVE  NetworkInv' /\ failures <= failures' /\ UNCHANGED home
  <2>1. failures' = failures + 1 /\ UNCHANGED home /\ \A q \in inVote' : q \in inVote
    BY <1>4 DEF Hostos!Reject
  <2>. QED
    BY <1>0, <2>1, OthersMoveNothing
<1>5. ASSUME NEW n \in Hostos!EveryNode, Hostos!Break(n)
      PROVE  NetworkInv' /\ failures <= failures' /\ UNCHANGED home
  <2>1. failures' = failures + 1 /\ UNCHANGED <<home, inVote>>
    BY <1>5 DEF Hostos!Break
  <2>. QED
    BY <1>0, <2>1, OthersMoveNothing
<1>6. ASSUME UNCHANGED <<home, inVote, failures>>
      PROVE  NetworkInv' /\ failures <= failures' /\ UNCHANGED home
  BY <1>0, <1>6, OthersMoveNothing
<1>7. ASSUME \/ \E wanted \in Requests : Hostos!Start(wanted)
             \/ Hostos!ReadHealth \/ Hostos!ReadProposals \/ Hostos!Select
             \/ \E n \in Hostos!EveryNode : Hostos!Recover(n)
             \/ UNCHANGED Hostos!vars
      PROVE  UNCHANGED <<home, inVote, failures>>
  BY <1>7 DEF Hostos!Start, Hostos!ReadHealth, Hostos!ReadProposals, Hostos!Select, Hostos!Recover, Hostos!vars
<1>. QED
  BY <1>1, <1>2, <1>3, <1>4, <1>5, <1>6, <1>7 DEF Hostos!Next, Hostos!Step

-----------------------------------------------------------------------------
(* The selection. *)

\* The nodes that the run saw in a subnet are its own, or were added.
LEMMA SeenInSubnet ==
    ASSUME HomesKnown, NetworkInv, QueryInv, run.pc = "query", NEW s \in RolloutSubnet,
           NEW seen, seen = {n \in Hostos!Listed(run.registry) : run.registry.home[n] = s}
    PROVE  /\ IsFiniteSet(seen) /\ IsFiniteSet(Own(s))
           /\ Cardinality(seen) \in Nat /\ Cardinality(Own(s)) \in Nat
           /\ Cardinality(seen) <= Cardinality(Own(s)) + failures
<1>1. IsFiniteSet(Hostos!EveryNode)
  BY EveryNodeIsFinite DEF HomesKnown
<1>2. seen \subseteq Hostos!EveryNode /\ Own(s) \subseteq Hostos!EveryNode
  BY DEF Hostos!Listed, Own
<1>3. IsFiniteSet(seen) /\ IsFiniteSet(Own(s)) /\ Cardinality(seen) \in Nat /\ Cardinality(Own(s)) \in Nat
  BY <1>1, <1>2, FS_Subset, FS_CardinalityType
<1>4. seen \subseteq Own(s) \cup Touched
  <2>1. ASSUME NEW n \in seen
        PROVE  n \in Own(s) \cup Touched
    <3>1. n \in Hostos!EveryNode /\ run.registry.home[n] = s /\ home[n] = s
      BY <2>1 DEF Hostos!Listed, QueryInv
    <3>2. CASE HomeOf[n] = NoSubnet
      BY <3>1, <3>2 DEF Touched, Moved
    <3>3. CASE HomeOf[n] \in RolloutSubnet
      BY <3>1, <3>3 DEF Own, NetworkInv
    <3>. QED
      BY <3>1, <3>2, <3>3 DEF HomesKnown
  <2>. QED
    BY <2>1
<1>5. IsFiniteSet(Touched) /\ Cardinality(Touched) \in Nat /\ Cardinality(Touched) <= failures /\ failures \in Nat
  BY TouchedIsFinite DEF NetworkInv
<1>6. /\ IsFiniteSet(Own(s) \cup Touched)
      /\ Cardinality(Own(s) \cup Touched) <= Cardinality(Own(s)) + Cardinality(Touched)
  <2>1. /\ IsFiniteSet(Own(s) \cup Touched) /\ IsFiniteSet(Own(s) \cap Touched)
        /\ Cardinality(Own(s) \cup Touched) =
             Cardinality(Own(s)) + Cardinality(Touched) - Cardinality(Own(s) \cap Touched)
    <3>1. IsFiniteSet(Own(s) \cap Touched)
      BY <1>3, FS_Subset
    <3>. QED
      BY <1>3, <1>5, <3>1, FS_Union
  <2>2. Cardinality(Own(s) \cap Touched) \in Nat
    BY <2>1, FS_CardinalityType
  <2>. QED
    BY <1>3, <1>5, <2>1, <2>2
<1>7. Cardinality(seen) <= Cardinality(Own(s) \cup Touched) /\ Cardinality(Own(s) \cup Touched) \in Nat
  BY <1>4, <1>6, FS_Subset, FS_CardinalityType
<1>. QED
  BY <1>3, <1>5, <1>6, <1>7

LEMMA FirstIn ==
    ASSUME NEW set, NEW count
    PROVE  Hostos!FirstOf(set, count) \subseteq set /\ Hostos!FirstOf(set, count) \subseteq Hostos!EveryNode
<1>1. Hostos!EveryNode = {Nodes[k] : k \in DOMAIN Nodes}
  BY DEF Hostos!EveryNode, Hostos!ToSet
<1>. QED
  BY <1>1 DEF Hostos!FirstOf

\* A run selects candidates, of one of the assignments.
LEMMA SelectedIsOfAnAssignment ==
    ASSUME NEW r, NEW n \in Hostos!Selected(r)
    PROVE  \E a : n \in Hostos!SelectedIn(r, a)
  BY DEF Hostos!Selected

LEMMA SelectedFromSubnets ==
    ASSUME NEW r, NEW candidates, NEW n \in Hostos!FromSubnets(r, candidates)
    PROVE  \E s \in RolloutSubnet :
             LET of == {m \in Hostos!Listed(r.registry) : r.registry.home[m] = s}
             IN  n \in Hostos!FirstOf(candidates \cap of, Hostos!NodesToTake(r.request, Hostos!Cardinality(of)))
  BY DEF Hostos!FromSubnets

LEMMA SelectedAreCandidates ==
    ASSUME NEW r
    PROVE  /\ Hostos!Selected(r) \subseteq Hostos!EveryNode
           /\ \A n \in Hostos!Selected(r) : \A p \in r.open : p.kind = "hostos" => n \notin p.nodes
<1>1. ASSUME NEW n \in Hostos!Selected(r)
      PROVE  n \in Hostos!EveryNode /\ \A p \in r.open : p.kind = "hostos" => n \notin p.nodes
  <2>1. PICK a : n \in Hostos!SelectedIn(r, a)
    BY SelectedIsOfAnAssignment
  <2>. DEFINE group == Hostos!InGroup(r.registry, a, r.request.owner)
              candidates == Hostos!Candidates(r, group)
  <2>2. Hostos!SelectedIn(r, a) = IF a = "Assigned" THEN Hostos!FromSubnets(r, candidates)
                                  ELSE Hostos!FirstOf(candidates, Hostos!NodesToTake(r.request, Hostos!Cardinality(group)))
    BY DEF Hostos!SelectedIn
  <2>3. candidates \subseteq Hostos!EveryNode
    BY DEF Hostos!Candidates, Hostos!InGroup, Hostos!Listed
  <2>4. \A m \in candidates : \A p \in r.open : p.kind = "hostos" => m \notin p.nodes
    BY DEF Hostos!Candidates
  <2>. HIDE DEF candidates, group
  <2>5. n \in candidates
    <3>1. CASE a = "Assigned"
      <4>1. PICK s \in RolloutSubnet :
              LET of == {m \in Hostos!Listed(r.registry) : r.registry.home[m] = s}
              IN  n \in Hostos!FirstOf(candidates \cap of, Hostos!NodesToTake(r.request, Hostos!Cardinality(of)))
        BY <2>1, <2>2, <3>1, SelectedFromSubnets
      <4>. QED
        BY <4>1, FirstIn
    <3>2. CASE a # "Assigned"
      BY <2>1, <2>2, <3>2, FirstIn
    <3>. QED
      BY <3>1, <3>2
  <2>. QED
    BY <2>3, <2>4, <2>5
<1>. QED
  BY <1>1

\* Of the own nodes of a subnet a run selects no more than its share.
LEMMA SelectedShare ==
    ASSUME HomesKnown, RequestsKnown, NetworkInv, QueryInv, run.pc = "query",
           run.request.kind = "hostos", run.request.percent, NEW s \in RolloutSubnet
    PROVE  100 * Cardinality(Hostos!Selected(run) \cap Own(s))
             <= run.request.number * (Cardinality(Own(s)) + failures)
<1>. DEFINE seen == {n \in Hostos!Listed(run.registry) : run.registry.home[n] = s}
            count == (Cardinality(seen) * run.request.number) \div 100
            candidates == Hostos!Candidates(run, Hostos!InGroup(run.registry, "Assigned", run.request.owner))
            few == Hostos!FirstOf(candidates \cap seen, count)
<1>1. run.request.number \in Nat
  BY DEF RequestsKnown, QueryInv
<1>2. /\ IsFiniteSet(Own(s)) /\ Cardinality(seen) \in Nat /\ Cardinality(Own(s)) \in Nat
      /\ Cardinality(seen) <= Cardinality(Own(s)) + failures /\ failures \in Nat
  BY SeenInSubnet DEF NetworkInv
<1>3. Hostos!Selected(run) \cap Own(s) \subseteq few
  <2>1. ASSUME NEW n \in Hostos!Selected(run), n \in Own(s)
        PROVE  n \in few
    <3>1. n \in Hostos!EveryNode /\ HomeOf[n] = s /\ run.registry.home[n] = s
      BY <2>1 DEF Own, QueryInv
    <3>2. PICK a : n \in Hostos!SelectedIn(run, a)
      BY <2>1, SelectedIsOfAnAssignment
    <3>3. CASE a = "Assigned"
      <4>1. n \in Hostos!FromSubnets(run, candidates)
        BY <3>2, <3>3 DEF Hostos!SelectedIn
      <4>. HIDE DEF candidates
      <4>2. PICK t \in RolloutSubnet :
              LET of == {m \in Hostos!Listed(run.registry) : run.registry.home[m] = t}
              IN  n \in Hostos!FirstOf(candidates \cap of, Hostos!NodesToTake(run.request, Hostos!Cardinality(of)))
        BY <4>1, SelectedFromSubnets
      <4>3. t = s
        <5>1. n \in {m \in Hostos!Listed(run.registry) : run.registry.home[m] = t}
          BY <4>2, FirstIn
        <5>. QED
          BY <3>1, <5>1
      <4>4. n \in Hostos!FirstOf(candidates \cap seen, Hostos!NodesToTake(run.request, Cardinality(seen)))
        <5>1. Hostos!Cardinality(seen) = Cardinality(seen)
          BY HostosCardinality
        <5>. QED
          BY <4>2, <4>3, <5>1
      <4>5. Hostos!NodesToTake(run.request, Cardinality(seen)) = count
        BY DEF Hostos!NodesToTake
      <4>. QED
        BY <4>4, <4>5
    <3>4. CASE a # "Assigned"
      <4>1. n \in Hostos!InGroup(run.registry, a, run.request.owner)
        <5>. DEFINE group == Hostos!InGroup(run.registry, a, run.request.owner)
        <5>1. n \in Hostos!FirstOf(Hostos!Candidates(run, group), Hostos!NodesToTake(run.request, Hostos!Cardinality(group)))
          BY <3>2, <3>4 DEF Hostos!SelectedIn
        <5>2. n \in Hostos!Candidates(run, group)
          BY <5>1, FirstIn
        <5>. QED
          BY <5>2 DEF Hostos!Candidates
      <4>2. Hostos!GroupOf(run.registry, n).assignment = a
        BY <4>1 DEF Hostos!InGroup
      <4>3. Hostos!GroupOf(run.registry, n).assignment = "Assigned"
        BY <3>1 DEF Hostos!GroupOf, HomesKnown
      <4>. QED
        BY <3>4, <4>2, <4>3
    <3>. QED
      BY <3>3, <3>4
  <2>. QED
    BY <2>1
<1>4. count \in Nat
  <2>. HIDE DEF seen
  <2>. DEFINE x == Cardinality(seen) * run.request.number
  <2>1. x \in Nat
    BY <1>1, <1>2
  <2>. HIDE DEF x
  <2>2. x \div 100 \in Nat
    BY <2>1
  <2>. QED
    BY <2>2 DEF x
<1>. HIDE DEF candidates, seen
<1>5. IsFiniteSet(few) /\ Cardinality(few) <= count
  <2>. HIDE DEF count
  <2>. QED
    BY <1>4, FirstFew DEF HomesKnown
<1>. HIDE DEF few
<1>6. Cardinality(Hostos!Selected(run) \cap Own(s)) <= Cardinality(few) /\ Cardinality(few) \in Nat
      /\ Cardinality(Hostos!Selected(run) \cap Own(s)) \in Nat
  BY <1>3, <1>5, FS_Subset, FS_CardinalityType
<1>7. Cardinality(Hostos!Selected(run) \cap Own(s)) <= count
  <2>. HIDE DEF count
  <2>. QED
    BY <1>4, <1>5, <1>6
<1>. DEFINE b == Cardinality(Own(s)) + failures
            c == Cardinality(Hostos!Selected(run) \cap Own(s))
            a == Cardinality(seen)
<1>8. a \in Nat /\ b \in Nat /\ a <= b /\ c \in Nat /\ c <= (a * run.request.number) \div 100
  BY <1>2, <1>6, <1>7
<1>9. 100 * c <= run.request.number * b
  <2>. HIDE DEF a, b, c
  <2>. QED
    BY <1>1, <1>8, Share
<1>. QED
  BY <1>9

-----------------------------------------------------------------------------
(* The steps. *)

\* Only the tool proposes HostOS rollouts.
LEMMA OnlyTheToolProposes ==
    ASSUME [Hostos!Next]_Hostos!vars, ~Hostos!Propose, NEW p \in inVote', p.kind = "hostos"
    PROVE  p \in inVote
<1>1. ASSUME NEW q \in inVote, Hostos!Execute(q) \/ Hostos!Reject(q)
      PROVE  p \in inVote
  BY <1>1 DEF Hostos!Execute, Hostos!Reject
<1>2. ASSUME NEW n \in Hostos!EveryNode, NEW s \in RolloutSubnet, Hostos!AddToSubnet(n, s)
      PROVE  p \in inVote
  BY <1>2 DEF Hostos!AddToSubnet
<1>3. ASSUME \/ \E wanted \in Requests : Hostos!Start(wanted)
             \/ Hostos!ReadHealth \/ Hostos!ReadProposals \/ Hostos!Select
             \/ \E n \in Hostos!EveryNode : Hostos!Break(n) \/ Hostos!Recover(n)
             \/ UNCHANGED Hostos!vars
      PROVE  p \in inVote
  BY <1>3 DEF Hostos!Start, Hostos!ReadHealth, Hostos!ReadProposals, Hostos!Select, Hostos!Break, Hostos!Recover, Hostos!vars
<1>. QED
  BY <1>1, <1>2, <1>3 DEF Hostos!Next, Hostos!Step

LEMMA OnlyTheToolGoesOn ==
    ASSUME [Hostos!Next]_Hostos!vars
    PROVE  \/ \E wanted \in Requests : Hostos!Start(wanted)
           \/ Hostos!ReadHealth \/ Hostos!ReadProposals \/ Hostos!Select \/ Hostos!Propose
           \/ UNCHANGED run
<1>1. ASSUME \/ \E p \in inVote : Hostos!Execute(p) \/ Hostos!Reject(p)
             \/ \E n \in Hostos!EveryNode : Hostos!Break(n) \/ Hostos!Recover(n) \/ \E s \in RolloutSubnet : Hostos!AddToSubnet(n, s)
             \/ UNCHANGED Hostos!vars
      PROVE  UNCHANGED run
  BY <1>1 DEF Hostos!Execute, Hostos!Reject, Hostos!Break, Hostos!Recover, Hostos!AddToSubnet, Hostos!vars
<1>. QED
  BY <1>1 DEF Hostos!Next, Hostos!Step

LEMMA QueryStep ==
    ASSUME HomesKnown, NetworkInv, QueryInv, [Hostos!Next]_Hostos!vars,
           \A n \in Hostos!EveryNode : home[n] \in RolloutSubnet => home'[n] = home[n]
    PROVE  QueryInv'
<1>1. ASSUME NEW wanted \in Requests, Hostos!Start(wanted)
      PROVE  QueryInv'
  <2>1. run' = [pc |-> "query", request |-> wanted, registry |-> [home |-> home, version |-> version],
                status |-> [n \in Hostos!EveryNode |-> "Unknown"], open |-> {}, left |-> {"health", "proposals"}]
        /\ UNCHANGED home
    BY <1>1 DEF Hostos!Start
  <2>2. /\ DOMAIN run' = {"pc", "request", "registry", "status", "open", "left"}
        /\ run'.request = wanted /\ run'.registry.home = home /\ "proposals" \in run'.left
    BY <2>1
  <2>. QED
    BY <2>1, <2>2 DEF QueryInv, NetworkInv
<1>2. CASE Hostos!ReadHealth \/ Hostos!ReadProposals
  <2>1. /\ run.pc = "query" /\ DOMAIN run = {"pc", "request", "registry", "status", "open", "left"}
        /\ UNCHANGED <<home, inVote>>
    BY <1>2 DEF Hostos!ReadHealth, Hostos!ReadProposals, QueryInv
  <2>2. CASE Hostos!ReadHealth
    <3>1. run' = [run EXCEPT !.status = status, !.left = run.left \ {"health"}]
      BY <2>2 DEF Hostos!ReadHealth
    <3>2. /\ DOMAIN run' = DOMAIN run /\ run'.request = run.request /\ run'.registry = run.registry
          /\ run'.open = run.open /\ run'.left = run.left \ {"health"}
      BY <2>1, <3>1
    <3>. QED
      BY <2>1, <3>2 DEF QueryInv
  <2>3. CASE Hostos!ReadProposals
    <3>1. run' = [run EXCEPT !.open = inVote, !.left = run.left \ {"proposals"}]
      BY <2>3 DEF Hostos!ReadProposals
    <3>2. /\ DOMAIN run' = DOMAIN run /\ run'.request = run.request /\ run'.registry = run.registry
          /\ run'.open = inVote
      BY <2>1, <3>1
    <3>. QED
      BY <2>1, <3>2 DEF QueryInv
  <2>. QED
    BY <1>2, <2>2, <2>3
<1>3. CASE Hostos!Select \/ Hostos!Propose
  <2>1. run'.pc # "query"
    BY <1>3 DEF Hostos!Select, Hostos!Propose, Hostos!Idle
  <2>. QED
    BY <2>1 DEF QueryInv
<1>4. CASE UNCHANGED run /\ ~Hostos!Propose
  <2>1. \A p \in inVote' : p.kind = "hostos" => p \in inVote
    BY <1>4, OnlyTheToolProposes
  <2>. QED
    BY <1>4, <2>1 DEF QueryInv
<1>. QED
  BY <1>1, <1>2, <1>3, <1>4, OnlyTheToolGoesOn

LEMMA ProposeStep ==
    ASSUME QueryInv, ProposeInv, [Hostos!Next]_Hostos!vars
    PROVE  ProposeInv'
<1>1. CASE Hostos!Select
  <2>1. run.pc = "query" /\ run.left = {} /\ UNCHANGED inVote
    BY <1>1 DEF Hostos!Select
  <2>. DEFINE selection == IF run.request.kind = "remove" THEN Hostos!ToRemove(run) ELSE Hostos!Selected(run)
  <2>2. run' = IF run.request.kind = "hostos" /\ Hostos!NothingFound(run) THEN Hostos!Idle
               ELSE [pc |-> "propose", request |-> run.request, nodes |-> selection]
    BY <1>1 DEF Hostos!Select
  <2>3. selection \subseteq Hostos!EveryNode
    BY SelectedAreCandidates DEF Hostos!ToRemove, Hostos!Listed
  <2>4. ASSUME run.request.kind = "hostos", NEW p \in inVote, p.kind = "hostos"
        PROVE  p.nodes \cap selection = {}
    <3>1. p \in run.open
      BY <2>1, <2>4 DEF QueryInv
    <3>. QED
      BY <2>4, <3>1, SelectedAreCandidates
  <2>5. run.request \in Requests
    BY <2>1 DEF QueryInv
  <2>. HIDE DEF selection
  <2>6. CASE run' = Hostos!Idle
    BY <2>6 DEF Hostos!Idle, ProposeInv
  <2>7. CASE run' = [pc |-> "propose", request |-> run.request, nodes |-> selection]
    <3>1. run'.request = run.request /\ run'.nodes = selection
      BY <2>7
    <3>. QED
      BY <2>1, <2>3, <2>4, <2>5, <3>1 DEF ProposeInv
  <2>. QED
    BY <2>2, <2>6, <2>7
<1>2. CASE Hostos!Propose \/ Hostos!ReadHealth \/ Hostos!ReadProposals \/ \E wanted \in Requests : Hostos!Start(wanted)
  <2>1. CASE Hostos!ReadHealth \/ Hostos!ReadProposals
    <3>1. run'.pc = run.pc
      BY <2>1 DEF Hostos!ReadHealth, Hostos!ReadProposals, QueryInv
    <3>. QED
      BY <2>1, <3>1 DEF Hostos!ReadHealth, Hostos!ReadProposals, ProposeInv
  <2>2. CASE Hostos!Propose \/ \E wanted \in Requests : Hostos!Start(wanted)
    <3>1. run'.pc # "propose"
      BY <2>2 DEF Hostos!Propose, Hostos!Start, Hostos!Idle
    <3>. QED
      BY <3>1 DEF ProposeInv
  <2>. QED
    BY <1>2, <2>1, <2>2
<1>3. CASE UNCHANGED run /\ ~Hostos!Propose
  <2>1. \A p \in inVote' : p.kind = "hostos" => p \in inVote
    BY <1>3, OnlyTheToolProposes
  <2>. QED
    BY <1>3, <2>1 DEF ProposeInv
<1>. QED
  BY <1>1, <1>2, <1>3, OnlyTheToolGoesOn

LEMMA ProposedOnceStep ==
    ASSUME ProposeInv, Hostos!NodeProposedOnce, [Hostos!Next]_Hostos!vars
    PROVE  Hostos!NodeProposedOnce'
<1>1. CASE Hostos!Propose
  <2>1. run.pc = "propose" /\ inVote' = inVote \cup {[kind |-> run.request.kind, nodes |-> run.nodes]}
    BY <1>1 DEF Hostos!Propose
  <2>2. run.request.kind = "hostos" => \A p \in inVote : p.kind = "hostos" => p.nodes \cap run.nodes = {}
    BY <2>1 DEF ProposeInv
  <2>. DEFINE new == [kind |-> run.request.kind, nodes |-> run.nodes]
  <2>3. new.kind = run.request.kind /\ new.nodes = run.nodes /\ inVote' = inVote \cup {new}
    BY <2>1
  <2>. HIDE DEF new
  <2>. QED
    BY <2>2, <2>3 DEF Hostos!NodeProposedOnce
<1>2. CASE ~Hostos!Propose
  BY <1>2, OnlyTheToolProposes DEF Hostos!NodeProposedOnce
<1>. QED
  BY <1>1, <1>2

LEMMA ShareStep ==
    ASSUME HomesKnown, RequestsKnown, NetworkInv, QueryInv, ProposeInv, Hostos!SubnetShareIsKept, [Hostos!Next]_Hostos!vars,
           failures \in Nat, failures' \in Nat, failures <= failures'
    PROVE  Hostos!SubnetShareIsKept'
<1>1. SUFFICES ASSUME run'.pc = "propose", run'.request.kind = "hostos", run'.request.percent,
                      NEW s \in RolloutSubnet
               PROVE  100 * Cardinality(run'.nodes \cap Own(s))
                        <= run'.request.number * (Cardinality(Own(s)) + failures')
  <2>1. \A s \in RolloutSubnet : /\ Hostos!Cardinality(run'.nodes \cap Own(s)) = Cardinality(run'.nodes \cap Own(s))
                                 /\ Hostos!Cardinality(Own(s)) = Cardinality(Own(s))
    BY HostosCardinality
  <2>. QED
    BY <2>1 DEF Hostos!SubnetShareIsKept, Own
<1>2. CASE Hostos!Select
  <2>1. run.pc = "query" /\ failures' = failures
    BY <1>2 DEF Hostos!Select
  <2>2. run' = [pc |-> "propose", request |-> run.request,
                nodes |-> IF run.request.kind = "remove" THEN Hostos!ToRemove(run) ELSE Hostos!Selected(run)]
    BY <1>1, <1>2 DEF Hostos!Select, Hostos!Idle
  <2>3. run'.request = run.request /\ (run.request.kind = "hostos" => run'.nodes = Hostos!Selected(run))
    BY <2>2
  <2>. QED
    BY <1>1, <2>1, <2>3, SelectedShare
<1>3. CASE UNCHANGED run
  <2>. DEFINE c == 100 * Cardinality(run.nodes \cap Own(s))
              b == Cardinality(Own(s))
  <2>1. c <= run.request.number * (b + failures)
    <3>1. /\ Hostos!Cardinality(run.nodes \cap Own(s)) = Cardinality(run.nodes \cap Own(s))
          /\ Hostos!Cardinality(Own(s)) = Cardinality(Own(s))
      BY HostosCardinality
    <3>. QED
      BY <1>1, <1>3, <3>1 DEF Hostos!SubnetShareIsKept, Own
  <2>2. run.request \in Requests /\ run.nodes \subseteq Hostos!EveryNode
    BY <1>1, <1>3 DEF ProposeInv
  <2>3. run.request.number \in Nat
    BY <1>1, <1>3, <2>2 DEF RequestsKnown
  <2>4. IsFiniteSet(Own(s)) /\ IsFiniteSet(run.nodes \cap Own(s))
    <3>1. Own(s) \subseteq Hostos!EveryNode /\ run.nodes \cap Own(s) \subseteq Hostos!EveryNode
      BY DEF Own
    <3>. QED
      BY <3>1, EveryNodeIsFinite, FS_Subset DEF HomesKnown
  <2>5. b \in Nat /\ Cardinality(run.nodes \cap Own(s)) \in Nat
    BY <2>4, FS_CardinalityType
  <2>6. c \in Nat
    BY <2>5
  <2>7. c <= run.request.number * (b + failures')
    <3>. HIDE DEF b, c
    <3>. QED
      BY <2>1, <2>3, <2>5, <2>6, ShareGrows
  <2>. QED
    BY <1>3, <2>7
<1>4. CASE Hostos!ReadHealth \/ Hostos!ReadProposals
  <2>1. run'.pc = "query"
    BY <1>4 DEF Hostos!ReadHealth, Hostos!ReadProposals, QueryInv
  <2>. QED
    BY <1>1, <2>1
<1>5. CASE Hostos!Propose \/ \E wanted \in Requests : Hostos!Start(wanted)
  <2>1. run'.pc # "propose"
    BY <1>5 DEF Hostos!Propose, Hostos!Start, Hostos!Idle
  <2>. QED
    BY <1>1, <2>1
<1>. QED
  BY <1>2, <1>3, <1>4, <1>5, OnlyTheToolGoesOn

-----------------------------------------------------------------------------
\* What the groups rely on holds, whatever is voted, added or broken.
LEMMA GroupsHold ==
    ASSUME HomesKnown, RequestsKnown
    PROVE  Hostos!Spec => []GroupsInv
<1>1. Hostos!Init => GroupsInv
  <2>. SUFFICES ASSUME Hostos!Init
                PROVE  GroupsInv
    OBVIOUS
  <2>1. run.pc = "idle" /\ inVote = {} /\ failures = 0 /\ home = HomeOf
    BY DEF Hostos!Init, Hostos!Idle
  <2>2. NetworkInv
    <3>1. Moved(home) = {}
      BY <2>1 DEF Moved, HomesKnown
    <3>2. Adding = {}
      BY <2>1 DEF Adding
    <3>3. Touched = {}
      BY <3>1, <3>2 DEF Touched
    <3>4. Cardinality(Touched) = Cardinality({})
      BY <3>3
    <3>5. Cardinality(Touched) = 0
      BY <3>4, FS_EmptySet
    <3>6. home \in [Hostos!EveryNode -> RolloutSubnet \cup {NoSubnet, Hostos!Removed}]
      BY <2>1 DEF HomesKnown
    <3>. QED
      BY <2>1, <3>5, <3>6 DEF NetworkInv
  <2>. QED
    BY <2>1, <2>2 DEF GroupsInv, QueryInv, ProposeInv, Hostos!NodeProposedOnce, Hostos!SubnetShareIsKept
<1>2. GroupsInv /\ [Hostos!Next]_Hostos!vars => GroupsInv'
  <2>. SUFFICES ASSUME GroupsInv, [Hostos!Next]_Hostos!vars
                PROVE  GroupsInv'
    OBVIOUS
  <2>1. NetworkInv /\ QueryInv /\ ProposeInv /\ Hostos!NodeProposedOnce /\ Hostos!SubnetShareIsKept
    BY DEF GroupsInv
  <2>2. /\ NetworkInv' /\ failures <= failures'
        /\ \A n \in Hostos!EveryNode : home[n] \in RolloutSubnet => home'[n] = home[n]
    BY <2>1, NetworkStep
  <2>3. QueryInv'
    BY <2>1, <2>2, QueryStep
  <2>4. ProposeInv'
    BY <2>1, ProposeStep
  <2>5. Hostos!NodeProposedOnce'
    BY <2>1, ProposedOnceStep
  <2>6. failures \in Nat /\ failures' \in Nat
    BY <2>1, <2>2 DEF NetworkInv
  <2>7. Hostos!SubnetShareIsKept'
    BY <2>1, <2>2, <2>6, ShareStep
  <2>. QED
    BY <2>2, <2>3, <2>4, <2>5, <2>7 DEF GroupsInv
<1>. QED
  BY <1>1, <1>2, PTL DEF Hostos!Spec

\* No node is in two open HostOS proposals, and no proposal takes more of a subnet
\* than the percentage asked for, whatever is voted, added or broken between what a
\* run reads and what it proposes (hostos_rollout.rs:138-143, 213-284).
THEOREM GroupsStaySound ==
    ASSUME HomesKnown, RequestsKnown
    PROVE  Hostos!Spec => []Hostos!GroupsAreSound
<1>1. Hostos!Spec => []GroupsInv
  BY GroupsHold
<1>2. GroupsInv => Hostos!GroupsAreSound
  BY DEF GroupsInv, Hostos!GroupsAreSound
<1>. QED
  BY <1>1, <1>2, PTL

-----------------------------------------------------------------------------
(* Changes of subnets: sizes, limits and the spare nodes of a heal request,  *)
(* whatever the scores and penalties make of the candidates.                 *)

TopologyInv == /\ members \in [Subnet -> SUBSET Node] /\ available \subseteq Node
               /\ \A s \in Subnet : members[s] \cap available = {}

\* The requests that are not to change the size of a subnet.
KeepsSize(r) == \/ r.kind = "heal" \/ r.kind = "rescue"
                \/ r.kind = "replace" /\ r.filter.include \cap available = {}

\* How many nodes a heal request takes, and the unhealthy ones that stay.
LimitKept(r, s, old, new, toRemove) ==
    LET left == new \cap Plans!Unhealthy(s, r.unhealthy)
    IN  IF r.limit = NoLimit THEN left = {}
        ELSE /\ Cardinality(old \ new) + toRemove <= r.limit
             /\ left # {} => toRemove = 0 /\ Cardinality(old \ new) = r.limit

\* A change under way: nodes that were replaced are gone for good, those to be added are others.
Underway(r, c) ==
    /\ c.old \subseteq Node /\ c.nodes \subseteq Node /\ c.pool \subseteq available
    /\ c.pool \cap c.old = {} /\ c.pool \cap c.nodes = {}
    /\ c.toAdd \in Nat /\ c.toRemove \in Nat
    /\ KeepsSize(r) => Cardinality(c.nodes) + c.toAdd = Cardinality(c.old) + c.toRemove
    /\ r.kind = "replace" => r.replaced \subseteq c.old \ c.nodes
    /\ r.kind = "heal" => /\ c.subnet \in Subnet /\ c.pool \subseteq spare /\ c.nodes \ c.old \subseteq spare
                          /\ r.limit \in Nat \cup {NoLimit}
                          /\ LimitKept(r, c.subnet, c.old, c.nodes, c.toRemove)

\* A change that is ready.
Finished(r, c) ==
    /\ c.old \subseteq Node
    /\ KeepsSize(r) => Cardinality(c.new) = Cardinality(c.old)
    /\ r.kind = "replace" => r.replaced \subseteq c.old \ c.new
    /\ r.kind = "heal" => /\ c.new \ c.old \subseteq available /\ (c.new \ c.old) \cap spare = {}
                          /\ r.limit \in Nat \cup {NoLimit}
                          /\ LimitKept(r, c.subnet, c.old, c.new, 0)

RequestInv == /\ spare \subseteq available /\ queue \in Seq(Subnet)
              /\ Plans!Ready => ~change.active /\ changes = {}
              /\ request.kind = "heal" => request.limit \in 1..MaxCount \cup {NoLimit}

ChangeInv ==
    /\ change = [active |-> change.active, subnet |-> change.subnet, old |-> change.old, nodes |-> change.nodes,
                 pool |-> change.pool, toAdd |-> change.toAdd, toRemove |-> change.toRemove, min |-> change.min]
    /\ change.active \in BOOLEAN
    /\ change.active => Underway(request, change)

DoneInv == /\ \A c \in changes : Finished(request, c)
           /\ request.kind = "heal" => \A c, d \in changes : c # d => (c.new \ c.old) \cap (d.new \ d.old) = {}

SizesInv == TopologyInv /\ RequestInv /\ ChangeInv /\ DoneInv

LEMMA SameCount ==
    ASSUME NEW S
    PROVE  Plans!Cardinality(S) = Cardinality(S)
  BY DEF Plans!Cardinality, Cardinality

\* The best option is one of the options.
LEMMA BestIsOption ==
    ASSUME NEW s, NEW min, NEW options, NEW a \in Plans!Best(s, min, options)
    PROVE  a \in options
<1>. DEFINE candidates == {[nodes |-> b, penalty |-> Plans!Penalty(s, b, min), score |-> Plans!Score[b]] : b \in options}
            least == Plans!Min({c.penalty : c \in candidates})
            cheap == {c \in candidates : c.penalty = least}
<1>1. a \in {c.nodes : c \in {d \in cheap : \A e \in cheap : Plans!CompareScores(d.score, e.score) >= 0}}
  BY DEF Plans!Best
<1>2. \A c \in candidates : c.nodes \in options
  OBVIOUS
<1>. HIDE DEF candidates, least
<1>. QED
  BY <1>1, <1>2

\* A subset of the nodes, with one more and one fewer.
LEMMA OneNode ==
    ASSUME TopologiesKnown, NEW S, S \subseteq Node, NEW n \in Node
    PROVE  /\ IsFiniteSet(S) /\ Cardinality(S) \in Nat
           /\ n \notin S => Cardinality(S \cup {n}) = Cardinality(S) + 1
           /\ n \in S => Cardinality(S \ {n}) = Cardinality(S) - 1
<1>1. IsFiniteSet(S)
  BY FS_Subset DEF TopologiesKnown
<1>. QED
  BY <1>1, FS_CardinalityType, FS_AddElement, FS_RemoveElement

\* The record of a request.
IsRequest(r) == r = [subnet |-> r.subnet, old |-> r.old, nodes |-> r.nodes, available |-> r.available,
                     include |-> r.include, min |-> r.min]

LEMMA Excluding ==
    ASSUME NEW r, IsRequest(r), NEW set, NEW w, w = Plans!ExcludingFromAvailable(r, set)
    PROVE  /\ IsRequest(w) /\ w.subnet = r.subnet /\ w.old = r.old /\ w.nodes = r.nodes
           /\ w.available = r.available \ set /\ w.include = r.include
  BY DEF IsRequest, Plans!ExcludingFromAvailable

LEMMA Including ==
    ASSUME NEW r, IsRequest(r), NEW set, NEW w, w = Plans!IncludingFromAvailable(r, set)
    PROVE  /\ IsRequest(w) /\ w.subnet = r.subnet /\ w.old = r.old /\ w.nodes = r.nodes
           /\ w.available = r.available /\ w.include = r.available \cap set
  BY DEF IsRequest, Plans!IncludingFromAvailable

LEMMA AskingFor ==
    ASSUME NEW r, IsRequest(r), NEW min, NEW w, w = Plans!WithMin(r, min)
    PROVE  /\ IsRequest(w) /\ w.subnet = r.subnet /\ w.old = r.old /\ w.nodes = r.nodes
           /\ w.available = r.available /\ w.include = r.include /\ w.min = min
  BY DEF IsRequest, Plans!WithMin

LEMMA Without ==
    ASSUME NEW r, IsRequest(r), NEW set, NEW w, w = Plans!WithoutNodes(r, set)
    PROVE  /\ IsRequest(w) /\ w.subnet = r.subnet /\ w.old = r.old /\ w.nodes = r.nodes \ set
           /\ w.available = r.available /\ w.include = r.include
  BY DEF IsRequest, Plans!WithoutNodes

LEMMA Requested ==
    ASSUME NEW s, NEW nodes, NEW pool, NEW w, w = Plans!ChangeRequest(s, nodes, pool)
    PROVE  /\ IsRequest(w) /\ w.subnet = s /\ w.old = nodes /\ w.nodes = nodes
           /\ w.available = pool /\ w.include = {}
  BY DEF IsRequest, Plans!ChangeRequest

\* The handlers of replace and resize: only the last include counts.
LEMMA FilteredIs ==
    ASSUME NEW s, NEW nodes, NEW pool, NEW f, NEW w, w = Plans!Filtered(Plans!ChangeRequest(s, nodes, pool), f)
    PROVE  /\ IsRequest(w) /\ w.subnet = s /\ w.old = nodes /\ w.nodes = nodes
           /\ w.available = pool \ f.exclude /\ w.include = (pool \ f.exclude) \cap f.include
<1>1. PICK a : a = Plans!ChangeRequest(s, nodes, pool)
  OBVIOUS
<1>2. PICK b : b = Plans!ExcludingFromAvailable(a, f.exclude)
  OBVIOUS
<1>3. PICK c : c = Plans!IncludingFromAvailable(b, f.only)
  OBVIOUS
<1>4. w = Plans!IncludingFromAvailable(c, f.include)
  BY <1>1, <1>2, <1>3 DEF Plans!Filtered
<1>5. /\ IsRequest(a) /\ a.subnet = s /\ a.old = nodes /\ a.nodes = nodes /\ a.available = pool
  BY <1>1, Requested
<1>6. IsRequest(b) /\ b.subnet = s /\ b.old = nodes /\ b.nodes = nodes /\ b.available = pool \ f.exclude
  BY <1>2, <1>5, Excluding
<1>7. IsRequest(c) /\ c.subnet = s /\ c.old = nodes /\ c.nodes = nodes /\ c.available = pool \ f.exclude
  BY <1>3, <1>6, Including
<1>. QED
  BY <1>4, <1>7, Including

\* A request begins.
LEMMA RequestBegins ==
    ASSUME SizesInv, NEW asked, NEW c, Plans!Begin(asked, c), queue' \in Seq(Subnet),
           asked.kind = "heal" => asked.limit \in 1..MaxCount \cup {NoLimit},
           c = [active |-> c.active, subnet |-> c.subnet, old |-> c.old, nodes |-> c.nodes,
                pool |-> c.pool, toAdd |-> c.toAdd, toRemove |-> c.toRemove, min |-> c.min],
           c.active \in BOOLEAN, c.active => Underway(asked, c),
           asked.kind # "none"
    PROVE  SizesInv'
<1>1. /\ changes = {} /\ request' = asked /\ change' = c
      /\ UNCHANGED members /\ UNCHANGED available /\ UNCHANGED spare /\ UNCHANGED changes
  BY DEF Plans!Begin, SizesInv, RequestInv
<1>2. TopologyInv'
  BY <1>1 DEF SizesInv, TopologyInv
<1>3. RequestInv'
  BY <1>1 DEF SizesInv, RequestInv, Plans!Ready, Plans!NoRequest
<1>4. c.active => Underway(asked, c)'
  BY <1>1 DEF Underway, KeepsSize, LimitKept, Plans!Unhealthy
<1>5. ChangeInv'
  BY <1>1, <1>4 DEF ChangeInv
<1>6. DoneInv'
  BY <1>1 DEF DoneInv
<1>. QED
  BY <1>2, <1>3, <1>5, <1>6 DEF SizesInv

\* Adding a node that is not there and removing one that is.
LEMMA AddKeepsUnderway ==
    ASSUME TopologiesKnown, TopologyInv, NEW r, NEW c, Underway(r, c), NEW n \in c.pool, c.toAdd > 0, NEW d,
           d.subnet = c.subnet, d.old = c.old, d.nodes = c.nodes \cup {n}, d.pool = c.pool \ d.nodes,
           d.toAdd = c.toAdd - 1, d.toRemove = c.toRemove
    PROVE  Underway(r, d)
<1>1. n \in available /\ n \in Node /\ n \notin c.old /\ n \notin c.nodes
  BY DEF Underway, TopologyInv
<1>2. d.nodes \subseteq Node /\ d.pool \subseteq c.pool /\ d.pool \cap d.nodes = {} /\ d.old \ d.nodes = c.old \ c.nodes
  BY <1>1 DEF Underway
<1>3. d.toAdd \in Nat /\ d.toRemove \in Nat
  BY DEF Underway
<1>4. KeepsSize(r) => Cardinality(d.nodes) + d.toAdd = Cardinality(d.old) + d.toRemove
  <2>1. Cardinality(d.nodes) = Cardinality(c.nodes) + 1 /\ Cardinality(c.nodes) \in Nat /\ Cardinality(c.old) \in Nat
    BY <1>1, OneNode DEF Underway
  <2>. QED
    BY <2>1 DEF Underway
<1>5. r.kind = "replace" => r.replaced \subseteq d.old \ d.nodes
  BY <1>2 DEF Underway
<1>6. ASSUME r.kind = "heal"
      PROVE  /\ d.subnet \in Subnet /\ d.pool \subseteq spare /\ d.nodes \ d.old \subseteq spare
             /\ LimitKept(r, d.subnet, d.old, d.nodes, d.toRemove)
  <2>1. c.subnet \in Subnet /\ n \in spare
    BY <1>6 DEF Underway
  <2>2. d.nodes \cap Plans!Unhealthy(d.subnet, r.unhealthy) = c.nodes \cap Plans!Unhealthy(c.subnet, r.unhealthy)
    BY <1>1, <2>1 DEF TopologyInv, Plans!Unhealthy
  <2>3. LimitKept(r, d.subnet, d.old, d.nodes, d.toRemove)
    BY <1>2, <1>6, <2>2 DEF Underway, LimitKept
  <2>. QED
    BY <1>2, <1>6, <2>1, <2>3 DEF Underway
<1>. QED
  BY <1>2, <1>3, <1>4, <1>5, <1>6 DEF Underway

LEMMA RemoveKeepsUnderway ==
    ASSUME TopologiesKnown, TopologyInv, NEW r, NEW c, Underway(r, c), NEW n \in c.nodes, c.toRemove > 0, NEW d,
           d.subnet = c.subnet, d.old = c.old, d.nodes = c.nodes \ {n}, d.pool = c.pool,
           d.toAdd = c.toAdd, d.toRemove = c.toRemove - 1
    PROVE  Underway(r, d)
<1>1. n \in Node /\ d.nodes \subseteq c.nodes /\ d.toAdd \in Nat /\ d.toRemove \in Nat
  BY DEF Underway
<1>2. KeepsSize(r) => Cardinality(d.nodes) + d.toAdd = Cardinality(d.old) + d.toRemove
  <2>1. Cardinality(d.nodes) = Cardinality(c.nodes) - 1 /\ Cardinality(c.nodes) \in Nat /\ Cardinality(c.old) \in Nat
    BY <1>1, OneNode DEF Underway
  <2>. QED
    BY <2>1 DEF Underway
<1>3. ASSUME r.kind = "heal"
      PROVE  LimitKept(r, d.subnet, d.old, d.nodes, d.toRemove)
  <2>1. LimitKept(r, c.subnet, c.old, c.nodes, c.toRemove) /\ r.limit \in Nat \cup {NoLimit}
    BY <1>3 DEF Underway
  <2>2. c.nodes \cap Plans!Unhealthy(c.subnet, r.unhealthy) = {}
    BY <2>1 DEF LimitKept, Underway
  <2>3. d.nodes \cap Plans!Unhealthy(d.subnet, r.unhealthy) = {}
    BY <1>1, <2>2
  <2>4. Cardinality(d.old \ d.nodes) <= Cardinality(c.old \ c.nodes) + 1
    <3>. DEFINE S == c.old \ c.nodes
    <3>1. S \subseteq Node /\ (d.old \ d.nodes = S \/ d.old \ d.nodes = S \cup {n}) /\ n \notin S
      BY DEF Underway
    <3>. HIDE DEF S
    <3>2. Cardinality(S) \in Nat /\ Cardinality(S \cup {n}) = Cardinality(S) + 1
      BY <1>1, <3>1, OneNode
    <3>3. Cardinality(d.old \ d.nodes) = Cardinality(S) \/ Cardinality(d.old \ d.nodes) = Cardinality(S \cup {n})
      BY <3>1
    <3>4. Cardinality(d.old \ d.nodes) <= Cardinality(S) + 1
      BY <3>2, <3>3
    <3>. QED
      BY <3>4 DEF S
  <2>5. Cardinality(c.old \ c.nodes) \in Nat /\ Cardinality(d.old \ d.nodes) \in Nat
    BY <1>1, OneNode DEF Underway
  <2>6. ASSUME r.limit # NoLimit
        PROVE  Cardinality(d.old \ d.nodes) + d.toRemove <= r.limit
    <3>1. Cardinality(c.old \ c.nodes) + c.toRemove <= r.limit /\ r.limit \in Nat
      BY <2>1, <2>6 DEF LimitKept
    <3>. QED
      BY <2>4, <2>5, <3>1 DEF Underway
  <2>. QED
    BY <2>3, <2>6 DEF LimitKept
<1>. QED
  BY <1>1, <1>2, <1>3 DEF Underway

\* A step to another change keeps the rest as it is.
LEMMA ChangeGoesOn ==
    ASSUME SizesInv, ~Plans!Ready, NEW d, Underway(request, d), d.active \in BOOLEAN, change' = d,
           d = [active |-> d.active, subnet |-> d.subnet, old |-> d.old, nodes |-> d.nodes,
                pool |-> d.pool, toAdd |-> d.toAdd, toRemove |-> d.toRemove, min |-> d.min],
           UNCHANGED members, UNCHANGED available, UNCHANGED spare, UNCHANGED request,
           queue' \in Seq(Subnet), UNCHANGED changes
    PROVE  SizesInv'
<1>1. Underway(request, d)'
  BY DEF Underway, KeepsSize, LimitKept, Plans!Unhealthy
<1>2. ASSUME NEW c \in changes
      PROVE  Finished(request, c)'
  BY DEF SizesInv, DoneInv, Finished, KeepsSize, LimitKept, Plans!Unhealthy
<1>3. TopologyInv' /\ RequestInv'
  BY DEF SizesInv, TopologyInv, RequestInv, Plans!Ready
<1>4. ChangeInv'
  BY <1>1 DEF SizesInv, ChangeInv
<1>5. DoneInv'
  BY <1>2 DEF SizesInv, DoneInv
<1>. QED
  BY <1>3, <1>4, <1>5 DEF SizesInv

LEMMA AddKeepsSizes ==
    ASSUME TopologiesKnown, SizesInv, Plans!AddNode
    PROVE  SizesInv'
<1>1. PICK chosen \in Plans!Best(change.subnet, change.min, Plans!Extended) :
        change' = [change EXCEPT !.nodes = chosen, !.pool = @ \ chosen, !.toAdd = @ - 1]
  BY DEF Plans!AddNode
<1>2. PICK n \in change.pool : chosen = change.nodes \cup {n}
  <2>1. chosen \in Plans!Extended
    BY BestIsOption
  <2>. QED
    BY <2>1 DEF Plans!Extended
<1>. DEFINE d == [active |-> change.active, subnet |-> change.subnet, old |-> change.old, nodes |-> chosen,
                  pool |-> change.pool \ chosen, toAdd |-> change.toAdd - 1, toRemove |-> change.toRemove, min |-> change.min]
<1>3. change' = d
  BY <1>1 DEF SizesInv, ChangeInv
<1>4. ~Plans!Ready /\ change.active \in BOOLEAN /\ change.toAdd > 0 /\ Underway(request, change)
  BY DEF Plans!AddNode, SizesInv, RequestInv, ChangeInv
<1>5. /\ d.active \in BOOLEAN /\ d.subnet = change.subnet /\ d.old = change.old
      /\ d.nodes = change.nodes \cup {n} /\ d.pool = change.pool \ d.nodes
      /\ d.toAdd = change.toAdd - 1 /\ d.toRemove = change.toRemove
      /\ d = [active |-> d.active, subnet |-> d.subnet, old |-> d.old, nodes |-> d.nodes,
              pool |-> d.pool, toAdd |-> d.toAdd, toRemove |-> d.toRemove, min |-> d.min]
  BY <1>2, <1>4
<1>. HIDE DEF d
<1>6. Underway(request, d)
  BY <1>4, <1>5, AddKeepsUnderway DEF SizesInv
<1>7. /\ UNCHANGED members /\ UNCHANGED available /\ UNCHANGED spare /\ UNCHANGED request
      /\ queue' \in Seq(Subnet) /\ UNCHANGED changes
  BY DEF Plans!AddNode, SizesInv, RequestInv
<1>. QED
  BY <1>3, <1>4, <1>5, <1>6, <1>7, ChangeGoesOn

LEMMA RemoveKeepsSizes ==
    ASSUME TopologiesKnown, SizesInv, Plans!RemoveNode
    PROVE  SizesInv'
<1>1. PICK chosen \in Plans!Best(change.subnet, change.min, Plans!Reduced) :
        change' = [change EXCEPT !.nodes = chosen, !.toRemove = @ - 1]
  BY DEF Plans!RemoveNode
<1>2. PICK n \in change.nodes : chosen = change.nodes \ {n}
  <2>1. chosen \in Plans!Reduced
    BY BestIsOption
  <2>. QED
    BY <2>1 DEF Plans!Reduced
<1>. DEFINE d == [active |-> change.active, subnet |-> change.subnet, old |-> change.old, nodes |-> chosen,
                  pool |-> change.pool, toAdd |-> change.toAdd, toRemove |-> change.toRemove - 1, min |-> change.min]
<1>3. change' = d
  BY <1>1 DEF SizesInv, ChangeInv
<1>4. ~Plans!Ready /\ change.active \in BOOLEAN /\ change.toRemove > 0 /\ Underway(request, change)
  BY DEF Plans!RemoveNode, SizesInv, RequestInv, ChangeInv
<1>5. /\ d.active \in BOOLEAN /\ d.subnet = change.subnet /\ d.old = change.old
      /\ d.nodes = change.nodes \ {n} /\ d.pool = change.pool
      /\ d.toAdd = change.toAdd /\ d.toRemove = change.toRemove - 1
      /\ d = [active |-> d.active, subnet |-> d.subnet, old |-> d.old, nodes |-> d.nodes,
              pool |-> d.pool, toAdd |-> d.toAdd, toRemove |-> d.toRemove, min |-> d.min]
  BY <1>2, <1>4
<1>. HIDE DEF d
<1>6. Underway(request, d)
  BY <1>4, <1>5, RemoveKeepsUnderway DEF SizesInv
<1>7. /\ UNCHANGED members /\ UNCHANGED available /\ UNCHANGED spare /\ UNCHANGED request
      /\ queue' \in Seq(Subnet) /\ UNCHANGED changes
  BY DEF Plans!RemoveNode, SizesInv, RequestInv
<1>. QED
  BY <1>3, <1>4, <1>5, <1>6, <1>7, ChangeGoesOn

\* Nothing is under way after the end of a change.
LEMMA NothingUnderway ==
    /\ Plans!Inactive = [active |-> FALSE, subnet |-> NewSubnet, old |-> {}, nodes |-> {}, pool |-> {},
                         toAdd |-> 0, toRemove |-> 0, min |-> NoMin]
    /\ change' = Plans!Inactive => ChangeInv' /\ ~change.active'
<1>1. Plans!Inactive = [active |-> FALSE, subnet |-> NewSubnet, old |-> {}, nodes |-> {}, pool |-> {},
                        toAdd |-> 0, toRemove |-> 0, min |-> NoMin]
  BY DEF Plans!Inactive
<1>. DEFINE d == Plans!Inactive
<1>2. /\ d = [active |-> d.active, subnet |-> d.subnet, old |-> d.old, nodes |-> d.nodes,
              pool |-> d.pool, toAdd |-> d.toAdd, toRemove |-> d.toRemove, min |-> d.min]
      /\ d.active \in BOOLEAN
  BY <1>1
<1>3. ~d.active
  BY <1>1
<1>. HIDE DEF d
<1>4. ASSUME change' = d
      PROVE  ChangeInv' /\ ~change.active'
  BY <1>2, <1>3, <1>4 DEF ChangeInv
<1>. QED
  BY <1>1, <1>4 DEF d

LEMMA FinishKeepsSizes ==
    ASSUME TopologiesKnown, SizesInv, Plans!Finish
    PROVE  SizesInv'
<1>0. PICK c : c = [subnet |-> change.subnet, old |-> change.old, new |-> change.nodes]
  OBVIOUS
<1>1. /\ change.active /\ change.toAdd = 0 /\ change.toRemove = 0 /\ changes' = changes \cup {c}
      /\ spare' = spare \ (c.new \ c.old) /\ change' = Plans!Inactive
      /\ UNCHANGED members /\ UNCHANGED available /\ UNCHANGED request /\ UNCHANGED queue
  BY <1>0 DEF Plans!Finish, Plans!Change, Plans!Left, Plans!Added
<1>2. Underway(request, change) /\ c.old = change.old /\ c.new = change.nodes /\ c.subnet = change.subnet
  BY <1>0, <1>1 DEF SizesInv, ChangeInv
<1>3. Finished(request, c)'
  <2>1. KeepsSize(request) => Cardinality(c.new) = Cardinality(c.old)
    <3>1. Cardinality(c.new) \in Nat /\ Cardinality(c.old) \in Nat
      BY <1>2, FS_Subset, FS_CardinalityType DEF Underway, TopologiesKnown
    <3>. QED
      BY <1>1, <1>2, <3>1 DEF Underway
  <2>2. request.kind = "replace" => request.replaced \subseteq c.old \ c.new
    BY <1>2 DEF Underway
  <2>3. ASSUME request.kind = "heal"
        PROVE  /\ c.new \ c.old \subseteq available /\ (c.new \ c.old) \cap spare' = {}
               /\ request.limit \in Nat \cup {NoLimit} /\ LimitKept(request, c.subnet, c.old, c.new, 0)
    BY <1>1, <1>2, <2>3 DEF Underway, SizesInv, RequestInv
  <2>4. c.old \subseteq Node
    BY <1>2 DEF Underway
  <2>. QED
    BY <1>1, <2>1, <2>2, <2>3, <2>4 DEF Finished, KeepsSize, LimitKept, Plans!Unhealthy
<1>4. ASSUME NEW d \in changes
      PROVE  /\ Finished(request, d)'
             /\ request.kind = "heal" => (c.new \ c.old) \cap (d.new \ d.old) = {}
  <2>1. Finished(request, d)
    BY DEF SizesInv, DoneInv
  <2>2. Finished(request, d)'
    BY <1>1, <2>1 DEF Finished, KeepsSize, LimitKept, Plans!Unhealthy
  <2>3. request.kind = "heal" => (c.new \ c.old) \cap (d.new \ d.old) = {}
    BY <1>2, <2>1 DEF Finished, Underway
  <2>. QED
    BY <2>2, <2>3
<1>5. DoneInv'
  BY <1>1, <1>3, <1>4 DEF SizesInv, DoneInv
<1>6. TopologyInv'
  BY <1>1 DEF SizesInv, TopologyInv
<1>7. RequestInv'
  BY <1>1, NothingUnderway DEF SizesInv, RequestInv, Plans!Ready
<1>. QED
  BY <1>1, <1>5, <1>6, <1>7, NothingUnderway DEF SizesInv

LEMMA OverKeepsSizes ==
    ASSUME SizesInv, Plans!Over
    PROVE  SizesInv'
<1>1. /\ change' = Plans!Inactive /\ queue' = <<>> /\ changes' = {} /\ spare' = available
      /\ request' = [kind |-> "none"] /\ UNCHANGED members /\ UNCHANGED available
  BY DEF Plans!Over, Plans!NoRequest
<1>2. TopologyInv' /\ DoneInv'
  BY <1>1 DEF SizesInv, TopologyInv, DoneInv
<1>3. RequestInv'
  BY <1>1, NothingUnderway DEF RequestInv
<1>. QED
  BY <1>1, <1>2, <1>3, NothingUnderway DEF SizesInv

\* A change that swaps nodes.
LEMMA OptimizedIs ==
    ASSUME NEW r, IsRequest(r), NEW count, NEW gone
    PROVE  Plans!Optimized(r, count, gone) =
             [active |-> TRUE, subnet |-> r.subnet, old |-> r.old, nodes |-> (r.nodes \ gone) \cup r.include,
              pool |-> r.available \ r.include, toAdd |-> count + Cardinality(gone), toRemove |-> count, min |-> r.min]
<1>1. PICK w : w = Plans!WithoutNodes(r, gone)
  OBVIOUS
<1>2. w = [subnet |-> r.subnet, old |-> r.old, nodes |-> r.nodes \ gone, available |-> r.available,
           include |-> r.include, min |-> r.min]
  BY <1>1 DEF IsRequest, Plans!WithoutNodes
<1>3. Plans!Cardinality(gone) = Cardinality(gone)
  BY SameCount
<1>4. Plans!Optimized(r, count, gone) = Plans!Resized(w, count + Cardinality(gone), count)
  BY <1>1, <1>3 DEF Plans!Optimized
<1>. QED
  BY <1>2, <1>4 DEF Plans!Resized

\* What a change starts from: nodes that are gone, nodes that are included and those left to choose from.
Starts(r, c, gone, include, left) ==
    /\ c.old \subseteq Node /\ c.old \cap available = {} /\ gone \subseteq c.old
    /\ left \subseteq available /\ include \subseteq left
    /\ c.nodes = (c.old \ gone) \cup include /\ c.pool = left \ include /\ c.toAdd \in Nat /\ c.toRemove \in Nat
    /\ KeepsSize(r) => include = {} /\ c.toAdd = Cardinality(gone) + c.toRemove
    /\ r.kind = "replace" => r.replaced \subseteq gone
    /\ r.kind = "heal" => /\ c.subnet \in Subnet /\ left \subseteq spare /\ r.limit \in Nat \cup {NoLimit}
                          /\ LimitKept(r, c.subnet, c.old, c.old \ gone, c.toRemove)

LEMMA StartsUnderway ==
    ASSUME TopologiesKnown, TopologyInv, NEW r, NEW c, NEW gone, NEW include, NEW left,
           Starts(r, c, gone, include, left)
    PROVE  Underway(r, c)
<1>1. /\ c.nodes \subseteq Node /\ c.pool \subseteq available /\ c.pool \cap c.old = {} /\ c.pool \cap c.nodes = {}
      /\ gone \cap c.nodes = {} /\ c.nodes \ c.old \subseteq left
  BY DEF TopologyInv, Starts
<1>2. ASSUME KeepsSize(r)
      PROVE  Cardinality(c.nodes) + c.toAdd = Cardinality(c.old) + c.toRemove
  <2>1. c.nodes = c.old \ gone /\ gone = c.old \cap gone /\ c.toAdd = Cardinality(gone) + c.toRemove
    BY <1>2 DEF Starts
  <2>2. IsFiniteSet(c.old) /\ IsFiniteSet(gone)
    BY FS_Subset DEF TopologiesKnown, Starts
  <2>3. Cardinality(c.nodes) = Cardinality(c.old) - Cardinality(gone)
    <3>1. Cardinality(c.old \ gone) = Cardinality(c.old) - Cardinality(c.old \cap gone)
      BY <2>2, FS_Difference
    <3>. QED
      BY <2>1, <3>1
  <2>4. Cardinality(c.old) \in Nat /\ Cardinality(gone) \in Nat
    BY <2>2, FS_CardinalityType
  <2>. QED
    BY <2>1, <2>3, <2>4 DEF Starts
<1>3. r.kind = "heal" => LimitKept(r, c.subnet, c.old, c.nodes, c.toRemove)
  BY DEF KeepsSize, Starts
<1>4. r.kind = "replace" => r.replaced \subseteq c.old \ c.nodes
  BY <1>1 DEF Starts
<1>5. r.kind = "heal" => c.pool \subseteq spare /\ c.nodes \ c.old \subseteq spare
  BY <1>1 DEF Starts
<1>. QED
  BY <1>1, <1>2, <1>3, <1>4, <1>5 DEF Underway, Starts

LEMMA ReplaceKeepsSizes ==
    ASSUME TopologiesKnown, SizesInv, NEW s \in Subnet, NEW nodes, NEW unhealthy, NEW count \in 0..MaxCount, NEW min,
           NEW f, Plans!Replace(s, nodes, unhealthy, count, min, f)
    PROVE  SizesInv'
<1>1. PICK replaced : replaced = nodes \cup (unhealthy \ f.include)
  OBVIOUS
<1>2. PICK r0 : r0 = Plans!Filtered(Plans!ChangeRequest(s, members[s], available), f)
  OBVIOUS
<1>3. PICK r : r = Plans!WithMin(r0, min)
  OBVIOUS
<1>4. PICK c : c = Plans!Optimized(r, count, replaced)
  OBVIOUS
<1>5. PICK asked : asked = [kind |-> "replace", filter |-> f, replaced |-> replaced, count |-> count, min |-> min]
  OBVIOUS
<1>6. Plans!Begin(asked, c) /\ queue' \in Seq(Subnet) /\ nodes \cup unhealthy \subseteq members[s]
  BY <1>1, <1>2, <1>3, <1>4, <1>5 DEF Plans!Replace, SizesInv, RequestInv
<1>7. /\ IsRequest(r) /\ r.subnet = s /\ r.old = members[s] /\ r.nodes = members[s]
      /\ r.available = available \ f.exclude /\ r.include = (available \ f.exclude) \cap f.include
  <2>1. /\ IsRequest(r0) /\ r0.subnet = s /\ r0.old = members[s] /\ r0.nodes = members[s]
        /\ r0.available = available \ f.exclude /\ r0.include = (available \ f.exclude) \cap f.include
    BY <1>2, FilteredIs
  <2>. QED
    BY <1>3, <2>1, AskingFor
<1>8. c = [active |-> TRUE, subnet |-> r.subnet, old |-> r.old, nodes |-> (r.nodes \ replaced) \cup r.include,
           pool |-> r.available \ r.include, toAdd |-> count + Cardinality(replaced), toRemove |-> count, min |-> r.min]
  BY <1>4, <1>7, OptimizedIs
<1>9. /\ members[s] \subseteq Node /\ members[s] \cap available = {} /\ replaced \subseteq members[s]
  BY <1>1, <1>6 DEF SizesInv, TopologyInv
<1>10. Cardinality(replaced) \in Nat /\ count \in Nat
  BY <1>9, FS_Subset, FS_CardinalityType DEF TopologiesKnown
<1>11. Starts(asked, c, replaced, r.include, r.available)
  BY <1>5, <1>7, <1>8, <1>9, <1>10 DEF Starts, KeepsSize
<1>12. Underway(asked, c)
  BY <1>11, StartsUnderway DEF SizesInv
<1>13. /\ c = [active |-> c.active, subnet |-> c.subnet, old |-> c.old, nodes |-> c.nodes,
               pool |-> c.pool, toAdd |-> c.toAdd, toRemove |-> c.toRemove, min |-> c.min]
       /\ c.active \in BOOLEAN /\ asked.kind = "replace"
  BY <1>5, <1>8
<1>. QED
  BY <1>6, <1>12, <1>13, RequestBegins

LEMMA ResizeKeepsSizes ==
    ASSUME TopologiesKnown, SizesInv, NEW s \in Subnet, NEW add \in 0..MaxCount, NEW remove \in 0..MaxCount, NEW f,
           Plans!Resize(s, add, remove, f)
    PROVE  SizesInv'
<1>1. PICK r : r = Plans!Filtered(Plans!ChangeRequest(s, members[s], available), f)
  OBVIOUS
<1>2. PICK c : c = Plans!Resized(r, add, remove)
  OBVIOUS
<1>3. PICK asked : asked = [kind |-> "resize", filter |-> f, add |-> add, remove |-> remove]
  OBVIOUS
<1>4. Plans!Begin(asked, c) /\ queue' \in Seq(Subnet)
  BY <1>1, <1>2, <1>3 DEF Plans!Resize, SizesInv, RequestInv
<1>5. /\ r.subnet = s /\ r.old = members[s] /\ r.nodes = members[s]
      /\ r.available = available \ f.exclude /\ r.include = (available \ f.exclude) \cap f.include
  BY <1>1, FilteredIs
<1>6. c = [active |-> TRUE, subnet |-> r.subnet, old |-> r.old, nodes |-> r.nodes \cup r.include,
           pool |-> r.available \ r.include, toAdd |-> add, toRemove |-> remove, min |-> r.min]
  BY <1>2 DEF Plans!Resized
<1>7. members[s] \subseteq Node /\ members[s] \cap available = {} /\ add \in Nat /\ remove \in Nat
  BY DEF SizesInv, TopologyInv, TopologiesKnown
<1>8. Starts(asked, c, {}, r.include, r.available)
  BY <1>3, <1>5, <1>6, <1>7 DEF Starts, KeepsSize
<1>9. Underway(asked, c)
  BY <1>8, StartsUnderway DEF SizesInv
<1>10. /\ c = [active |-> c.active, subnet |-> c.subnet, old |-> c.old, nodes |-> c.nodes,
               pool |-> c.pool, toAdd |-> c.toAdd, toRemove |-> c.toRemove, min |-> c.min]
       /\ c.active \in BOOLEAN /\ asked.kind = "resize"
  BY <1>3, <1>6
<1>. QED
  BY <1>4, <1>9, <1>10, RequestBegins

LEMMA CreateKeepsSizes ==
    ASSUME TopologiesKnown, SizesInv, NEW size \in 0..MaxCount, NEW min, NEW f, Plans!CreateSubnet(size, min, f)
    PROVE  SizesInv'
<1>1. PICK r0 : r0 = Plans!ChangeRequest(NewSubnet, {}, available)
  OBVIOUS
<1>2. PICK r1 : r1 = Plans!WithMin(r0, min)
  OBVIOUS
<1>3. PICK r2 : r2 = Plans!IncludingFromAvailable(r1, f.include)
  OBVIOUS
<1>4. PICK r3 : r3 = Plans!ExcludingFromAvailable(r2, f.exclude)
  OBVIOUS
<1>5. PICK r : r = Plans!IncludingFromAvailable(r3, f.only)
  OBVIOUS
<1>6. PICK c : c = Plans!Resized(r, size, 0)
  OBVIOUS
<1>7. PICK asked : asked = [kind |-> "create", filter |-> f, size |-> size]
  OBVIOUS
<1>8. Plans!Begin(asked, c) /\ queue' \in Seq(Subnet)
  BY <1>1, <1>2, <1>3, <1>4, <1>5, <1>6, <1>7 DEF Plans!CreateSubnet, SizesInv, RequestInv
<1>9. /\ r.old = {} /\ r.nodes = {} /\ r.available = available \ f.exclude
      /\ r.include = (available \ f.exclude) \cap f.only
  <2>1. IsRequest(r0) /\ r0.old = {} /\ r0.nodes = {} /\ r0.available = available
    BY <1>1, Requested
  <2>2. IsRequest(r1) /\ r1.old = {} /\ r1.nodes = {} /\ r1.available = available
    BY <1>2, <2>1, AskingFor
  <2>3. IsRequest(r2) /\ r2.old = {} /\ r2.nodes = {} /\ r2.available = available
    BY <1>3, <2>2, Including
  <2>4. IsRequest(r3) /\ r3.old = {} /\ r3.nodes = {} /\ r3.available = available \ f.exclude
    BY <1>4, <2>3, Excluding
  <2>. QED
    BY <1>5, <2>4, Including
<1>10. c = [active |-> TRUE, subnet |-> r.subnet, old |-> r.old, nodes |-> r.nodes \cup r.include,
            pool |-> r.available \ r.include, toAdd |-> size, toRemove |-> 0, min |-> r.min]
  BY <1>6 DEF Plans!Resized
<1>11. Starts(asked, c, {}, r.include, r.available)
  BY <1>7, <1>9, <1>10 DEF Starts, KeepsSize, TopologiesKnown
<1>12. Underway(asked, c)
  BY <1>11, StartsUnderway DEF SizesInv
<1>13. /\ c = [active |-> c.active, subnet |-> c.subnet, old |-> c.old, nodes |-> c.nodes,
               pool |-> c.pool, toAdd |-> c.toAdd, toRemove |-> c.toRemove, min |-> c.min]
       /\ c.active \in BOOLEAN /\ asked.kind = "create"
  BY <1>7, <1>10
<1>. QED
  BY <1>8, <1>12, <1>13, RequestBegins

LEMMA RescueKeepsSizes ==
    ASSUME TopologiesKnown, SizesInv, NEW s \in Subnet, NEW keep, Plans!Rescue(s, keep)
    PROVE  SizesInv'
<1>1. PICK lost : lost = members[s] \ keep
  OBVIOUS
<1>2. PICK r0 : r0 = Plans!ChangeRequest(s, members[s], available)
  OBVIOUS
<1>3. PICK r : r = Plans!WithoutNodes(r0, lost)
  OBVIOUS
<1>4. PICK c : c = Plans!Resized(r, Cardinality(lost), 0)
  OBVIOUS
<1>5. PICK asked : asked = [kind |-> "rescue", keep |-> keep]
  OBVIOUS
<1>6. Plans!Begin(asked, c) /\ queue' \in Seq(Subnet)
  <2>1. Plans!Cardinality(lost) = Cardinality(lost)
    BY SameCount
  <2>2. Plans!Begin(asked, Plans!Resized(r, Plans!Cardinality(lost), 0)) /\ UNCHANGED queue
    BY <1>1, <1>2, <1>3, <1>5 DEF Plans!Rescue
  <2>. QED
    BY <1>4, <2>1, <2>2 DEF SizesInv, RequestInv
<1>7. /\ r.old = members[s] /\ r.nodes = members[s] \ lost /\ r.available = available /\ r.include = {}
  <2>1. IsRequest(r0) /\ r0.old = members[s] /\ r0.nodes = members[s] /\ r0.available = available /\ r0.include = {}
    BY <1>2, Requested
  <2>. QED
    BY <1>3, <2>1, Without
<1>8. c = [active |-> TRUE, subnet |-> r.subnet, old |-> r.old, nodes |-> r.nodes \cup r.include,
           pool |-> r.available \ r.include, toAdd |-> Cardinality(lost), toRemove |-> 0, min |-> r.min]
  BY <1>4 DEF Plans!Resized
<1>9. members[s] \subseteq Node /\ members[s] \cap available = {} /\ lost \subseteq members[s]
  BY <1>1 DEF SizesInv, TopologyInv
<1>10. Cardinality(lost) \in Nat
  BY <1>9, FS_Subset, FS_CardinalityType DEF TopologiesKnown
<1>11. Starts(asked, c, lost, r.include, r.available)
  BY <1>5, <1>7, <1>8, <1>9, <1>10 DEF Starts, KeepsSize
<1>12. Underway(asked, c)
  BY <1>11, StartsUnderway DEF SizesInv
<1>13. /\ c = [active |-> c.active, subnet |-> c.subnet, old |-> c.old, nodes |-> c.nodes,
               pool |-> c.pool, toAdd |-> c.toAdd, toRemove |-> c.toRemove, min |-> c.min]
       /\ c.active \in BOOLEAN /\ asked.kind = "rescue"
  BY <1>5, <1>8
<1>. QED
  BY <1>6, <1>12, <1>13, RequestBegins

LEMMA HealKeepsSizes ==
    ASSUME TopologiesKnown, SizesInv, NEW unhealthy, NEW limit \in (1..MaxCount) \cup {NoLimit},
           Plans!Heal(unhealthy, limit)
    PROVE  SizesInv'
<1>1. PICK c : c = Plans!Inactive
  OBVIOUS
<1>2. PICK asked : asked = [kind |-> "heal", unhealthy |-> unhealthy, limit |-> limit]
  OBVIOUS
<1>3. PICK subnets : subnets = Plans!SubnetsToHeal(unhealthy)
  OBVIOUS
<1>4. Plans!Begin(asked, c) /\ queue' \in Plans!HealOrders(subnets)
  BY <1>1, <1>2, <1>3 DEF Plans!Heal
<1>5. queue' \in Seq(Subnet)
  <2>1. subnets \subseteq Subnet
    BY <1>3 DEF Plans!SubnetsToHeal
  <2>2. queue' \in Plans!SetToSeqs(subnets)
    BY <1>4 DEF Plans!HealOrders
  <2>3. queue' \in [1..Plans!Cardinality(subnets) -> subnets]
    BY <2>2 DEF Plans!SetToSeqs
  <2>4. Plans!Cardinality(subnets) \in Nat
    BY <2>1, SameCount, FS_Subset, FS_CardinalityType DEF TopologiesKnown
  <2>. QED
    BY <2>1, <2>3, <2>4
<1>6. /\ c = [active |-> c.active, subnet |-> c.subnet, old |-> c.old, nodes |-> c.nodes,
              pool |-> c.pool, toAdd |-> c.toAdd, toRemove |-> c.toRemove, min |-> c.min]
      /\ c.active \in BOOLEAN /\ asked.kind = "heal" /\ asked.limit = limit
  BY <1>1, <1>2, NothingUnderway
<1>7. ~c.active
  BY <1>1, NothingUnderway
<1>. QED
  BY <1>4, <1>5, <1>6, <1>7, RequestBegins

LEMMA NextSubnetKeepsSizes ==
    ASSUME TopologiesKnown, SizesInv, Plans!HealNext
    PROVE  SizesInv'
<1>1. PICK s : s = Head(queue)
  OBVIOUS
<1>2. PICK sick : sick = Plans!Unhealthy(s, request.unhealthy)
  OBVIOUS
<1>3. PICK taken \in Plans!Taken(sick, request.limit) :
        change' = Plans!Optimized(Plans!ChangeRequest(s, members[s], spare),
                                  Plans!HealOptimizes(request.limit, taken), taken)
  BY <1>1, <1>2 DEF Plans!HealNext
<1>4. PICK r : r = Plans!ChangeRequest(s, members[s], spare)
  OBVIOUS
<1>5. PICK count : count = Plans!HealOptimizes(request.limit, taken)
  OBVIOUS
<1>6. PICK c : c = Plans!Optimized(r, count, taken)
  OBVIOUS
<1>7. /\ change' = c /\ queue' = Tail(queue) /\ queue # <<>> /\ request.kind = "heal"
      /\ UNCHANGED members /\ UNCHANGED available /\ UNCHANGED spare /\ UNCHANGED request /\ UNCHANGED changes
  BY <1>3, <1>4, <1>5, <1>6 DEF Plans!HealNext
<1>8. s \in Subnet /\ queue' \in Seq(Subnet) /\ ~Plans!Ready
  BY <1>1, <1>7 DEF SizesInv, RequestInv, Plans!Ready, Plans!NoRequest
<1>9. sick \subseteq members[s] /\ members[s] \subseteq Node /\ members[s] \cap available = {} /\ spare \subseteq available
  BY <1>2, <1>8 DEF SizesInv, TopologyInv, RequestInv, Plans!Unhealthy
<1>10. IsFiniteSet(sick) /\ Cardinality(sick) \in Nat /\ request.limit \in Nat \cup {NoLimit}
  BY <1>7, <1>9, FS_Subset, FS_CardinalityType DEF TopologiesKnown, SizesInv, RequestInv
<1>11. \/ request.limit = NoLimit /\ taken = sick /\ count = 0
       \/ /\ request.limit \in Nat /\ request.limit # NoLimit /\ taken \subseteq sick /\ count = 0
          /\ Cardinality(taken) = request.limit
       \/ /\ request.limit \in Nat /\ request.limit # NoLimit /\ taken = sick
          /\ Cardinality(taken) <= request.limit /\ count = request.limit - Cardinality(taken)
  <2>1. Plans!Cardinality(sick) = Cardinality(sick) /\ Plans!Cardinality(taken) = Cardinality(taken)
    BY SameCount
  <2>2. CASE request.limit = NoLimit
    <3>1. taken = sick
      BY <1>3, <2>2 DEF Plans!Taken
    <3>2. count = 0
      BY <1>5, <2>2 DEF Plans!HealOptimizes
    <3>. QED
      BY <2>2, <3>1, <3>2
  <2>3. CASE request.limit # NoLimit /\ Cardinality(sick) > request.limit
    <3>1. taken \in Plans!kSubset(request.limit, sick)
      BY <1>3, <2>1, <2>3 DEF Plans!Taken
    <3>2. taken \subseteq sick /\ Cardinality(taken) = request.limit
      BY <2>1, <3>1 DEF Plans!kSubset
    <3>3. count = request.limit - Cardinality(taken)
      BY <1>5, <2>1, <2>3 DEF Plans!HealOptimizes
    <3>4. request.limit \in Nat
      BY <1>10, <2>3
    <3>. QED
      BY <2>3, <3>2, <3>3, <3>4
  <2>4. CASE request.limit # NoLimit /\ ~(Cardinality(sick) > request.limit)
    <3>1. taken = sick
      BY <1>3, <2>1, <2>4 DEF Plans!Taken
    <3>2. count = request.limit - Cardinality(taken)
      BY <1>5, <2>1, <2>4 DEF Plans!HealOptimizes
    <3>. QED
      BY <1>10, <2>4, <3>1, <3>2
  <2>. QED
    BY <2>2, <2>3, <2>4
<1>12. taken \subseteq members[s] /\ Cardinality(taken) \in Nat /\ count \in Nat
  <2>1. taken \subseteq sick
    BY <1>11
  <2>2. Cardinality(taken) \in Nat
    BY <1>10, <2>1, FS_Subset, FS_CardinalityType
  <2>. QED
    BY <1>9, <1>11, <2>1, <2>2
<1>13. LimitKept(request, s, members[s], members[s] \ taken, count)
  <2>1. PICK rest : rest = members[s] \ taken
    OBVIOUS
  <2>2. members[s] \ rest = taken /\ (taken = sick => rest \cap sick = {})
    BY <1>12, <2>1
  <2>3. request.limit = NoLimit => rest \cap sick = {}
    BY <1>11, <2>2
  <2>4. ASSUME request.limit # NoLimit
        PROVE  /\ Cardinality(taken) + count <= request.limit
               /\ rest \cap sick # {} => count = 0 /\ Cardinality(taken) = request.limit
    BY <1>11, <1>12, <2>2, <2>4
  <2>5. LimitKept(request, s, members[s], rest, count)
    BY <1>2, <2>2, <2>3, <2>4 DEF LimitKept
  <2>. QED
    BY <2>1, <2>5
<1>14. IsRequest(r) /\ r.subnet = s /\ r.old = members[s] /\ r.nodes = members[s] /\ r.available = spare /\ r.include = {}
  BY <1>4, Requested
<1>15. c = [active |-> TRUE, subnet |-> r.subnet, old |-> r.old, nodes |-> (r.nodes \ taken) \cup r.include,
            pool |-> r.available \ r.include, toAdd |-> count + Cardinality(taken), toRemove |-> count, min |-> r.min]
  BY <1>6, <1>14, OptimizedIs
<1>16. /\ c.subnet = s /\ c.old = members[s] /\ c.nodes = (members[s] \ taken) \cup {} /\ c.pool = spare \ {}
       /\ c.toAdd = count + Cardinality(taken) /\ c.toRemove = count
       /\ c = [active |-> c.active, subnet |-> c.subnet, old |-> c.old, nodes |-> c.nodes,
               pool |-> c.pool, toAdd |-> c.toAdd, toRemove |-> c.toRemove, min |-> c.min]
       /\ c.active \in BOOLEAN
  BY <1>14, <1>15
<1>17. Starts(request, c, taken, {}, spare)
  BY <1>7, <1>8, <1>9, <1>10, <1>12, <1>13, <1>16 DEF Starts
<1>18. Underway(request, c)
  BY <1>17, StartsUnderway DEF SizesInv
<1>. QED
  BY <1>7, <1>8, <1>16, <1>18, ChangeGoesOn

LEMMA SizesHold == TopologiesKnown => (Plans!Spec => []SizesInv)
<1>. SUFFICES ASSUME TopologiesKnown
              PROVE  Plans!Spec => []SizesInv
  OBVIOUS
<1>1. Plans!Init => SizesInv
  <2>. SUFFICES ASSUME Plans!Init
                PROVE  SizesInv
    OBVIOUS
  <2>1. PICK t \in Topologies : members = t.members /\ available = t.available
    BY DEF Plans!Init
  <2>2. TopologyInv
    BY <2>1 DEF TopologiesKnown, TopologyInv
  <2>3. /\ spare = available /\ request = [kind |-> "none"] /\ queue = <<>> /\ change = Plans!Inactive /\ changes = {}
    BY DEF Plans!Init, Plans!NoRequest
  <2>4. ChangeInv /\ ~change.active
    <3>. DEFINE d == Plans!Inactive
    <3>1. /\ d = [active |-> d.active, subnet |-> d.subnet, old |-> d.old, nodes |-> d.nodes,
                  pool |-> d.pool, toAdd |-> d.toAdd, toRemove |-> d.toRemove, min |-> d.min]
          /\ d.active \in BOOLEAN
      BY NothingUnderway
    <3>2. ~d.active
      BY NothingUnderway
    <3>. HIDE DEF d
    <3>3. change = d
      BY <2>3 DEF d
    <3>. QED
      BY <3>1, <3>2, <3>3 DEF ChangeInv
  <2>5. RequestInv /\ DoneInv
    BY <2>3, <2>4 DEF RequestInv, DoneInv
  <2>. QED
    BY <2>2, <2>4, <2>5 DEF SizesInv
<1>2. SizesInv /\ [Plans!Next]_Plans!vars => SizesInv'
  <2>. SUFFICES ASSUME SizesInv, [Plans!Next]_Plans!vars
                PROVE  SizesInv'
    OBVIOUS
  <2>1. ASSUME NEW s \in Subnet, Plans!Ask(s)
        PROVE  SizesInv'
    BY <2>1, ReplaceKeepsSizes, ResizeKeepsSizes, RescueKeepsSizes DEF Plans!Ask
  <2>2. ASSUME \E size \in 0..MaxCount, min \in Mins, f \in Filters : Plans!CreateSubnet(size, min, f)
        PROVE  SizesInv'
    BY <2>2, CreateKeepsSizes
  <2>3. ASSUME \E unhealthy \in Reports, limit \in (1..MaxCount) \cup {NoLimit} : Plans!Heal(unhealthy, limit)
        PROVE  SizesInv'
    BY <2>3, HealKeepsSizes
  <2>4. CASE Plans!HealNext \/ Plans!AddNode \/ Plans!RemoveNode \/ Plans!Finish
    BY <2>4, NextSubnetKeepsSizes, AddKeepsSizes, RemoveKeepsSizes, FinishKeepsSizes
  <2>5. CASE Plans!Fail \/ Plans!Answer
    BY <2>5, OverKeepsSizes DEF Plans!Fail, Plans!Answer
  <2>6. CASE UNCHANGED Plans!vars
    <3>1. /\ UNCHANGED members /\ UNCHANGED available /\ UNCHANGED spare /\ UNCHANGED request
          /\ UNCHANGED queue /\ UNCHANGED change /\ UNCHANGED changes
      BY <2>6 DEF Plans!vars
    <3>. QED
      BY <3>1 DEF SizesInv, TopologyInv, RequestInv, ChangeInv, DoneInv, Underway, Finished, KeepsSize, LimitKept,
                  Plans!Ready, Plans!Unhealthy
  <2>. QED
    BY <2>1, <2>2, <2>3, <2>4, <2>5, <2>6 DEF Plans!Next
<1>. QED
  BY <1>1, <1>2, PTL DEF Plans!Spec

\* Whatever the scores make of the candidates, a subnet whose nodes are replaced,
\* healed or rescued ends with as many nodes as it had, and without those that
\* were to be replaced (network.rs:903-934).
THEOREM SizesAreKept == TopologiesKnown => (Plans!Spec => []Plans!SizeIsKept)
<1>. SUFFICES ASSUME TopologiesKnown
              PROVE  Plans!Spec => []Plans!SizeIsKept
  OBVIOUS
<1>1. SizesInv => Plans!SizeIsKept
  <2>. SUFFICES ASSUME SizesInv, Plans!Answered, request.kind \in {"replace", "heal", "rescue"}, NEW c \in changes,
                       request.kind = "replace" => request.filter.include \cap available = {}
                PROVE  /\ Plans!Cardinality(c.new) = Plans!Cardinality(c.old)
                       /\ request.kind = "replace" => request.replaced \subseteq Plans!Removed(c)
    BY DEF Plans!SizeIsKept
  <2>1. Finished(request, c) /\ KeepsSize(request)
    BY DEF SizesInv, DoneInv, KeepsSize
  <2>2. Plans!Cardinality(c.new) = Cardinality(c.new) /\ Plans!Cardinality(c.old) = Cardinality(c.old)
    BY SameCount
  <2>. QED
    BY <2>1, <2>2 DEF Finished, Plans!Removed
<1>. QED
  BY <1>1, SizesHold, PTL

\* However many subnets a heal request has, it gives no node to two of them, only
\* nodes that were spare, and keeps to its limit (network.rs:1093-1122).
THEOREM HealsAreKept ==
    TopologiesKnown => (Plans!Spec => [](Plans!HealGivesNodeOnce /\ Plans!HealRespectsLimit))
<1>. SUFFICES ASSUME TopologiesKnown
              PROVE  Plans!Spec => [](Plans!HealGivesNodeOnce /\ Plans!HealRespectsLimit)
  OBVIOUS
<1>1. SizesInv => Plans!HealGivesNodeOnce
  BY DEF SizesInv, DoneInv, Finished, Plans!HealGivesNodeOnce, Plans!Added
<1>2. SizesInv => Plans!HealRespectsLimit
  <2>. SUFFICES ASSUME SizesInv, request.kind = "heal", NEW c \in changes
                PROVE  LET left == c.new \cap Plans!Unhealthy(c.subnet, request.unhealthy)
                       IN  IF request.limit = NoLimit THEN left = {}
                           ELSE /\ Plans!Cardinality(Plans!Removed(c)) <= request.limit
                                /\ left # {} => Plans!Cardinality(Plans!Removed(c)) = request.limit
    BY DEF Plans!HealRespectsLimit
  <2>1. LimitKept(request, c.subnet, c.old, c.new, 0) /\ request.limit \in Nat \cup {NoLimit}
    BY DEF SizesInv, DoneInv, Finished
  <2>2. Plans!Cardinality(Plans!Removed(c)) = Cardinality(c.old \ c.new)
    BY SameCount DEF Plans!Removed
  <2>3. request.limit # NoLimit => Cardinality(c.old \ c.new) <= request.limit
    <3>1. ASSUME Cardinality(c.old \ c.new) \in Nat, request.limit # NoLimit
          PROVE  Cardinality(c.old \ c.new) <= request.limit
      BY <2>1, <3>1 DEF LimitKept
    <3>2. IsFiniteSet(c.old) /\ Cardinality(c.old \ c.new) \in Nat
      BY FS_Subset, FS_CardinalityType DEF TopologiesKnown, SizesInv, DoneInv, Finished
    <3>. QED
      BY <3>1, <3>2
  <2>. QED
    BY <2>1, <2>2, <2>3 DEF LimitKept
<1>. QED
  BY <1>1, <1>2, SizesHold, PTL

-----------------------------------------------------------------------------
(* The coefficient of Nakamoto: the largest actors join one after the other. *)

\* The nodes that some actors hold.
Held(nodes, f, actors) == Cardinality({n \in nodes : FeatureOf[n][f] \in actors})

LEMMA HeldGrows ==
    ASSUME NEW nodes, IsFiniteSet(nodes), NEW f, NEW A
    PROVE  /\ Held(nodes, f, A) \in 0..Cardinality(nodes) /\ Held(nodes, f, A) \in Nat
           /\ \A B : A \subseteq B => Held(nodes, f, A) <= Held(nodes, f, B)
<1>1. ASSUME NEW B
      PROVE  /\ IsFiniteSet({n \in nodes : FeatureOf[n][f] \in B})
             /\ Held(nodes, f, B) \in 0..Cardinality(nodes) /\ Held(nodes, f, B) \in Nat
  <2>. DEFINE H == {n \in nodes : FeatureOf[n][f] \in B}
  <2>1. H \in SUBSET nodes
    OBVIOUS
  <2>2. IsFiniteSet(H) /\ Cardinality(H) <= Cardinality(nodes)
    <3>. HIDE DEF H
    <3>. QED
      BY <2>1, FS_Subset
  <2>3. Cardinality(H) \in Nat /\ Cardinality(nodes) \in Nat
    <3>. HIDE DEF H
    <3>. QED
      BY <2>2, FS_CardinalityType
  <2>4. Held(nodes, f, B) = Cardinality(H)
    BY DEF Held
  <2>. HIDE DEF H
  <2>5. Held(nodes, f, B) \in 0..Cardinality(nodes) /\ Held(nodes, f, B) \in Nat
    BY <2>2, <2>3, <2>4
  <2>. QED
    BY <2>2, <2>5 DEF H
<1>2. ASSUME NEW B, A \subseteq B
      PROVE  Held(nodes, f, A) <= Held(nodes, f, B)
  <2>. DEFINE HA == {n \in nodes : FeatureOf[n][f] \in A}
              HB == {n \in nodes : FeatureOf[n][f] \in B}
  <2>1. HA \in SUBSET HB
    BY <1>2
  <2>2. IsFiniteSet(HB)
    BY <1>1
  <2>3. Held(nodes, f, A) = Cardinality(HA) /\ Held(nodes, f, B) = Cardinality(HB)
    BY DEF Held
  <2>. HIDE DEF HA, HB
  <2>. QED
    BY <2>1, <2>2, <2>3, FS_Subset
<1>. QED
  BY <1>1, <1>2

LEMMA CountIsNumber ==
    ASSUME NEW nodes, IsFiniteSet(nodes), NEW f, NEW v
    PROVE  /\ Plans!CountOf(nodes, f, v) \in Nat
           /\ Plans!CountOf(nodes, f, v) = Cardinality({n \in nodes : FeatureOf[n][f] = v})
<1>. DEFINE H == {n \in nodes : FeatureOf[n][f] = v}
<1>1. Plans!CountOf(nodes, f, v) = Cardinality(H)
  BY SameCount DEF Plans!CountOf
<1>2. H \in SUBSET nodes
  OBVIOUS
<1>3. Cardinality(H) \in Nat
  <2>. HIDE DEF H
  <2>. QED
    BY <1>2, FS_Subset, FS_CardinalityType
<1>. QED
  BY <1>1, <1>3

\* One more actor brings its own nodes.
LEMMA HeldWith ==
    ASSUME NEW nodes, IsFiniteSet(nodes), NEW f, NEW A, NEW v, v \notin A
    PROVE  Held(nodes, f, A \cup {v}) = Held(nodes, f, A) + Plans!CountOf(nodes, f, v)
<1>. DEFINE HA == {n \in nodes : FeatureOf[n][f] \in A}
            HV == {n \in nodes : FeatureOf[n][f] = v}
            H  == {n \in nodes : FeatureOf[n][f] \in A \cup {v}}
<1>1. H = HA \cup HV /\ HA \cap HV = {}
  OBVIOUS
<1>2. IsFiniteSet(HA) /\ IsFiniteSet(HV)
  <2>1. HA \in SUBSET nodes /\ HV \in SUBSET nodes
    OBVIOUS
  <2>. HIDE DEF HA, HV
  <2>. QED
    BY <2>1, FS_Subset
<1>3. /\ Held(nodes, f, A \cup {v}) = Cardinality(H) /\ Held(nodes, f, A) = Cardinality(HA)
      /\ Plans!CountOf(nodes, f, v) = Cardinality(HV)
  BY CountIsNumber DEF Held
<1>. HIDE DEF H, HA, HV
<1>4. Cardinality(HA \cup HV) = Cardinality(HA) + Cardinality(HV) - Cardinality(HA \cap HV)
  BY <1>2, FS_Union
<1>5. Cardinality(HA \cap HV) = 0
  BY <1>1, FS_EmptySet
<1>6. Cardinality(HA) \in Nat /\ Cardinality(HV) \in Nat
  BY <1>2, FS_CardinalityType
<1>. QED
  BY <1>1, <1>3, <1>4, <1>5, <1>6

\* There are finitely many actors, and they hold all nodes.
LEMMA AllActors ==
    ASSUME NEW nodes, IsFiniteSet(nodes), NEW f
    PROVE  /\ IsFiniteSet(Plans!ValuesOf(nodes, f)) /\ Cardinality(Plans!ValuesOf(nodes, f)) \in Nat
           /\ Held(nodes, f, Plans!ValuesOf(nodes, f)) = Cardinality(nodes)
<1>. DEFINE V == Plans!ValuesOf(nodes, f)
            F == [n \in nodes |-> FeatureOf[n][f]]
<1>1. V = {FeatureOf[n][f] : n \in nodes}
  BY DEF Plans!ValuesOf
<1>2. F \in Surjection(nodes, V)
  <2>1. F \in [nodes -> V] /\ \A v \in V : \E n \in nodes : F[n] = v
    BY <1>1
  <2>. HIDE DEF F, V
  <2>. QED
    BY <2>1 DEF Surjection
<1>3. IsFiniteSet(V) /\ Cardinality(V) \in Nat
  <2>. HIDE DEF F, V
  <2>. QED
    BY <1>2, FS_Surjection, FS_CardinalityType
<1>4. {n \in nodes : FeatureOf[n][f] \in V} = nodes
  BY <1>1
<1>. QED
  BY <1>3, <1>4 DEF Held

\* There is a largest actor among any.
LEMMA LargestIsOne ==
    ASSUME NEW nodes, IsFiniteSet(nodes), NEW f, NEW actors, actors # {}
    PROVE  /\ Plans!Largest(nodes, f, actors) \in actors
           /\ \A w \in actors : Plans!CountOf(nodes, f, w) <= Plans!CountOf(nodes, f, Plans!Largest(nodes, f, actors))
<1>. DEFINE Counted == {Plans!CountOf(nodes, f, v) : v \in actors}
            n == Cardinality(nodes)
<1>1. ASSUME NEW v
      PROVE  Plans!CountOf(nodes, f, v) \in 0..n
  <2>1. {m \in nodes : FeatureOf[m][f] \in {v}} = {m \in nodes : FeatureOf[m][f] = v}
    OBVIOUS
  <2>2. Plans!CountOf(nodes, f, v) = Held(nodes, f, {v})
    BY <2>1, CountIsNumber DEF Held
  <2>. QED
    BY <2>2, HeldGrows
<1>2. Counted \in SUBSET (0..n) /\ Counted # {} /\ n \in Nat
  BY <1>1, FS_CardinalityType
<1>3. Max(Counted) \in Counted /\ \A y \in Counted : y <= Max(Counted)
  <2>. HIDE DEF Counted, n
  <2>. QED
    BY <1>2, MaxTypeFromZero
<1>4. PICK v \in actors : Plans!CountOf(nodes, f, v) = Max(Counted)
  BY <1>3
<1>5. \A w \in actors : Plans!CountOf(nodes, f, w) <= Plans!CountOf(nodes, f, v)
  BY <1>3, <1>4
<1>. QED
  BY <1>5 DEF Plans!Largest

\* The loop of Coalition: what it knows after k actors.
Joining(nodes, f, limit, c, k) ==
    LET V == Plans!ValuesOf(nodes, f)
    IN  /\ c.left \subseteq V /\ Cardinality(V \ c.left) = c.actors /\ c.actors \in 0..k
        /\ c.nodes = Held(nodes, f, V \ c.left)
        /\ \A A \in SUBSET V : Cardinality(A) = c.actors => Held(nodes, f, A) <= c.nodes
        /\ \A A \in SUBSET V : Cardinality(A) < c.actors => Held(nodes, f, A) <= limit
        /\ c.nodes > limit \/ c.actors = k

\* The next actor.
JoinOne(nodes, f, c) ==
    LET v == Plans!Largest(nodes, f, c.left)
    IN  [left |-> c.left \ {v}, actors |-> c.actors + 1, nodes |-> c.nodes + Plans!CountOf(nodes, f, v)]

LEMMA JoiningStarts ==
    ASSUME NEW nodes, IsFiniteSet(nodes), NEW f, NEW limit \in Int
    PROVE  Joining(nodes, f, limit, [left |-> Plans!ValuesOf(nodes, f), actors |-> 0, nodes |-> 0], 0)
<1>. DEFINE V == Plans!ValuesOf(nodes, f)
            c == [left |-> V, actors |-> 0, nodes |-> 0]
<1>1. IsFiniteSet(V)
  BY AllActors
<1>2. Held(nodes, f, {}) = 0
  <2>1. {n \in nodes : FeatureOf[n][f] \in {}} = {}
    OBVIOUS
  <2>. QED
    BY <2>1, FS_EmptySet DEF Held
<1>3. ASSUME NEW A \in SUBSET V
      PROVE  Cardinality(A) \in Nat /\ (Cardinality(A) = 0 => A = {})
  <2>. HIDE DEF V
  <2>. QED
    BY <1>1, FS_Subset, FS_EmptySet, FS_CardinalityType
<1>4. V \ V = {} /\ Cardinality({}) = 0
  BY FS_EmptySet
<1>5. c.left = V /\ c.actors = 0 /\ c.nodes = 0
  OBVIOUS
<1>. HIDE DEF V, c
<1>. QED
  BY <1>2, <1>3, <1>4, <1>5 DEF Joining, V, c

LEMMA JoiningGoesOn ==
    ASSUME NEW nodes, IsFiniteSet(nodes), NEW f, NEW limit \in Int, NEW k \in Nat,
           k < Cardinality(Plans!ValuesOf(nodes, f)), NEW c, Joining(nodes, f, limit, c, k), c.nodes <= limit
    PROVE  Joining(nodes, f, limit, JoinOne(nodes, f, c), k + 1)
<1>. DEFINE V == Plans!ValuesOf(nodes, f)
            T == V \ c.left
            v == Plans!Largest(nodes, f, c.left)
            d == JoinOne(nodes, f, c)
<1>1. /\ c.left \subseteq V /\ Cardinality(T) = c.actors /\ c.actors = k /\ c.nodes = Held(nodes, f, T)
      /\ \A A \in SUBSET V : Cardinality(A) = k => Held(nodes, f, A) <= c.nodes
      /\ \A A \in SUBSET V : Cardinality(A) < k => Held(nodes, f, A) <= limit
  <2>1. c.nodes \in Nat
    BY HeldGrows, FS_CardinalityType DEF Joining
  <2>2. ~(c.nodes > limit)
    BY <2>1
  <2>. QED
    BY <2>2 DEF Joining
<1>2. IsFiniteSet(V) /\ Cardinality(V) \in Nat
  BY AllActors
<1>3. T \subseteq V /\ T # V
  BY <1>1
<1>4. c.left # {}
  BY <1>1, <1>3
<1>5. v \in c.left /\ \A w \in c.left : Plans!CountOf(nodes, f, w) <= Plans!CountOf(nodes, f, v)
  BY <1>4, LargestIsOne
<1>6. d.left = c.left \ {v} /\ d.actors = k + 1 /\ d.nodes = c.nodes + Plans!CountOf(nodes, f, v)
  BY <1>1 DEF JoinOne
<1>. HIDE DEF d, v
<1>7. V \ d.left = T \cup {v} /\ v \notin T /\ v \in V
  BY <1>1, <1>5, <1>6
<1>. HIDE DEF V
<1>8. IsFiniteSet(T) /\ Cardinality(T \cup {v}) = k + 1
  <2>1. IsFiniteSet(T)
    BY <1>2, <1>3, FS_Subset
  <2>. QED
    BY <1>1, <1>7, <2>1, FS_AddElement
<1>9. d.nodes = Held(nodes, f, T \cup {v})
  BY <1>1, <1>6, <1>7, HeldWith
<1>. HIDE DEF T
<1>10. ASSUME NEW A \in SUBSET V, Cardinality(A) = k + 1
       PROVE  Held(nodes, f, A) <= d.nodes
  <2>1. IsFiniteSet(A)
    BY <1>2, FS_Subset
  <2>2. ~(A \subseteq T)
    <3>1. A \subseteq T => Cardinality(A) <= Cardinality(T)
      BY <1>8, FS_Subset
    <3>. QED
      BY <1>1, <1>10, <3>1
  <2>3. PICK w \in A : w \in c.left
    BY <2>2 DEF T
  <2>. DEFINE B == A \ {w}
  <2>4. Cardinality(B) = k /\ B \in SUBSET V
    <3>1. Cardinality(A \ {w}) = Cardinality(A) - 1
      BY <2>1, <2>3, FS_RemoveElement
    <3>. QED
      BY <1>10, <3>1
  <2>5. A = B \cup {w} /\ w \notin B
    OBVIOUS
  <2>. HIDE DEF B
  <2>6. Held(nodes, f, A) = Held(nodes, f, B) + Plans!CountOf(nodes, f, w)
    BY <2>5, HeldWith
  <2>7. Held(nodes, f, B) <= c.nodes /\ Plans!CountOf(nodes, f, w) <= Plans!CountOf(nodes, f, v)
    BY <1>1, <1>5, <2>3, <2>4
  <2>8. /\ Held(nodes, f, B) \in Nat /\ c.nodes \in Nat
        /\ Plans!CountOf(nodes, f, w) \in Nat /\ Plans!CountOf(nodes, f, v) \in Nat
    <3>1. Held(nodes, f, B) \in Nat /\ Held(nodes, f, T) \in Nat
      BY HeldGrows
    <3>2. Plans!CountOf(nodes, f, w) \in Nat /\ Plans!CountOf(nodes, f, v) \in Nat
      BY CountIsNumber
    <3>. QED
      BY <1>1, <3>1, <3>2
  <2>. QED
    BY <1>6, <2>6, <2>7, <2>8
<1>11. ASSUME NEW A \in SUBSET V, Cardinality(A) < k + 1
       PROVE  Held(nodes, f, A) <= limit
  <2>1. Cardinality(A) \in Nat
    BY <1>2, FS_Subset, FS_CardinalityType
  <2>2. CASE Cardinality(A) < k
    BY <1>1, <2>2
  <2>3. CASE Cardinality(A) = k
    <3>1. Held(nodes, f, A) <= c.nodes
      BY <1>1, <2>3
    <3>2. Held(nodes, f, A) \in Int /\ c.nodes \in Int
      BY <1>1, HeldGrows, FS_CardinalityType
    <3>. QED
      BY <3>1, <3>2
  <2>. QED
    BY <1>11, <2>1, <2>2, <2>3
<1>12. d.left \subseteq V /\ Cardinality(V \ d.left) = d.actors /\ d.actors \in 0..(k + 1)
       /\ d.nodes = Held(nodes, f, V \ d.left) /\ d.actors = k + 1
  BY <1>1, <1>6, <1>7, <1>8, <1>9
<1>. QED
  BY <1>10, <1>11, <1>12 DEF Joining, V, d

LEMMA JoiningStops ==
    ASSUME NEW nodes, NEW f, NEW limit \in Int, NEW k \in Nat, NEW c,
           Joining(nodes, f, limit, c, k), c.nodes > limit
    PROVE  Joining(nodes, f, limit, c, k + 1)
<1>1. 0..k \subseteq 0..(k + 1)
  OBVIOUS
<1>. QED
  BY <1>1 DEF Joining

\* Every turn of the loop, and so its end.
LEMMA CoalitionJoins ==
    ASSUME NEW nodes, IsFiniteSet(nodes), NEW f, NEW limit \in Int
    PROVE  Joining(nodes, f, limit, Plans!Coalition(nodes, f, limit), Cardinality(Plans!ValuesOf(nodes, f)))
<1>. DEFINE V == Plans!ValuesOf(nodes, f)
            N == Cardinality(V)
            S == [left : SUBSET V, actors : Nat, nodes : Nat]
            start == [left |-> V, actors |-> 0, nodes |-> 0]
            Turn(c) == IF c.nodes > limit THEN c ELSE JoinOne(nodes, f, c)
            step == [n \in Nat |-> [c \in S |-> Turn(c)]]
            IsIt(g) == g = [k \in 0..N |-> IF k = 0 THEN start ELSE Turn(g[k - 1])]
            after == CHOOSE g : IsIt(g)
<1>0. after[N] = Plans!Coalition(nodes, f, limit)
  <2>1. \A g : IsIt(g) <=> g = [k \in 0..Plans!Cardinality(V) |->
                                  IF k = 0 THEN [left |-> V, actors |-> 0, nodes |-> 0]
                                  ELSE IF g[k - 1].nodes > limit THEN g[k - 1] ELSE JoinOne(nodes, f, g[k - 1])]
    BY SameCount
  <2>. QED
    BY SameCount DEF Plans!Coalition, JoinOne
<1>1. N \in Nat
  BY AllActors
<1>2. ASSUME NEW c \in S
      PROVE  Turn(c) \in S
  <2>1. JoinOne(nodes, f, c) \in S
    <3>1. Plans!CountOf(nodes, f, Plans!Largest(nodes, f, c.left)) \in Nat
      BY CountIsNumber
    <3>. QED
      BY <3>1 DEF JoinOne
  <2>. QED
    BY <2>1
<1>. HIDE DEF Turn
<1>3. step \in [Nat -> [S -> S]]
  <2>. HIDE DEF S
  <2>. QED
    BY <1>2
<1>4. start \in S
  OBVIOUS
<1>5. \E g : IsIt(g)
  <2>1. BehaviourUpTo(N, S, start, step) # {}
    <3>. HIDE DEF step, S, N, start
    <3>. QED
      BY <1>1, <1>3, <1>4, RecursionUpTo
  <2>. PICK g : g \in BehaviourUpTo(N, S, start, step)
    BY <2>1
  <2>. HIDE DEF S, start
  <2>2. g \in [0..N -> S] /\ g[0] = start /\ \A n \in 1..N : g[n] = step[n - 1][g[n - 1]]
    BY DEF BehaviourUpTo
  <2>. HIDE DEF N
  <2>3. ASSUME NEW k \in 1..N
        PROVE  g[k] = Turn(g[k - 1])
    <3>1. k - 1 \in Nat /\ k - 1 \in 0..N
      BY <1>1
    <3>2. g[k - 1] \in S
      BY <2>2, <3>1
    <3>. QED
      BY <2>2, <3>1, <3>2
  <2>4. ASSUME NEW k \in 0..N
        PROVE  g[k] = IF k = 0 THEN start ELSE Turn(g[k - 1])
    <3>1. CASE k = 0
      BY <2>2, <3>1
    <3>2. CASE k # 0
      <4>1. k \in 1..N
        BY <1>1, <3>2
      <4>. QED
        BY <2>3, <3>2, <4>1
    <3>. QED
      BY <3>1, <3>2
  <2>5. IsIt(g)
    BY <2>2, <2>4
  <2>. QED
    BY <2>5
<1>6. IsIt(after)
  <2>. HIDE DEF IsIt
  <2>. QED
    BY <1>5
<1>. HIDE DEF after
<1>7. after[0] = start /\ \A k \in 1..N : after[k] = Turn(after[k - 1])
  <2>. HIDE DEF start, N
  <2>1. \A k \in 0..N : after[k] = IF k = 0 THEN start ELSE Turn(after[k - 1])
    BY <1>6
  <2>2. 0 \in 0..N /\ \A k \in 1..N : k \in 0..N /\ k # 0
    BY <1>1
  <2>. QED
    BY <2>1, <2>2
<1>. DEFINE P == {k \in 0..N : Joining(nodes, f, limit, after[k], k)}
<1>8. 0 \in P
  <2>1. Joining(nodes, f, limit, start, 0)
    BY JoiningStarts
  <2>. HIDE DEF start, N
  <2>. QED
    BY <1>1, <1>7, <2>1
<1>9. ASSUME NEW k \in P, k < N
      PROVE  k + 1 \in P
  <2>. HIDE DEF start
  <2>1. k \in Nat /\ k + 1 \in 1..N /\ k + 1 - 1 = k /\ Joining(nodes, f, limit, after[k], k)
    BY <1>1, <1>9
  <2>2. after[k + 1] = Turn(after[k])
    BY <1>7, <2>1
  <2>3. after[k].nodes \in Int
    BY <2>1, HeldGrows, FS_CardinalityType DEF Joining
  <2>4. Joining(nodes, f, limit, Turn(after[k]), k + 1)
    <3>1. CASE after[k].nodes > limit
      BY <2>1, <3>1, JoiningStops DEF Turn
    <3>2. CASE ~(after[k].nodes > limit)
      <4>1. after[k].nodes <= limit
        BY <2>3, <3>2
      <4>2. Joining(nodes, f, limit, JoinOne(nodes, f, after[k]), k + 1)
        BY <1>9, <2>1, <4>1, JoiningGoesOn
      <4>. QED
        BY <3>2, <4>2 DEF Turn
    <3>. QED
      BY <3>1, <3>2
  <2>. QED
    BY <1>1, <2>1, <2>2, <2>4
<1>10. P = 0..N
  <2>1. P \in SUBSET (0..N)
    OBVIOUS
  <2>. HIDE DEF P, N
  <2>. QED
    BY <1>1, <1>8, <1>9, <2>1, InductionUpTo
<1>11. N \in P
  BY <1>1, <1>10
<1>. QED
  BY <1>0, <1>11

\* What the loop ends with is what a coefficient is: no smaller group of actors holds
\* more than a third of the nodes, and the nodes are as many as those of any group of
\* this size.
LEMMA NakamotoIsLeast ==
    ASSUME NEW nodes, IsFiniteSet(nodes), nodes # {}, NEW f
    PROVE  LET V == Plans!ValuesOf(nodes, f)
               third == Cardinality(nodes) \div 3
               c == Plans!Nakamoto(nodes, f)
           IN  /\ c.actors \in Nat /\ c.nodes \in 0..Cardinality(nodes)
               /\ \A A \in SUBSET V : Held(nodes, f, A) > third => Cardinality(A) \in Nat /\ c.actors <= Cardinality(A)
               /\ \A A \in SUBSET V : Cardinality(A) = c.actors => Held(nodes, f, A) <= c.nodes
               /\ \E A \in SUBSET V : /\ Held(nodes, f, A) > third /\ Cardinality(A) = c.actors
                                      /\ Held(nodes, f, A) = c.nodes
<1>. DEFINE V == Plans!ValuesOf(nodes, f)
            third == Cardinality(nodes) \div 3
            c == Plans!Nakamoto(nodes, f)
            T == V \ c.left
<1>1. Cardinality(nodes) \in Nat /\ Cardinality(nodes) # 0
  BY FS_CardinalityType, FS_EmptySet
<1>2. third \in Nat /\ third < Cardinality(nodes)
  BY <1>1
<1>3. c = Plans!Coalition(nodes, f, third)
  BY SameCount DEF Plans!Nakamoto
<1>4. IsFiniteSet(V) /\ Cardinality(V) \in Nat /\ Held(nodes, f, V) = Cardinality(nodes)
  BY AllActors
<1>. HIDE DEF c
<1>5. /\ c.left \subseteq V /\ Cardinality(T) = c.actors /\ c.actors \in Nat
      /\ c.nodes = Held(nodes, f, T)
      /\ \A A \in SUBSET V : Cardinality(A) = c.actors => Held(nodes, f, A) <= c.nodes
      /\ \A A \in SUBSET V : Cardinality(A) < c.actors => Held(nodes, f, A) <= third
      /\ c.nodes > third \/ c.actors = Cardinality(V)
  <2>1. Joining(nodes, f, third, c, Cardinality(V))
    BY <1>2, <1>3, CoalitionJoins
  <2>. HIDE DEF third
  <2>. QED
    BY <1>4, <2>1 DEF Joining
<1>. HIDE DEF V, third
<1>6. c.nodes > third
  <2>1. CASE c.actors = Cardinality(V)
    <3>1. T \in SUBSET V
      OBVIOUS
    <3>2. T = V
      BY <1>4, <1>5, <2>1, <3>1, FS_Subset
    <3>. QED
      BY <1>1, <1>2, <1>4, <1>5, <3>2
  <2>. QED
    BY <1>5, <2>1
<1>7. ASSUME NEW A \in SUBSET V, Held(nodes, f, A) > third
      PROVE  Cardinality(A) \in Nat /\ c.actors <= Cardinality(A)
  <2>1. Cardinality(A) \in Nat
    BY <1>4, FS_Subset, FS_CardinalityType
  <2>2. Held(nodes, f, A) \in Nat
    BY HeldGrows
  <2>3. ~(Cardinality(A) < c.actors)
    BY <1>2, <1>5, <1>7, <2>2
  <2>. QED
    BY <1>5, <2>1, <2>3
<1>8. c.nodes \in 0..Cardinality(nodes)
  BY <1>5, HeldGrows
<1>9. \E A \in SUBSET V : /\ Held(nodes, f, A) > third /\ Cardinality(A) = c.actors
                          /\ Held(nodes, f, A) = c.nodes
  <2>1. T \in SUBSET V
    OBVIOUS
  <2>. QED
    BY <1>5, <1>6, <2>1
<1>. QED
  BY <1>5, <1>7, <1>8, <1>9 DEF V, third, c

LEMMA SameMin ==
    ASSUME NEW S
    PROVE  Plans!Min(S) = Min(S)
  BY DEF Plans!Min, Min

LEMMA SameMax ==
    ASSUME NEW S
    PROVE  Plans!Max(S) = Max(S)
  BY DEF Plans!Max, Max

\* The coefficients and the nodes held, of any set of nodes.
LEMMA CoefficientsAreLeast ==
    ASSUME IsFiniteSet(Node), change.nodes \subseteq Node
    PROVE  Plans!CoefficientIsLeastCoalition
<1>. DEFINE nodes == change.nodes
            third == Cardinality(nodes) \div 3
<1>0. nodes \in SUBSET Node /\ IsFiniteSet(nodes)
  BY FS_Subset
<1>1. ASSUME NEW f \in Plans!Feature, nodes # {}
      PROVE  LET Coalitions == {A \in SUBSET Plans!ValuesOf(nodes, f) : Held(nodes, f, A) > third}
                 least == Plans!Score[nodes].coefficients[f]
             IN  /\ least = Min({Cardinality(A) : A \in Coalitions})
                 /\ Plans!Score[nodes].controlled[f] = Max({Held(nodes, f, A) : A \in {B \in Coalitions : Cardinality(B) = least}})
  <2>. DEFINE c == Plans!Nakamoto(nodes, f)
              V == Plans!ValuesOf(nodes, f)
              Coalitions == {A \in SUBSET V : Held(nodes, f, A) > third}
              sizes == {Cardinality(A) : A \in Coalitions}
              held == {Held(nodes, f, A) : A \in {B \in Coalitions : Cardinality(B) = c.actors}}
  <2>1. Plans!Score[nodes] = Plans!ScoreOf(nodes)
    BY <1>0 DEF Plans!Score
  <2>2. Plans!ScoreOf(nodes).coefficients[f] = c.actors /\ Plans!ScoreOf(nodes).controlled[f] = c.nodes
    BY DEF Plans!ScoreOf
  <2>3. /\ c.actors \in Nat /\ c.nodes \in 0..Cardinality(nodes)
        /\ \A A \in SUBSET V : Held(nodes, f, A) > third => Cardinality(A) \in Nat /\ c.actors <= Cardinality(A)
        /\ \A A \in SUBSET V : Cardinality(A) = c.actors => Held(nodes, f, A) <= c.nodes
        /\ \E A \in SUBSET V : /\ Held(nodes, f, A) > third /\ Cardinality(A) = c.actors
                               /\ Held(nodes, f, A) = c.nodes
    BY <1>0, <1>1, NakamotoIsLeast
  <2>4. sizes \in SUBSET Nat /\ c.actors \in sizes /\ \A k \in sizes : c.actors <= k
    <3>. HIDE DEF c, third, V
    <3>. QED
      BY <2>3
  <2>5. c.actors = Min(sizes)
    <3>1. Min(sizes) \in sizes /\ Min(sizes) <= c.actors
      <4>. HIDE DEF sizes, c
      <4>. QED
        BY <2>4, MinType
    <3>. HIDE DEF sizes, c
    <3>2. c.actors <= Min(sizes) /\ Min(sizes) \in Nat /\ c.actors \in Nat
      BY <2>4, <3>1
    <3>. QED
      BY <3>1, <3>2
  <2>6. held \in SUBSET (0..Cardinality(nodes)) /\ c.nodes \in held /\ \A k \in held : k <= c.nodes
    <3>1. \A A \in SUBSET V : Held(nodes, f, A) \in 0..Cardinality(nodes)
      BY <1>0, HeldGrows
    <3>. HIDE DEF c, third, V
    <3>. QED
      BY <2>3, <3>1
  <2>7. c.nodes = Max(held)
    <3>0. Cardinality(nodes) \in Nat
      BY <1>0, FS_CardinalityType
    <3>1. Max(held) \in held /\ c.nodes <= Max(held)
      <4>. HIDE DEF held, c
      <4>. QED
        BY <2>6, <3>0, MaxTypeFromZero
    <3>. HIDE DEF held, c
    <3>2. Max(held) <= c.nodes
      BY <2>6, <3>1
    <3>3. Max(held) \in 0..Cardinality(nodes) /\ c.nodes \in 0..Cardinality(nodes)
      BY <2>6, <3>1
    <3>. QED
      BY <3>0, <3>1, <3>2, <3>3
  <2>. QED
    BY <2>1, <2>2, <2>5, <2>7
<1>2. ASSUME NEW f \in Plans!Feature, nodes # {}
      PROVE  LET HeldBy(actors) == Plans!Cardinality({n \in nodes : FeatureOf[n][f] \in actors})
                 Coalitions == {A \in SUBSET Plans!ValuesOf(nodes, f) : HeldBy(A) > Plans!Cardinality(nodes) \div 3}
                 least == Plans!Score[nodes].coefficients[f]
             IN  /\ least = Plans!Min({Plans!Cardinality(A) : A \in Coalitions})
                 /\ Plans!Score[nodes].controlled[f]
                      = Plans!Max({HeldBy(A) : A \in {B \in Coalitions : Plans!Cardinality(B) = least}})
  <2>. DEFINE V == Plans!ValuesOf(nodes, f)
              least == Plans!Score[nodes].coefficients[f]
              HeldBy(A) == Plans!Cardinality({n \in nodes : FeatureOf[n][f] \in A})
              Seen == {A \in SUBSET V : HeldBy(A) > Plans!Cardinality(nodes) \div 3}
              Coalitions == {A \in SUBSET V : Held(nodes, f, A) > third}
              seenSizes == {Plans!Cardinality(A) : A \in Seen}
              sizes == {Cardinality(A) : A \in Coalitions}
              seenHeld == {HeldBy(A) : A \in {B \in Seen : Plans!Cardinality(B) = least}}
              held == {Held(nodes, f, A) : A \in {B \in Coalitions : Cardinality(B) = least}}
  <2>1. \A A : HeldBy(A) = Held(nodes, f, A)
    BY SameCount DEF Held
  <2>2. \A A : Plans!Cardinality(A) = Cardinality(A)
    BY SameCount
  <2>3. least = Min(sizes) /\ Plans!Score[nodes].controlled[f] = Max(held)
    BY <1>1, <1>2
  <2>. HIDE DEF HeldBy, V, least
  <2>4. Seen = Coalitions
    BY <2>1, <2>2
  <2>. HIDE DEF Seen, Coalitions
  <2>5. seenSizes = sizes /\ seenHeld = held
    BY <2>1, <2>2, <2>4
  <2>. HIDE DEF seenSizes, sizes, seenHeld, held
  <2>6. least = Plans!Min(seenSizes) /\ Plans!Score[nodes].controlled[f] = Plans!Max(seenHeld)
    BY <2>3, <2>5, SameMin, SameMax
  <2>. QED
    BY <2>6 DEF seenSizes, seenHeld, Seen, HeldBy, V, least
<1>. QED
  BY <1>2 DEF Plans!CoefficientIsLeastCoalition

-----------------------------------------------------------------------------
(* The penalties are numbers.                                                *)

LEMMA TotalIsNumber ==
    ASSUME FeaturesKnown, NEW g, \A f \in Plans!Feature : g[f] \in Nat
    PROVE  Plans!Total(g) \in Nat
<1>. DEFINE N == Len(Variants)
            Turn(n, s) == s + g[Variants[n]]
            After(n, s) == IF n < N THEN Turn(n + 1, s) ELSE s
            step == [n \in Nat |-> [s \in Nat |-> After(n, s)]]
            IsIt(h) == h = [k \in 0..N |-> IF k = 0 THEN 0 ELSE Turn(k, h[k - 1])]
            sum == CHOOSE h : IsIt(h)
<1>0. sum[N] = Plans!Total(g)
  BY DEF Plans!Total
<1>1. N \in Nat /\ \A n \in 1..N : Variants[n] \in Plans!Feature
  BY DEF FeaturesKnown
<1>2. ASSUME NEW n \in 1..N, NEW s \in Nat
      PROVE  Turn(n, s) \in Nat
  <2>1. g[Variants[n]] \in Nat
    BY <1>1
  <2>. QED
    BY <2>1
<1>. HIDE DEF Turn
<1>3. step \in [Nat -> [Nat -> Nat]]
  <2>1. ASSUME NEW n \in Nat, NEW s \in Nat
        PROVE  After(n, s) \in Nat
    <3>1. CASE n < N
      <4>1. n + 1 \in 1..N
        BY <1>1, <3>1
      <4>. QED
        BY <1>2, <3>1, <4>1
    <3>. QED
      BY <3>1
  <2>. HIDE DEF After
  <2>. QED
    BY <2>1
<1>4. \E h : IsIt(h)
  <2>1. BehaviourUpTo(N, Nat, 0, step) # {}
    <3>. HIDE DEF step, N
    <3>. QED
      BY <1>1, <1>3, RecursionUpTo
  <2>. PICK h : h \in BehaviourUpTo(N, Nat, 0, step)
    BY <2>1
  <2>2. h \in [0..N -> Nat] /\ h[0] = 0 /\ \A n \in 1..N : h[n] = step[n - 1][h[n - 1]]
    BY DEF BehaviourUpTo
  <2>3. ASSUME NEW p \in 1..N
        PROVE  h[p] = Turn(p, h[p - 1])
    <3>1. p - 1 \in Nat /\ p - 1 \in 0..N /\ p - 1 < N /\ p - 1 + 1 = p
      BY <1>1
    <3>2. h[p - 1] \in Nat
      BY <2>2, <3>1
    <3>3. step[p - 1][h[p - 1]] = After(p - 1, h[p - 1])
      BY <3>1, <3>2
    <3>. QED
      BY <2>2, <3>1, <3>3
  <2>4. ASSUME NEW p \in 0..N
        PROVE  h[p] = IF p = 0 THEN 0 ELSE Turn(p, h[p - 1])
    <3>1. CASE p = 0
      BY <2>2, <3>1
    <3>2. CASE p # 0
      <4>1. p \in 1..N
        BY <1>1, <3>2
      <4>. QED
        BY <2>3, <3>2, <4>1
    <3>. QED
      BY <3>1, <3>2
  <2>5. IsIt(h)
    BY <2>2, <2>4
  <2>. QED
    BY <2>5
<1>5. IsIt(sum)
  BY <1>4
<1>6. sum[0] = 0 /\ \A n \in 1..N : sum[n] = Turn(n, sum[n - 1])
  <2>. HIDE DEF sum
  <2>. QED
    BY <1>1, <1>5
<1>. HIDE DEF sum
<1>. DEFINE P == {n \in 0..N : sum[n] \in Nat}
<1>7. 0 \in P
  BY <1>1, <1>6
<1>8. ASSUME NEW n \in P, n < N
      PROVE  n + 1 \in P
  <2>1. n \in Nat /\ n + 1 \in 1..N /\ n + 1 \in 0..N /\ (n + 1) - 1 = n
    BY <1>1, <1>8
  <2>2. sum[n + 1] = Turn(n + 1, sum[n])
    BY <1>6, <2>1
  <2>. QED
    BY <1>2, <2>1, <2>2
<1>9. P = 0..N
  <2>1. P \in SUBSET (0..N)
    OBVIOUS
  <2>. HIDE DEF P, N
  <2>. QED
    BY <1>1, <1>7, <1>8, <2>1, InductionUpTo
<1>. QED
  BY <1>0, <1>1, <1>9

LEMMA PositiveIsNumber ==
    ASSUME NEW x \in Int
    PROVE  Plans!Positive(x) \in Nat
  BY DEF Plans!Positive

\* A penalty is not negative (network.rs:149).
LEMMA PenaltyIsNumber ==
    ASSUME FeaturesKnown, IsFiniteSet(Node), NEW s, NEW nodes \in SUBSET Node, NEW min \in Mins
    PROVE  Plans!Penalty(s, nodes, min) \in Nat
<1>. DEFINE score == Plans!Score[nodes]
            size == Cardinality(nodes)
<1>1. IsFiniteSet(nodes) /\ size \in Nat
  BY FS_Subset, FS_CardinalityType
<1>2. ASSUME NEW S
      PROVE  Cardinality(nodes \cap S) \in Nat /\ Cardinality(nodes \ S) \in Nat
  <2>1. nodes \cap S \in SUBSET nodes /\ nodes \ S \in SUBSET nodes
    OBVIOUS
  <2>. QED
    BY <1>1, <2>1, FS_Subset, FS_CardinalityType
<1>3. CASE size <= 1
  BY <1>3, SameCount DEF Plans!Penalty
<1>4. CASE ~(size <= 1)
  <2>0. nodes # {}
    BY <1>4, FS_EmptySet
  <2>1. score = Plans!ScoreOf(nodes)
    BY DEF Plans!Score
  <2>. HIDE DEF score
  <2>2. ASSUME NEW f \in Plans!Feature
        PROVE  /\ score.coefficients[f] \in Nat /\ score.controlled[f] \in Nat /\ score.largest[f] \in Nat
               /\ score.coefficients[f] = Plans!Nakamoto(nodes, f).actors
    <3>1. /\ Plans!ScoreOf(nodes).coefficients[f] = Plans!Nakamoto(nodes, f).actors
          /\ Plans!ScoreOf(nodes).controlled[f] = Plans!Nakamoto(nodes, f).nodes
      BY DEF Plans!ScoreOf
    <3>2. Plans!ScoreOf(nodes).largest[f] = Plans!CountOf(nodes, f, Plans!Largest(nodes, f, Plans!ValuesOf(nodes, f)))
      BY <2>0 DEF Plans!ScoreOf
    <3>3. Plans!Nakamoto(nodes, f).actors \in Nat /\ Plans!Nakamoto(nodes, f).nodes \in 0..size
      BY <1>1, <2>0, NakamotoIsLeast
    <3>4. Plans!CountOf(nodes, f, Plans!Largest(nodes, f, Plans!ValuesOf(nodes, f))) \in Nat
      BY <1>1, CountIsNumber
    <3>5. Plans!Nakamoto(nodes, f).nodes \in Nat
      BY <1>1, <3>3
    <3>. QED
      BY <2>1, <3>1, <3>2, <3>3, <3>4, <3>5
  <2>3. score.sum \in Nat
    <3>. DEFINE result == [f \in Plans!Feature |-> Plans!Nakamoto(nodes, f)]
                actors == [f \in Plans!Feature |-> result[f].actors]
    <3>1. Plans!ScoreOf(nodes).sum = Plans!Total(actors)
      BY DEF Plans!ScoreOf
    <3>2. \A f \in Plans!Feature : actors[f] \in Nat
      BY <2>2
    <3>. HIDE DEF actors
    <3>. QED
      BY <2>1, <3>1, <3>2, TotalIsNumber
  <2>4. Plans!DfinityPenalty(s, nodes) \in Nat
    <3>1. Cardinality(nodes \cap DfinityOwned) \in Nat
      BY <1>2
    <3>. QED
      BY <3>1, SameCount DEF Plans!DfinityPenalty, Plans!Distance
  <2>5. Plans!CountryPenalty(s, nodes, score) \in Nat
    <3>1. score.largest[Country] - size \div 3 \in Int
      BY <1>1, <2>2 DEF FeaturesKnown
    <3>2. Plans!Positive(score.largest[Country] - size \div 3) \in Nat
      BY <3>1, PositiveIsNumber
    <3>. QED
      BY <3>2, SameCount DEF Plans!CountryPenalty
  <2>6. Plans!EuropePenalty(s, nodes) \in Nat
    <3>. DEFINE H == {n \in nodes : FeatureOf[n][Continent] # Europe}
    <3>1. H \in SUBSET nodes
      OBVIOUS
    <3>2. Cardinality(H) \in Nat
      <4>. HIDE DEF H
      <4>. QED
        BY <1>1, <3>1, FS_Subset, FS_CardinalityType
    <3>3. Plans!Cardinality(H) = Cardinality(H)
      BY SameCount
    <3>. QED
      BY <3>2, <3>3 DEF Plans!EuropePenalty
  <2>7. Plans!ProviderPenalty(nodes, score) \in Nat
    BY DEF Plans!ProviderPenalty
  <2>8. Plans!MinPenalty(score, min) \in Nat
    <3>1. CASE min = NoMin
      BY <3>1 DEF Plans!MinPenalty
    <3>2. CASE min # NoMin
      <4>. DEFINE Short(f) == IF f \notin DOMAIN min.coefficients THEN 0
                              ELSE 100 * Plans!Positive(min.coefficients[f] - score.coefficients[f])
                  shorts == [f \in Plans!Feature |-> Short(f)]
      <4>1. ASSUME NEW f \in Plans!Feature
            PROVE  Short(f) \in Nat
        <5>1. CASE f \in DOMAIN min.coefficients
          <6>1. min.coefficients[f] - score.coefficients[f] \in Int
            BY <2>2, <3>2, <5>1 DEF FeaturesKnown
          <6>2. Plans!Positive(min.coefficients[f] - score.coefficients[f]) \in Nat
            BY <6>1, PositiveIsNumber
          <6>. QED
            BY <6>2
        <5>. QED
          BY <5>1
      <4>2. Plans!Total(shorts) \in Nat
        <5>1. \A f \in Plans!Feature : shorts[f] \in Nat
          BY <4>1
        <5>. HIDE DEF shorts
        <5>. QED
          BY <5>1, TotalIsNumber
      <4>3. Len(Variants) \in Nat /\ Len(Variants) > 0
        <5>1. Plans!Feature = {Variants[i] : i \in DOMAIN Variants}
          BY DEF Plans!Feature, Plans!ToSet
        <5>2. Variants \in Seq(Plans!Feature) /\ DOMAIN Variants # {}
          BY <5>1 DEF FeaturesKnown
        <5>. QED
          BY <5>2
      <4>. DEFINE missing == Plans!Positive(min.average * Len(Variants) - score.sum)
      <4>4. missing \in Nat
        <5>1. min.average * Len(Variants) - score.sum \in Int
          <6>1. min.average \in Int
            BY <3>2 DEF FeaturesKnown
          <6>. QED
            BY <2>3, <4>3, <6>1
        <5>. QED
          BY <5>1, PositiveIsNumber
      <4>5. (100 * missing) \div Len(Variants) \in Nat
        <5>. HIDE DEF missing
        <5>1. 100 * missing \in Nat
          BY <4>4
        <5>2. \A a, b \in Nat : b > 0 => a \div b \in Nat
          OBVIOUS
        <5>. QED
          BY <4>3, <5>1, <5>2
      <4>6. Plans!MinPenalty(score, min) = Plans!Total(shorts) + (100 * missing) \div Len(Variants)
        BY <3>2 DEF Plans!MinPenalty
      <4>. HIDE DEF shorts, missing
      <4>. QED
        BY <4>2, <4>5, <4>6
    <3>. QED
      BY <3>1, <3>2
  <2>9. Plans!DominancePenalty(s, nodes, score) \in Nat
    <3>. DEFINE limit == (size * 2) \div 3
                Over(f) == IF score.coefficients[f] = 1 /\ ~(s \in European /\ f = Continent)
                           THEN 1000 * Plans!Positive(score.controlled[f] - limit) ELSE 0
                overs == [f \in Plans!Feature |-> Over(f)]
    <3>1. limit \in Int
      BY <1>1
    <3>2. Plans!DominancePenalty(s, nodes, score) = Plans!Total(overs)
      BY SameCount DEF Plans!DominancePenalty
    <3>. HIDE DEF limit
    <3>3. ASSUME NEW f \in Plans!Feature
          PROVE  Over(f) \in Nat
      <4>1. Plans!Positive(score.controlled[f] - limit) \in Nat
        BY <2>2, <3>1, PositiveIsNumber
      <4>. QED
        BY <4>1
    <3>4. \A f \in Plans!Feature : overs[f] \in Nat
      BY <3>3
    <3>. HIDE DEF overs
    <3>. QED
      BY <3>2, <3>4, TotalIsNumber
  <2>10. 100 * Cardinality(nodes \ Decentralized) \in Nat
    <3>1. Cardinality(nodes \ Decentralized) \in Nat
      BY <1>2
    <3>. QED
      BY <3>1
  <2>11. Plans!Penalty(s, nodes, min)
           = Plans!DfinityPenalty(s, nodes) + 100 * Cardinality(nodes \ Decentralized)
             + Plans!CountryPenalty(s, nodes, score) + Plans!EuropePenalty(s, nodes)
             + Plans!ProviderPenalty(nodes, score) + Plans!MinPenalty(score, min)
             + Plans!DominancePenalty(s, nodes, score)
    BY <1>4, SameCount DEF Plans!Penalty, score
  <2>. QED
    BY <2>4, <2>5, <2>6, <2>7, <2>8, <2>9, <2>10, <2>11
<1>. QED
  BY <1>3, <1>4

-----------------------------------------------------------------------------
(* One node for another.                                                     *)

\* new is no worse than old: the penalty first, then the score.
NotWorse(s, min, old, new) ==
    /\ Plans!Penalty(s, new, min) <= Plans!Penalty(s, old, min)
    /\ Plans!Penalty(s, new, min) = Plans!Penalty(s, old, min)
       => Plans!CompareScores(Plans!Score[new], Plans!Score[old]) >= 0

\* The best option is no worse than any.
LEMMA BestIsNotWorse ==
    ASSUME NEW s, NEW min, NEW options, \A b \in options : Plans!Penalty(s, b, min) \in Nat,
           NEW a \in Plans!Best(s, min, options), NEW b \in options
    PROVE  NotWorse(s, min, b, a)
<1>. DEFINE Candidate1(x) == [nodes |-> x, penalty |-> Plans!Penalty(s, x, min), score |-> Plans!Score[x]]
            candidates == {Candidate1(x) : x \in options}
            penalties == {c.penalty : c \in candidates}
            least == Plans!Min(penalties)
            cheap == {c \in candidates : c.penalty = least}
<1>1. PICK d \in cheap : a = d.nodes /\ \A e \in cheap : Plans!CompareScores(d.score, e.score) >= 0
  BY DEF Plans!Best
<1>2. PICK e \in candidates : e.nodes = b /\ e.penalty = Plans!Penalty(s, b, min) /\ e.score = Plans!Score[b]
  <2>1. Candidate1(b) \in candidates
    OBVIOUS
  <2>2. /\ Candidate1(b).nodes = b /\ Candidate1(b).penalty = Plans!Penalty(s, b, min)
        /\ Candidate1(b).score = Plans!Score[b]
    OBVIOUS
  <2>. HIDE DEF candidates, Candidate1
  <2>. QED
    BY <2>1, <2>2
<1>3. \A c \in candidates : c.penalty = Plans!Penalty(s, c.nodes, min) /\ c.score = Plans!Score[c.nodes]
  OBVIOUS
<1>4. penalties \in SUBSET Nat /\ e.penalty \in penalties
  BY <1>2
<1>. HIDE DEF candidates, penalties
<1>5. least = Min(penalties)
  BY SameMin
<1>6. least <= e.penalty
  <2>1. Min(penalties) <= e.penalty
    BY <1>4, MinType
  <2>. HIDE DEF least
  <2>. QED
    BY <1>5, <2>1
<1>. HIDE DEF least
<1>7. d.penalty = least /\ d.penalty = Plans!Penalty(s, a, min) /\ d.score = Plans!Score[a]
  BY <1>1, <1>3
<1>8. e.penalty = least => Plans!CompareScores(d.score, e.score) >= 0
  BY <1>1
<1>. QED
  BY <1>2, <1>6, <1>7, <1>8 DEF NotWorse

\* A request to swap one node, and how far it has come.
SwapAsked(r) == /\ r.kind = "replace" /\ r.replaced = {} /\ r.count = 1 /\ r.filter.include \cap available = {}

Swapping(r, c) ==
    /\ c.min = r.min /\ r.min \in Mins /\ c.subnet \in Subnet
    /\ \/ c.toAdd = 1 /\ c.toRemove = 1 /\ c.nodes = c.old
       \/ c.toAdd = 0 /\ c.toRemove = 1 /\ \E n \in c.nodes : c.old = c.nodes \ {n}
       \/ c.toAdd = 0 /\ c.toRemove = 0 /\ NotWorse(c.subnet, r.min, c.old, c.nodes)

SwapInv == SwapAsked(request) => /\ change.active => Swapping(request, change)
                                 /\ \A c \in changes : NotWorse(c.subnet, request.min, c.old, c.new)

LEMMA ReplaceKeepsSwaps ==
    ASSUME TopologiesKnown, SizesInv, NEW s \in Subnet, NEW nodes, NEW unhealthy, NEW count, NEW min \in Mins,
           NEW f, Plans!Replace(s, nodes, unhealthy, count, min, f)
    PROVE  SwapInv'
<1>1. PICK replaced : replaced = nodes \cup (unhealthy \ f.include)
  OBVIOUS
<1>2. PICK r0 : r0 = Plans!Filtered(Plans!ChangeRequest(s, members[s], available), f)
  OBVIOUS
<1>3. PICK r : r = Plans!WithMin(r0, min)
  OBVIOUS
<1>4. PICK c : c = Plans!Optimized(r, count, replaced)
  OBVIOUS
<1>5. PICK asked : asked = [kind |-> "replace", filter |-> f, replaced |-> replaced, count |-> count, min |-> min]
  OBVIOUS
<1>6. Plans!Begin(asked, c)
  BY <1>1, <1>2, <1>3, <1>4, <1>5 DEF Plans!Replace
<1>7. /\ request' = asked /\ change' = c /\ changes' = {} /\ UNCHANGED available
  BY <1>6 DEF Plans!Begin, SizesInv, RequestInv
<1>8. /\ IsRequest(r) /\ r.subnet = s /\ r.old = members[s] /\ r.nodes = members[s]
      /\ r.available = available \ f.exclude /\ r.include = (available \ f.exclude) \cap f.include /\ r.min = min
  <2>1. /\ IsRequest(r0) /\ r0.subnet = s /\ r0.old = members[s] /\ r0.nodes = members[s]
        /\ r0.available = available \ f.exclude /\ r0.include = (available \ f.exclude) \cap f.include
    BY <1>2, FilteredIs
  <2>. QED
    BY <1>3, <2>1, AskingFor
<1>9. c = [active |-> TRUE, subnet |-> r.subnet, old |-> r.old, nodes |-> (r.nodes \ replaced) \cup r.include,
           pool |-> r.available \ r.include, toAdd |-> count + Cardinality(replaced), toRemove |-> count, min |-> r.min]
  BY <1>4, <1>8, OptimizedIs
<1>10. SwapAsked(asked) => Swapping(asked, c)
  <2>. SUFFICES ASSUME SwapAsked(asked)
                PROVE  Swapping(asked, c)
    OBVIOUS
  <2>1. replaced = {} /\ count = 1 /\ r.include = {}
    BY <1>5, <1>8 DEF SwapAsked
  <2>2. Cardinality(replaced) = 0
    BY <2>1, FS_EmptySet
  <2>3. c.toAdd = 1 /\ c.toRemove = 1 /\ c.nodes = c.old /\ c.min = min /\ c.subnet = s
    BY <1>8, <1>9, <2>1, <2>2
  <2>. QED
    BY <1>5, <2>3 DEF Swapping
<1>11. SwapAsked(request)' => SwapAsked(asked)
  BY <1>7 DEF SwapAsked
<1>. QED
  BY <1>7, <1>10, <1>11 DEF SwapInv, Swapping

\* A step of the search.
LEMMA SearchKeepsSwaps ==
    ASSUME TopologiesKnown, FeaturesKnown, SizesInv, SwapInv, Plans!AddNode \/ Plans!RemoveNode
    PROVE  SwapInv'
<1>. SUFFICES ASSUME SwapAsked(request)'
              PROVE  /\ Swapping(request, change)'
                     /\ \A c \in changes' : NotWorse(c.subnet, request'.min, c.old, c.new)
  BY DEF SwapInv
<1>1. UNCHANGED available /\ UNCHANGED request /\ UNCHANGED changes /\ change.active
  BY DEF Plans!AddNode, Plans!RemoveNode
<1>2. SwapAsked(request)
  BY <1>1 DEF SwapAsked
<1>3. /\ \A c \in changes' : NotWorse(c.subnet, request'.min, c.old, c.new)
      /\ Swapping(request, change) /\ Underway(request, change)
  BY <1>1, <1>2 DEF SwapInv, SizesInv, ChangeInv
<1>4. CASE Plans!AddNode
  <2>1. PICK chosen \in Plans!Best(change.subnet, change.min, Plans!Extended) :
          change' = [change EXCEPT !.nodes = chosen, !.pool = @ \ chosen, !.toAdd = @ - 1]
    BY <1>4 DEF Plans!AddNode
  <2>2. PICK n \in change.pool : chosen = change.nodes \cup {n}
    <3>1. chosen \in Plans!Extended
      BY BestIsOption
    <3>. QED
      BY <3>1 DEF Plans!Extended
  <2>3. /\ change'.nodes = chosen /\ change'.old = change.old /\ change'.subnet = change.subnet
        /\ change'.min = change.min /\ change'.toAdd = change.toAdd - 1 /\ change'.toRemove = change.toRemove
    BY <2>1 DEF SizesInv, ChangeInv
  <2>4. change.toAdd = 1 /\ change.toRemove = 1 /\ change.nodes = change.old /\ n \notin change.old
    <3>1. change.toAdd > 0
      BY <1>4 DEF Plans!AddNode
    <3>. QED
      BY <1>3, <3>1 DEF Swapping, Underway
  <2>5. \E x \in change'.nodes : change'.old = change'.nodes \ {x}
    BY <2>2, <2>3, <2>4
  <2>. QED
    BY <1>1, <1>3, <2>3, <2>4, <2>5 DEF Swapping
<1>5. CASE Plans!RemoveNode
  <2>1. PICK chosen \in Plans!Best(change.subnet, change.min, Plans!Reduced) :
          change' = [change EXCEPT !.nodes = chosen, !.toRemove = @ - 1]
    BY <1>5 DEF Plans!RemoveNode
  <2>2. /\ change'.nodes = chosen /\ change'.old = change.old /\ change'.subnet = change.subnet
        /\ change'.min = change.min /\ change'.toAdd = change.toAdd /\ change'.toRemove = change.toRemove - 1
    BY <2>1 DEF SizesInv, ChangeInv
  <2>3. change.toAdd = 0 /\ change.toRemove = 1 /\ \E n \in change.nodes : change.old = change.nodes \ {n}
    <3>1. change.toAdd = 0 /\ change.toRemove > 0
      BY <1>5 DEF Plans!RemoveNode
    <3>. QED
      BY <1>3, <3>1 DEF Swapping
  <2>4. change.old \in Plans!Reduced
    BY <2>3 DEF Plans!Reduced
  <2>5. /\ \A b \in Plans!Reduced : Plans!Penalty(change.subnet, b, change.min) \in Nat
        /\ change.min = request.min
    BY <1>3, PenaltyIsNumber DEF TopologiesKnown, Plans!Reduced, Swapping, Underway
  <2>6. NotWorse(change.subnet, change.min, change.old, chosen)
    BY <2>4, <2>5, BestIsNotWorse
  <2>. QED
    BY <1>1, <1>3, <2>2, <2>3, <2>5, <2>6 DEF Swapping
<1>. QED
  BY <1>3, <1>4, <1>5

LEMMA FinishKeepsSwaps ==
    ASSUME SizesInv, SwapInv, Plans!Finish
    PROVE  SwapInv'
<1>. SUFFICES ASSUME SwapAsked(request)'
              PROVE  /\ ~change.active'
                     /\ \A c \in changes' : NotWorse(c.subnet, request'.min, c.old, c.new)
  BY DEF SwapInv
<1>1. PICK c : c = [subnet |-> change.subnet, old |-> change.old, new |-> change.nodes]
  OBVIOUS
<1>2. /\ change.active /\ change.toAdd = 0 /\ change.toRemove = 0 /\ changes' = changes \cup {c}
      /\ change' = Plans!Inactive /\ UNCHANGED available /\ UNCHANGED request
  BY <1>1 DEF Plans!Finish, Plans!Change
<1>3. SwapAsked(request)
  BY <1>2 DEF SwapAsked
<1>4. NotWorse(c.subnet, request.min, c.old, c.new)
  BY <1>1, <1>2, <1>3 DEF SwapInv, Swapping
<1>5. \A d \in changes : NotWorse(d.subnet, request.min, d.old, d.new)
  BY <1>3 DEF SwapInv
<1>. QED
  BY <1>2, <1>4, <1>5, NothingUnderway

\* A request to swap one node never makes a subnet worse, whatever penalties and
\* scores there are: the node that was added can be taken out again
\* (network.rs:903-908).
THEOREM SwapsAreNotWorse ==
    TopologiesKnown /\ FeaturesKnown => (Plans!Spec => []Plans!SwapNeverWorse)
<1>. SUFFICES ASSUME TopologiesKnown, FeaturesKnown
              PROVE  Plans!Spec => []Plans!SwapNeverWorse
  OBVIOUS
<1>1. Plans!Init => SwapInv
  BY DEF Plans!Init, Plans!NoRequest, SwapInv, SwapAsked
<1>2. SizesInv /\ SwapInv /\ [Plans!Next]_Plans!vars => SwapInv'
  <2>. SUFFICES ASSUME SizesInv, SwapInv, [Plans!Next]_Plans!vars
                PROVE  SwapInv'
    OBVIOUS
  <2>1. ASSUME request'.kind # "replace"
        PROVE  SwapInv'
    BY <2>1 DEF SwapInv, SwapAsked
  <2>2. ASSUME NEW asked, NEW c, Plans!Begin(asked, c), asked.kind # "replace"
        PROVE  SwapInv'
    BY <2>1, <2>2 DEF Plans!Begin
  <2>3. ASSUME NEW s \in Subnet, Plans!Ask(s)
        PROVE  SwapInv'
    <3>1. ASSUME NEW add, NEW remove, NEW f, Plans!Resize(s, add, remove, f)
          PROVE  SwapInv'
      BY <2>1, <3>1 DEF Plans!Resize, Plans!Begin
    <3>2. ASSUME NEW keep, Plans!Rescue(s, keep)
          PROVE  SwapInv'
      BY <2>1, <3>2 DEF Plans!Rescue, Plans!Begin
    <3>. QED
      BY <2>3, <3>1, <3>2, ReplaceKeepsSwaps DEF Plans!Ask
  <2>4. ASSUME NEW size, NEW min, NEW f, Plans!CreateSubnet(size, min, f)
        PROVE  SwapInv'
    BY <2>1, <2>4 DEF Plans!CreateSubnet, Plans!Begin
  <2>5. ASSUME NEW unhealthy, NEW limit, Plans!Heal(unhealthy, limit)
        PROVE  SwapInv'
    BY <2>1, <2>5 DEF Plans!Heal, Plans!Begin
  <2>6. CASE Plans!HealNext
    <3>1. request'.kind = "heal"
      BY <2>6 DEF Plans!HealNext
    <3>. QED
      BY <2>1, <3>1
  <2>7. CASE Plans!AddNode \/ Plans!RemoveNode
    BY <2>7, SearchKeepsSwaps
  <2>8. CASE Plans!Finish
    BY <2>8, FinishKeepsSwaps
  <2>9. CASE Plans!Fail \/ Plans!Answer
    <3>1. request'.kind = "none"
      BY <2>9 DEF Plans!Fail, Plans!Answer, Plans!Over, Plans!NoRequest
    <3>. QED
      BY <2>1, <3>1
  <2>10. CASE UNCHANGED Plans!vars
    <3>1. UNCHANGED available /\ UNCHANGED request /\ UNCHANGED change /\ UNCHANGED changes
      BY <2>10 DEF Plans!vars
    <3>. QED
      BY <3>1 DEF SwapInv, SwapAsked, Swapping
  <2>. QED
    BY <2>3, <2>4, <2>5, <2>6, <2>7, <2>8, <2>9, <2>10 DEF Plans!Next
<1>3. SwapInv => Plans!SwapNeverWorse
  BY DEF SwapInv, SwapAsked, NotWorse, Plans!SwapNeverWorse
<1>. QED
  BY <1>1, <1>2, <1>3, SizesHold, PTL DEF Plans!Spec

\* A change that is not under way has no nodes.
Idle == ~change.active => change.nodes = {}

LEMMA IdleStays ==
    ASSUME SizesInv, Idle, [Plans!Next]_Plans!vars
    PROVE  Idle'
<1>1. ASSUME NEW asked, NEW r, NEW add, NEW remove, Plans!Begin(asked, Plans!Resized(r, add, remove))
      PROVE  Idle'
  BY <1>1 DEF Plans!Begin, Plans!Resized, Idle
<1>2. ASSUME change' = Plans!Inactive
      PROVE  Idle'
  BY <1>2 DEF Plans!Inactive, Idle
<1>3. ASSUME NEW s \in Subnet, Plans!Ask(s)
      PROVE  Idle'
  <2>1. ASSUME NEW nodes, NEW unhealthy, NEW count, NEW min, NEW f, Plans!Replace(s, nodes, unhealthy, count, min, f)
        PROVE  Idle'
    BY <1>1, <2>1 DEF Plans!Replace, Plans!Optimized
  <2>2. ASSUME NEW add, NEW remove, NEW f, Plans!Resize(s, add, remove, f)
        PROVE  Idle'
    BY <1>1, <2>2 DEF Plans!Resize
  <2>3. ASSUME NEW keep, Plans!Rescue(s, keep)
        PROVE  Idle'
    BY <1>1, <2>3 DEF Plans!Rescue
  <2>. QED
    BY <1>3, <2>1, <2>2, <2>3 DEF Plans!Ask
<1>4. ASSUME NEW size, NEW min, NEW f, Plans!CreateSubnet(size, min, f)
      PROVE  Idle'
  BY <1>1, <1>4 DEF Plans!CreateSubnet
<1>5. ASSUME NEW unhealthy, NEW limit, Plans!Heal(unhealthy, limit)
      PROVE  Idle'
  BY <1>2, <1>5 DEF Plans!Heal, Plans!Begin
<1>6. CASE Plans!HealNext
  BY <1>6 DEF Plans!HealNext, Plans!Optimized, Plans!Resized, Idle
<1>7. CASE Plans!AddNode \/ Plans!RemoveNode
  <2>1. change'.active
    BY <1>7 DEF Plans!AddNode, Plans!RemoveNode, SizesInv, ChangeInv
  <2>. QED
    BY <2>1 DEF Idle
<1>8. CASE Plans!Finish \/ Plans!Fail \/ Plans!Answer
  BY <1>2, <1>8 DEF Plans!Finish, Plans!Fail, Plans!Answer, Plans!Over
<1>9. CASE UNCHANGED Plans!vars
  BY <1>9 DEF Plans!vars, Idle
<1>. QED
  BY <1>3, <1>4, <1>5, <1>6, <1>7, <1>8, <1>9 DEF Plans!Next

\* The coefficients by which candidates are compared stand for what they say at every
\* step of every change, for any nodes and values of features
\* (nakamoto/mod.rs:234-269).
THEOREM CoefficientsStand ==
    TopologiesKnown => (Plans!Spec => []Plans!CoefficientIsLeastCoalition)
<1>. SUFFICES ASSUME TopologiesKnown
              PROVE  Plans!Spec => []Plans!CoefficientIsLeastCoalition
  OBVIOUS
<1>1. Plans!Init => Idle
  BY DEF Plans!Init, Plans!Inactive, Idle
<1>2. SizesInv /\ Idle /\ [Plans!Next]_Plans!vars => Idle'
  BY IdleStays
<1>3. SizesInv /\ Idle => Plans!CoefficientIsLeastCoalition
  <2>1. SizesInv /\ Idle => IsFiniteSet(Node) /\ change.nodes \subseteq Node
    BY DEF SizesInv, ChangeInv, Underway, Idle, TopologiesKnown
  <2>. QED
    BY <2>1, CoefficientsAreLeast
<1>. QED
  BY <1>1, <1>2, <1>3, SizesHold, PTL DEF Plans!Spec

\* All that a change of a subnet promises: what the coefficients say, the size, the
\* limit and the spare nodes of a heal request, and that a swap is never for the worse.
THEOREM ChangesStaySound ==
    TopologiesKnown /\ FeaturesKnown => (Plans!Spec => []Plans!ChangesAreSound)
<1>. SUFFICES ASSUME TopologiesKnown, FeaturesKnown
              PROVE  Plans!Spec => []Plans!ChangesAreSound
  OBVIOUS
<1>1. Plans!Spec => []Plans!CoefficientIsLeastCoalition
  BY CoefficientsStand
<1>2. Plans!Spec => []Plans!SizeIsKept
  BY SizesAreKept
<1>3. Plans!Spec => [](Plans!HealGivesNodeOnce /\ Plans!HealRespectsLimit)
  BY HealsAreKept
<1>4. Plans!Spec => []Plans!SwapNeverWorse
  BY SwapsAreNotWorse
<1>5. /\ Plans!CoefficientIsLeastCoalition /\ Plans!SizeIsKept
      /\ Plans!HealGivesNodeOnce /\ Plans!HealRespectsLimit /\ Plans!SwapNeverWorse
      => Plans!ChangesAreSound
  BY DEF Plans!ChangesAreSound
<1>. QED
  BY <1>1, <1>2, <1>3, <1>4, <1>5, PTL

-----------------------------------------------------------------------------
(* The command line tool: what several operators propose.                    *)

TasksShape == /\ tasks = [o \in Operator |-> tasks[o]]
              /\ \A o \in Operator : \A t \in tasks[o] : {"kind", "what", "pc"} \subseteq DOMAIN t

\* No proposal of an operator is open for a subnet.
Free(o, s) == \A p \in submitted : p.kind = "membership" /\ p.by = o => p.what.subnet # s

OneTask == \A o \in Operator : \A t, u \in tasks[o] :
             t.kind = "membership" /\ u.kind = "membership" /\ t.what.subnet = u.what.subnet => t = u

Checked == \A o \in Operator : \A t \in tasks[o] :
             t.kind = "membership" /\ t.pc # "check" => Free(o, t.what.subnet)

ChangesInv == TasksShape /\ OneTask /\ Checked /\ Tool!OwnChangesDontPile

\* A task goes on to the next step.
LEMMA TaskGoesOn ==
    ASSUME ChangesInv, UNCHANGED submitted, NEW o \in Operator, NEW t \in tasks[o], NEW u,
           Tool!Put(o, t, {u}), {"kind", "what", "pc"} \subseteq DOMAIN u,
           u.kind = "membership" =>
             /\ t.kind = "membership" /\ u.what.subnet = t.what.subnet
             /\ u.pc # "check" => Free(o, u.what.subnet)
    PROVE  ChangesInv'
<1>1. /\ tasks' = [tasks EXCEPT ![o] = (tasks[o] \ {t}) \cup {u}]
      /\ tasks = [q \in Operator |-> tasks[q]]
  BY DEF Tool!Put, ChangesInv, TasksShape
<1>2. /\ tasks' = [q \in Operator |-> tasks'[q]]
      /\ tasks'[o] = (tasks[o] \ {t}) \cup {u}
      /\ \A q \in Operator \ {o} : tasks'[q] = tasks[q]
  BY <1>1
<1>3. TasksShape'
  BY <1>2 DEF ChangesInv, TasksShape
<1>4. OneTask'
  <2>1. ASSUME NEW q \in Operator, NEW a \in tasks'[q], NEW b \in tasks'[q],
               a.kind = "membership", b.kind = "membership", a.what.subnet = b.what.subnet
        PROVE  a = b
    <3>1. CASE q # o
      BY <1>2, <2>1, <3>1 DEF ChangesInv, OneTask
    <3>2. CASE q = o /\ a # u /\ b # u
      BY <1>2, <2>1, <3>2 DEF ChangesInv, OneTask
    <3>3. CASE q = o /\ a = u /\ b # u
      <4>1. b \in tasks[o] /\ b # t
        BY <1>2, <3>3
      <4>. QED
        BY <2>1, <3>3, <4>1 DEF ChangesInv, OneTask
    <3>4. CASE q = o /\ b = u /\ a # u
      <4>1. a \in tasks[o] /\ a # t
        BY <1>2, <3>4
      <4>. QED
        BY <2>1, <3>4, <4>1 DEF ChangesInv, OneTask
    <3>. QED
      BY <3>1, <3>2, <3>3, <3>4
  <2>. QED
    BY <2>1 DEF OneTask
<1>5. Checked'
  <2>1. ASSUME NEW q \in Operator, NEW a \in tasks'[q], a.kind = "membership", a.pc # "check"
        PROVE  Free(q, a.what.subnet)
    BY <1>2, <2>1 DEF ChangesInv, Checked
  <2>. QED
    BY <2>1 DEF Checked, Free
<1>6. Tool!OwnChangesDontPile'
  BY DEF ChangesInv, Tool!OwnChangesDontPile
<1>. QED
  BY <1>3, <1>4, <1>5, <1>6 DEF ChangesInv

\* A task ends.
LEMMA TaskEnds ==
    ASSUME ChangesInv, NEW o \in Operator, NEW t \in tasks[o], Tool!Put(o, t, {}),
           \/ UNCHANGED submitted
           \/ /\ submitted' = submitted \cup {[kind |-> t.kind, what |-> t.what, by |-> o]}
              /\ t.pc = "confirm"
    PROVE  ChangesInv'
<1>1. /\ tasks' = [tasks EXCEPT ![o] = (tasks[o] \ {t}) \cup {}]
      /\ tasks = [q \in Operator |-> tasks[q]]
  BY DEF Tool!Put, ChangesInv, TasksShape
<1>2. /\ tasks' = [q \in Operator |-> tasks'[q]]
      /\ tasks'[o] = tasks[o] \ {t}
      /\ \A q \in Operator \ {o} : tasks'[q] = tasks[q]
  BY <1>1
<1>3. TasksShape' /\ OneTask'
  BY <1>2 DEF ChangesInv, TasksShape, OneTask
<1>4. CASE UNCHANGED submitted
  <2>1. Checked' /\ Tool!OwnChangesDontPile'
    BY <1>2, <1>4 DEF ChangesInv, Checked, Free, Tool!OwnChangesDontPile
  <2>. QED
    BY <1>3, <2>1 DEF ChangesInv
<1>5. CASE submitted' = submitted \cup {[kind |-> t.kind, what |-> t.what, by |-> o]} /\ t.pc = "confirm"
  <2>. DEFINE new == [kind |-> t.kind, what |-> t.what, by |-> o]
  <2>1. submitted' = submitted \cup {new} /\ new.kind = t.kind /\ new.what = t.what /\ new.by = o
    BY <1>5
  <2>2. t.kind = "membership" => Free(o, t.what.subnet)
    BY <1>5 DEF ChangesInv, Checked
  <2>. HIDE DEF new
  <2>3. Checked'
    <3>1. ASSUME NEW q \in Operator, NEW a \in tasks'[q], a.kind = "membership", a.pc # "check",
                 NEW p \in submitted', p.kind = "membership", p.by = q, p.what.subnet = a.what.subnet
          PROVE  FALSE
      <4>1. a \in tasks[q]
        BY <1>2, <3>1
      <4>2. p \notin submitted
        BY <3>1, <4>1 DEF ChangesInv, Checked, Free
      <4>3. p = new /\ q = o /\ t.kind = "membership" /\ t.what.subnet = a.what.subnet
        BY <2>1, <3>1, <4>2
      <4>. QED
        BY <1>2, <3>1, <4>1, <4>3 DEF ChangesInv, OneTask
    <3>. QED
      BY <3>1 DEF Checked, Free
  <2>4. Tool!OwnChangesDontPile'
    BY <2>1, <2>2 DEF ChangesInv, Tool!OwnChangesDontPile, Free
  <2>. QED
    BY <1>3, <2>3, <2>4 DEF ChangesInv
<1>. QED
  BY <1>4, <1>5

\* A command starts with tasks that have still to look, no two for a subnet.
LEMMA TasksBegin ==
    ASSUME ChangesInv, NEW o \in Operator, NEW new, Tool!Begin(o, new),
           \A t \in new : {"kind", "what", "pc"} \subseteq DOMAIN t /\ (t.kind = "membership" => t.pc = "check"),
           \A t, u \in new : t.kind = "membership" /\ u.kind = "membership"
                             /\ t.what.subnet = u.what.subnet => t = u
    PROVE  ChangesInv'
<1>1. /\ tasks' = [tasks EXCEPT ![o] = new] /\ UNCHANGED submitted
      /\ tasks = [q \in Operator |-> tasks[q]]
  BY DEF Tool!Begin, ChangesInv, TasksShape
<1>2. /\ tasks' = [q \in Operator |-> tasks'[q]] /\ tasks'[o] = new
      /\ \A q \in Operator \ {o} : tasks'[q] = tasks[q]
  BY <1>1
<1>3. TasksShape'
  BY <1>2 DEF ChangesInv, TasksShape
<1>4. OneTask'
  BY <1>2 DEF ChangesInv, OneTask
<1>5. Checked' /\ Tool!OwnChangesDontPile'
  BY <1>1, <1>2 DEF ChangesInv, Checked, Free, Tool!OwnChangesDontPile
<1>. QED
  BY <1>3, <1>4, <1>5 DEF ChangesInv

LEMMA CommandKeepsChanges ==
    ASSUME ChangesInv, NEW o \in Operator, Tool!Command(o)
    PROVE  ChangesInv'
<1>1. ASSUME NEW subnets \in SUBSET ToolSubnet, Tool!Begin(o, {Tool!Change(s) : s \in subnets})
      PROVE  ChangesInv'
  <2>1. \A s \in subnets :
          /\ DOMAIN Tool!Change(s) = {"kind", "what", "pc"} /\ Tool!Change(s).kind = "membership"
          /\ Tool!Change(s).pc = "check" /\ Tool!Change(s).what.subnet = s
    BY DEF Tool!Change, Tool!Task
  <2>. DEFINE new == {Tool!Change(s) : s \in subnets}
  <2>2. /\ \A t \in new : {"kind", "what", "pc"} \subseteq DOMAIN t /\ (t.kind = "membership" => t.pc = "check")
        /\ \A t, u \in new : t.kind = "membership" /\ u.kind = "membership"
                             /\ t.what.subnet = u.what.subnet => t = u
    BY <2>1
  <2>. HIDE DEF new
  <2>. QED
    BY <1>1, <2>2, TasksBegin DEF new
<1>2. ASSUME NEW t, {"kind", "what", "pc"} \subseteq DOMAIN t, t.kind # "membership" \/ t.pc = "check",
             Tool!Begin(o, {t})
      PROVE  ChangesInv'
  BY <1>2, TasksBegin
<1>3. ASSUME Tool!Begin(o, {})
      PROVE  ChangesInv'
  BY <1>3, TasksBegin
<1>4. ASSUME NEW kind, NEW what, kind # "membership"
      PROVE  DOMAIN Tool!Task(kind, what) = {"kind", "what", "pc"} /\ Tool!Task(kind, what).kind = kind
  BY DEF Tool!Task
<1>5. ASSUME Tool!Heal(o)
      PROVE  ChangesInv'
  BY <1>1, <1>5 DEF Tool!Heal
<1>6. ASSUME NEW s \in ToolSubnet, Tool!ChangeMembership(o, s)
      PROVE  ChangesInv'
  <2>1. {Tool!Change(x) : x \in {s}} = {Tool!Change(s)}
    OBVIOUS
  <2>2. Tool!Begin(o, {Tool!Change(x) : x \in {s}}) \/ Tool!Begin(o, {})
    BY <1>6, <2>1 DEF Tool!ChangeMembership
  <2>. QED
    BY <1>1, <1>3, <2>2
<1>7. ASSUME Tool!ProposePlain(o) \/ Tool!CreateSubnet(o)
      PROVE  ChangesInv'
  <2>1. PICK what : Tool!Begin(o, {Tool!Task("plain", what)})
    BY <1>7 DEF Tool!ProposePlain, Tool!CreateSubnet
  <2>2. DOMAIN Tool!Task("plain", what) = {"kind", "what", "pc"} /\ Tool!Task("plain", what).kind = "plain"
    BY <1>4
  <2>. QED
    BY <1>2, <2>1, <2>2
<1>8. ASSUME Tool!UpdateUnassigned(o)
      PROVE  ChangesInv'
  <2>. DEFINE t == Tool!Task("unassigned", [version |-> nnsVersion])
  <2>1. Tool!Begin(o, {}) \/ Tool!Begin(o, {t})
    BY <1>8 DEF Tool!UpdateUnassigned
  <2>2. DOMAIN t = {"kind", "what", "pc"} /\ t.kind = "unassigned"
    BY <1>4
  <2>. HIDE DEF t
  <2>. QED
    BY <1>2, <1>3, <2>1, <2>2
<1>9. ASSUME NEW v \in Candidate, NEW force \in BOOLEAN, Tool!Elect(o, v, force)
      PROVE  ChangesInv'
  <2>. DEFINE t == [kind |-> "elect", what |-> [version |-> v, force |-> force],
                    pc |-> "download", left |-> Cdn, found |-> {}]
  <2>1. Tool!Begin(o, {t}) /\ {"kind", "what", "pc"} \subseteq DOMAIN t /\ t.kind = "elect"
    BY <1>9 DEF Tool!Elect
  <2>. HIDE DEF t
  <2>. QED
    BY <1>2, <2>1
<1>10. ASSUME NEW edited \in Edits, Tool!EditFirewall(o, edited)
       PROVE  ChangesInv'
  <2>1. ASSUME NEW what, Tool!Begin(o, {[kind |-> "firewall", pc |-> "test", base |-> rules, what |-> what]})
        PROVE  ChangesInv'
    <3>. DEFINE t == [kind |-> "firewall", pc |-> "test", base |-> rules, what |-> what]
    <3>1. Tool!Begin(o, {t}) /\ {"kind", "what", "pc"} \subseteq DOMAIN t /\ t.kind = "firewall"
      BY <2>1
    <3>. HIDE DEF t
    <3>. QED
      BY <1>2, <3>1
  <2>. DEFINE batched == Tool!Batched(Tool!ReverseSorted(rules, edited))
              what == [mods |-> Tool!LastBatch(batched.batches), edited |-> edited]
  <2>2. Tool!Begin(o, {}) \/ Tool!Begin(o, {[kind |-> "firewall", pc |-> "test", base |-> rules, what |-> what]})
    BY <1>10 DEF Tool!EditFirewall
  <2>. HIDE DEF batched, what
  <2>. QED
    BY <1>3, <2>1, <2>2
<1>. QED
  BY <1>5, <1>6, <1>7, <1>8, <1>9, <1>10 DEF Tool!Command

\* The record of a task with another position.
LEMMA Moved1 ==
    ASSUME NEW t, NEW pc, {"kind", "what", "pc"} \subseteq DOMAIN t
    PROVE  /\ DOMAIN [t EXCEPT !.pc = pc] = DOMAIN t /\ [t EXCEPT !.pc = pc].pc = pc
           /\ [t EXCEPT !.pc = pc].kind = t.kind /\ [t EXCEPT !.pc = pc].what = t.what
  OBVIOUS

LEMMA WorkKeepsChanges ==
    ASSUME ChangesInv, NEW o \in Operator, NEW t \in tasks[o], Tool!Work(o, t)
    PROVE  ChangesInv'
<1>0. {"kind", "what", "pc"} \subseteq DOMAIN t
  BY DEF ChangesInv, TasksShape
<1>1. CASE Tool!Check(o, t)
  <2>1. UNCHANGED submitted
    BY <1>1 DEF Tool!Check
  <2>2. CASE Tool!Put(o, t, {})
    BY <2>1, <2>2, TaskEnds
  <2>3. CASE ~Tool!Pending(t.what.subnet) /\ Tool!Goto(o, t, "simulate")
    <3>. DEFINE u == [t EXCEPT !.pc = "simulate"]
    <3>1. Tool!Put(o, t, {u})
      BY <2>3 DEF Tool!Goto
    <3>2. Free(o, t.what.subnet)
      BY <2>3 DEF Tool!Pending, Free
    <3>3. {"kind", "what", "pc"} \subseteq DOMAIN u /\ u.kind = t.kind /\ u.what = t.what
      BY <1>0, Moved1
    <3>. HIDE DEF u
    <3>. QED
      BY <2>1, <3>1, <3>2, <3>3, TaskGoesOn
  <2>. QED
    BY <1>1, <2>2, <2>3 DEF Tool!Check
<1>2. CASE Tool!Simulate(o, t)
  <2>. DEFINE u == [t EXCEPT !.pc = "confirm"]
  <2>1. UNCHANGED submitted /\ Tool!Put(o, t, {u}) /\ t.pc = "simulate"
    BY <1>2 DEF Tool!Simulate, Tool!Goto
  <2>2. {"kind", "what", "pc"} \subseteq DOMAIN u /\ u.kind = t.kind /\ u.what = t.what
    BY <1>0, Moved1
  <2>3. t.kind = "membership" => Free(o, t.what.subnet)
    BY <2>1 DEF ChangesInv, Checked
  <2>. HIDE DEF u
  <2>. QED
    BY <2>1, <2>2, <2>3, TaskGoesOn
<1>3. CASE Tool!Submit(o, t) \/ Tool!GiveUp(o, t)
  BY <1>3, TaskEnds DEF Tool!Submit, Tool!GiveUp
<1>4. CASE Tool!Validate(o, t)
  <2>1. ASSUME NEW what, Tool!Put(o, t, {Tool!Task("elect", what)})
        PROVE  ChangesInv'
    <3>1. DOMAIN Tool!Task("elect", what) = {"kind", "what", "pc"} /\ Tool!Task("elect", what).kind = "elect"
      BY DEF Tool!Task
    <3>. QED
      BY <1>4, <2>1, <3>1, TaskGoesOn DEF Tool!Validate
  <2>2. CASE Tool!Put(o, t, {})
    BY <1>4, <2>2, TaskEnds DEF Tool!Validate
  <2>. DEFINE what == [version |-> t.what.version, force |-> t.what.force, urls |-> {f.cdn : f \in t.found},
                       hash |-> (CHOOSE f \in t.found : f.hash \in Tool!Hashes(t.found)).hash]
  <2>3. Tool!Put(o, t, {}) \/ Tool!Put(o, t, {Tool!Task("elect", what)})
    BY <1>4 DEF Tool!Validate
  <2>. HIDE DEF what
  <2>. QED
    BY <2>1, <2>2, <2>3
<1>5. CASE Tool!Test(o, t)
  <2>1. ASSUME NEW what, Tool!Put(o, t, {Tool!Task("firewall", what)})
        PROVE  ChangesInv'
    <3>1. DOMAIN Tool!Task("firewall", what) = {"kind", "what", "pc"} /\ Tool!Task("firewall", what).kind = "firewall"
      BY DEF Tool!Task
    <3>. QED
      BY <1>5, <2>1, <3>1, TaskGoesOn DEF Tool!Test
  <2>. DEFINE what == [mods |-> t.what.mods, edited |-> t.what.edited, base |-> t.base, tested |-> rules,
                       hash |-> Tool!Applied(rules, t.what.mods, t.what.edited)]
  <2>2. Tool!Put(o, t, {Tool!Task("firewall", what)})
    BY <1>5 DEF Tool!Test
  <2>. HIDE DEF what
  <2>. QED
    BY <2>1, <2>2
<1>6. ASSUME NEW cdn \in Cdn, Tool!Fetch(o, t, cdn)
      PROVE  ChangesInv'
  <2>. DEFINE image == images[t.what.version][cdn]
              u == [t EXCEPT !.left = @ \ {cdn},
                             !.found = @ \cup IF image = Missing THEN {} ELSE {[cdn |-> cdn, hash |-> image]}]
  <2>1. {"kind", "what", "pc"} \subseteq DOMAIN u /\ u.kind = t.kind /\ u.what = t.what /\ u.pc = t.pc
    BY <1>0
  <2>2. UNCHANGED submitted /\ Tool!Put(o, t, {u})
    BY <1>6 DEF Tool!Fetch
  <2>3. t.kind = "membership" /\ t.pc # "check" => Free(o, t.what.subnet)
    BY DEF ChangesInv, Checked
  <2>. HIDE DEF u
  <2>. QED
    BY <2>1, <2>2, <2>3, TaskGoesOn
<1>. QED
  BY <1>1, <1>2, <1>3, <1>4, <1>5, <1>6 DEF Tool!Work

LEMMA OthersKeepChanges ==
    ASSUME ChangesInv, UNCHANGED tasks, submitted' \subseteq submitted
    PROVE  ChangesInv'
  BY DEF ChangesInv, TasksShape, OneTask, Checked, Free, Tool!OwnChangesDontPile

\* An operator never has two open proposals for a subnet, in whatever order the
\* checks, simulations and submissions of several operators come and however many
\* changes a command makes together (runner.rs:253-276).
THEOREM ChangesDontPile == Tool!Spec => []Tool!OwnChangesDontPile
<1>1. Tool!Init => ChangesInv
  <2>. SUFFICES ASSUME Tool!Init
                PROVE  ChangesInv
    OBVIOUS
  <2>1. tasks = [o \in Operator |-> {}] /\ submitted = {}
    BY DEF Tool!Init
  <2>. QED
    BY <2>1 DEF ChangesInv, TasksShape, OneTask, Checked, Free, Tool!OwnChangesDontPile
<1>2. ChangesInv /\ [Tool!Next]_Tool!vars => ChangesInv'
  <2>. SUFFICES ASSUME ChangesInv, [Tool!Next]_Tool!vars
                PROVE  ChangesInv'
    OBVIOUS
  <2>1. ASSUME NEW o \in Operator, Tool!Command(o) \/ \E t \in tasks[o] : Tool!Work(o, t)
        PROVE  ChangesInv'
    BY <2>1, CommandKeepsChanges, WorkKeepsChanges
  <2>2. ASSUME \/ Tool!Download
               \/ \E p \in submitted : Tool!Execute(p)
               \/ \E v \in Candidate, c \in Cdn, i \in Image : Tool!Upload(v, c, i)
               \/ \E v \in Version : Tool!UpgradeNns(v)
               \/ UNCHANGED Tool!vars
        PROVE  ChangesInv'
    <3>1. UNCHANGED tasks /\ submitted' \subseteq submitted
      BY <2>2 DEF Tool!Download, Tool!Execute, Tool!Upload, Tool!UpgradeNns, Tool!vars
    <3>. QED
      BY <3>1, OthersKeepChanges
  <2>. QED
    BY <2>1, <2>2 DEF Tool!Next
<1>3. ChangesInv => Tool!OwnChangesDontPile
  BY DEF ChangesInv
<1>. QED
  BY <1>1, <1>2, <1>3, PTL DEF Tool!Spec


-----------------------------------------------------------------------------
(* Elections: what was found on a server stays there.                        *)

\* An image that was found.
Found(v, f) == /\ f.cdn \in Cdn /\ f = [cdn |-> f.cdn, hash |-> images[v][f.cdn]]
               /\ images[v][f.cdn] # Missing

Downloads(t) == /\ t.kind = "elect" /\ t.what.version \in Candidate /\ "found" \in DOMAIN t
                /\ \A f \in t.found : Found(t.what.version, f)

Agreed(w) == /\ w.version \in Candidate /\ w.urls \subseteq Cdn /\ w.hash # Missing
             /\ \A c \in w.urls : images[w.version][c] = w.hash
             /\ w.urls = Cdn \/ w.force

TaskOk(t) == /\ {"kind", "what", "pc"} \subseteq DOMAIN t
             /\ t.pc = "download" => Downloads(t)
             /\ t.pc # "download" /\ t.kind = "elect" => Agreed(t.what)

ImagesInv == /\ images \in [Candidate -> [Cdn -> Image \cup {Missing}]]
             /\ tasks = [o \in Operator |-> tasks[o]]
             /\ \A o \in Operator : \A t \in tasks[o] : TaskOk(t)
             /\ \A p \in submitted : p.kind = "elect" => Agreed(p.what)

\* No image is replaced.
ImagesStay == \A v \in Candidate, c \in Cdn : images[v][c] # Missing => images'[v][c] = images[v][c]

LEMMA OkStays ==
    ASSUME ImagesStay, NEW t, TaskOk(t)
    PROVE  TaskOk(t)'
<1>1. ASSUME Downloads(t)
      PROVE  Downloads(t)'
  <2>1. ASSUME NEW f \in t.found
        PROVE  Found(t.what.version, f)'
    BY <1>1, <2>1 DEF Downloads, Found, ImagesStay
  <2>. QED
    BY <1>1, <2>1 DEF Downloads
<1>2. ASSUME Agreed(t.what)
      PROVE  Agreed(t.what)'
  BY <1>2 DEF Agreed, ImagesStay
<1>. QED
  BY <1>1, <1>2 DEF TaskOk

LEMMA AgreedStays ==
    ASSUME ImagesStay, NEW w, Agreed(w)
    PROVE  Agreed(w)'
  BY DEF Agreed, ImagesStay

\* A task is replaced by others, and may leave a proposal.
LEMMA TaskReplaced ==
    ASSUME ImagesInv, UNCHANGED images, NEW o \in Operator, NEW t \in tasks[o], NEW new, Tool!Put(o, t, new),
           \A u \in new : TaskOk(u),
           \/ UNCHANGED submitted
           \/ /\ submitted' = submitted \cup {[kind |-> t.kind, what |-> t.what, by |-> o]}
              /\ t.pc = "confirm"
    PROVE  ImagesInv'
<1>1. /\ tasks' = [tasks EXCEPT ![o] = (tasks[o] \ {t}) \cup new]
      /\ tasks = [q \in Operator |-> tasks[q]]
  BY DEF Tool!Put, ImagesInv
<1>2. /\ tasks' = [q \in Operator |-> tasks'[q]]
      /\ tasks'[o] = (tasks[o] \ {t}) \cup new
      /\ \A q \in Operator \ {o} : tasks'[q] = tasks[q]
  BY <1>1
<1>3. ImagesStay
  BY DEF ImagesStay
<1>4. ASSUME NEW q \in Operator, NEW u \in tasks'[q]
      PROVE  TaskOk(u)'
  <2>1. TaskOk(u)
    BY <1>2 DEF ImagesInv
  <2>. QED
    BY <1>3, <2>1, OkStays
<1>5. ASSUME NEW p \in submitted', p.kind = "elect"
      PROVE  Agreed(p.what)'
  <2>1. Agreed(p.what)
    <3>1. CASE p \in submitted
      BY <1>5, <3>1 DEF ImagesInv
    <3>2. CASE p \notin submitted
      <4>1. p.kind = t.kind /\ p.what = t.what /\ t.pc = "confirm"
        BY <3>2
      <4>2. TaskOk(t)
        BY DEF ImagesInv
      <4>. QED
        BY <1>5, <4>1, <4>2 DEF TaskOk
    <3>. QED
      BY <3>1, <3>2
  <2>. QED
    BY <1>3, <2>1, AgreedStays
<1>. QED
  BY <1>2, <1>4, <1>5 DEF ImagesInv

\* The tool counts as its library does.
LEMMA SameCardinality ==
    ASSUME NEW S
    PROVE  Tool!Cardinality(S) = Cardinality(S)
  BY DEF Tool!Cardinality, Cardinality

\* The images that were found and compared.
LEMMA ValidAgrees ==
    ASSUME TwoServers, NEW t, Downloads(t), Tool!Valid(t.found, t.what.force), NEW w,
           w = [version |-> t.what.version, force |-> t.what.force, urls |-> {f.cdn : f \in t.found},
                hash |-> (CHOOSE f \in t.found : f.hash \in Tool!Hashes(t.found)).hash]
    PROVE  Agreed(w)
<1>. DEFINE v == t.what.version
            At == [c \in Cdn |-> [cdn |-> c, hash |-> images[v][c]]]
            all == {At[c] : c \in Cdn}
            hashes == {f.hash : f \in t.found}
<1>0. Cardinality(Tool!Hashes(t.found)) = 1 /\ (t.what.force \/ Cardinality(t.found) = 2)
  <2>1. Tool!Cardinality(Tool!Hashes(t.found)) = 1 /\ (t.what.force \/ Tool!Cardinality(t.found) = 2)
    BY DEF Tool!Valid
  <2>2. /\ Tool!Cardinality(Tool!Hashes(t.found)) = Cardinality(Tool!Hashes(t.found))
        /\ Tool!Cardinality(t.found) = Cardinality(t.found)
    BY SameCardinality
  <2>. QED
    BY <2>1, <2>2
<1>1. \A f \in t.found : f.cdn \in Cdn /\ f = At[f.cdn] /\ f.hash = images[v][f.cdn] /\ f.hash # Missing
  BY DEF Downloads, Found
<1>2. t.found \subseteq all
  BY <1>1
<1>3. IsFiniteSet(all) /\ Cardinality(all) = 2
  <2>1. At \in Bijection(Cdn, all)
    <3>1. At \in Surjection(Cdn, all)
      BY DEF Surjection
    <3>2. \A c, d \in Cdn : At[c] = At[d] => c = d
      <4>1. \A c \in Cdn : At[c].cdn = c
        OBVIOUS
      <4>. QED
        BY <4>1
    <3>. HIDE DEF At, all
    <3>. QED
      BY <3>1, <3>2 DEF Bijection, Injection, IsInjective, Surjection
  <2>. HIDE DEF At, all
  <2>2. ExistsBijection(Cdn, all)
    BY <2>1 DEF ExistsBijection
  <2>. QED
    BY <2>2, FS_Bijection DEF TwoServers
<1>4. IsFiniteSet(t.found)
  BY <1>2, <1>3, FS_Subset
<1>5. IsFiniteSet(hashes)
  <2>. DEFINE F == [f \in t.found |-> f.hash]
  <2>1. F \in Surjection(t.found, hashes)
    BY DEF Surjection
  <2>. HIDE DEF F, hashes
  <2>. QED
    BY <1>4, <2>1, FS_Surjection
<1>6. PICK h : hashes = {h}
  <2>1. Tool!Hashes(t.found) = hashes
    BY DEF Tool!Hashes
  <2>2. Cardinality(hashes) = 1
    BY <1>0, <2>1
  <2>. HIDE DEF hashes
  <2>. QED
    BY <1>5, <2>2, FS_Singleton
<1>7. \A f \in t.found : f.hash = h
  BY <1>6
<1>8. t.found # {}
  BY <1>6
<1>9. w.hash = h
  <2>1. \E f \in t.found : f.hash \in Tool!Hashes(t.found)
    BY <1>8 DEF Tool!Hashes
  <2>2. (CHOOSE f \in t.found : f.hash \in Tool!Hashes(t.found)) \in t.found
    BY <2>1
  <2>. QED
    BY <1>7, <2>2
<1>10. w.urls = {f.cdn : f \in t.found} /\ w.version = v
  OBVIOUS
<1>11. w.urls \subseteq Cdn /\ (\A c \in w.urls : images[v][c] = h) /\ h # Missing
  BY <1>1, <1>7, <1>8, <1>10
<1>12. w.urls = Cdn \/ w.force
  <2>1. CASE t.what.force
    BY <2>1
  <2>2. CASE Cardinality(t.found) = 2
    <3>1. t.found = all
      BY <1>2, <1>3, <2>2, FS_Subset
    <3>2. \A c \in Cdn : c \in w.urls
      <4>1. \A c \in Cdn : At[c] \in t.found /\ At[c].cdn = c
        BY <3>1
      <4>. QED
        BY <1>10, <4>1
    <3>. QED
      BY <1>11, <3>2
  <2>. QED
    BY <1>0, <2>1, <2>2
<1>13. v \in Candidate
  BY DEF Downloads
<1>. QED
  BY <1>9, <1>10, <1>11, <1>12, <1>13 DEF Agreed

LEMMA WorkKeepsImages ==
    ASSUME TwoServers, ImagesInv, NEW o \in Operator, NEW t \in tasks[o], Tool!Work(o, t)
    PROVE  ImagesInv'
<1>0. TaskOk(t) /\ {"kind", "what", "pc"} \subseteq DOMAIN t
  BY DEF ImagesInv, TaskOk
<1>1. ASSUME Tool!Put(o, t, {}), UNCHANGED images, UNCHANGED submitted
      PROVE  ImagesInv'
  BY <1>1, TaskReplaced
<1>2. ASSUME NEW u, TaskOk(u), Tool!Put(o, t, {u}), UNCHANGED images, UNCHANGED submitted
      PROVE  ImagesInv'
  BY <1>2, TaskReplaced
<1>3. ASSUME NEW pc, pc # "download", t.pc # "download", Tool!Goto(o, t, pc), UNCHANGED images, UNCHANGED submitted
      PROVE  ImagesInv'
  <2>. DEFINE u == [t EXCEPT !.pc = pc]
  <2>1. Tool!Put(o, t, {u})
    BY <1>3 DEF Tool!Goto
  <2>2. {"kind", "what", "pc"} \subseteq DOMAIN u /\ u.kind = t.kind /\ u.what = t.what /\ u.pc = pc
    BY <1>0, Moved1
  <2>. HIDE DEF u
  <2>3. TaskOk(u)
    BY <1>0, <1>3, <2>2 DEF TaskOk
  <2>. QED
    BY <1>2, <1>3, <2>1, <2>3
<1>4. CASE Tool!Check(o, t) \/ Tool!Simulate(o, t)
  <2>1. UNCHANGED images /\ UNCHANGED submitted
    BY <1>4 DEF Tool!Check, Tool!Simulate, Tool!registry
  <2>. QED
    BY <1>1, <1>3, <1>4, <2>1 DEF Tool!Check, Tool!Simulate
<1>5. CASE Tool!Submit(o, t)
  BY <1>5, TaskReplaced DEF Tool!Submit, Tool!registry
<1>6. CASE Tool!GiveUp(o, t)
  BY <1>1, <1>6 DEF Tool!GiveUp, Tool!registry
<1>7. CASE Tool!Validate(o, t)
  <2>. DEFINE w == [version |-> t.what.version, force |-> t.what.force, urls |-> {f.cdn : f \in t.found},
                    hash |-> (CHOOSE f \in t.found : f.hash \in Tool!Hashes(t.found)).hash]
  <2>1. UNCHANGED images /\ UNCHANGED submitted /\ Downloads(t)
    BY <1>0, <1>7 DEF Tool!Validate, Tool!registry, TaskOk
  <2>2. CASE Tool!Valid(t.found, t.what.force) /\ Tool!Put(o, t, {Tool!Task("elect", w)})
    <3>1. Agreed(w)
      BY <2>1, <2>2, ValidAgrees
    <3>. HIDE DEF w
    <3>2. /\ DOMAIN Tool!Task("elect", w) = {"kind", "what", "pc"} /\ Tool!Task("elect", w).pc = "simulate"
          /\ Tool!Task("elect", w).what = w
      BY DEF Tool!Task
    <3>3. TaskOk(Tool!Task("elect", w))
      BY <3>1, <3>2 DEF TaskOk
    <3>. QED
      BY <1>2, <2>1, <2>2, <3>3
  <2>3. CASE Tool!Put(o, t, {})
    BY <1>1, <2>1, <2>3
  <2>. QED
    BY <1>7, <2>2, <2>3 DEF Tool!Validate
<1>8. CASE Tool!Test(o, t)
  <2>1. ASSUME NEW what, Tool!Put(o, t, {Tool!Task("firewall", what)})
        PROVE  ImagesInv'
    <3>1. /\ DOMAIN Tool!Task("firewall", what) = {"kind", "what", "pc"}
          /\ Tool!Task("firewall", what).kind = "firewall" /\ Tool!Task("firewall", what).pc = "simulate"
      BY DEF Tool!Task
    <3>2. TaskOk(Tool!Task("firewall", what))
      BY <3>1 DEF TaskOk
    <3>. QED
      BY <1>2, <1>8, <2>1, <3>2 DEF Tool!Test, Tool!registry
  <2>. DEFINE what == [mods |-> t.what.mods, edited |-> t.what.edited, base |-> t.base, tested |-> rules,
                       hash |-> Tool!Applied(rules, t.what.mods, t.what.edited)]
  <2>2. Tool!Put(o, t, {Tool!Task("firewall", what)})
    BY <1>8 DEF Tool!Test
  <2>. HIDE DEF what
  <2>. QED
    BY <2>1, <2>2
<1>9. ASSUME NEW cdn \in Cdn, Tool!Fetch(o, t, cdn)
      PROVE  ImagesInv'
  <2>. DEFINE image == images[t.what.version][cdn]
              new == IF image = Missing THEN {} ELSE {[cdn |-> cdn, hash |-> image]}
              u == [t EXCEPT !.left = @ \ {cdn},
                             !.found = @ \cup IF image = Missing THEN {} ELSE {[cdn |-> cdn, hash |-> image]}]
  <2>1. Downloads(t) /\ t.pc = "download" /\ "found" \in DOMAIN t
    BY <1>0, <1>9 DEF Tool!Fetch, TaskOk, Downloads
  <2>2. /\ DOMAIN u = DOMAIN t /\ u.kind = t.kind /\ u.what = t.what /\ u.pc = t.pc
        /\ u.found = t.found \cup new
    BY <1>0, <2>1
  <2>3. \A f \in new : Found(t.what.version, f)
    BY DEF Found
  <2>4. UNCHANGED images /\ UNCHANGED submitted /\ Tool!Put(o, t, {u})
    BY <1>9 DEF Tool!Fetch, Tool!registry
  <2>. HIDE DEF u, new
  <2>5. Downloads(u)
    BY <2>1, <2>2, <2>3 DEF Downloads
  <2>6. TaskOk(u)
    BY <1>0, <2>1, <2>2, <2>5 DEF TaskOk
  <2>. QED
    BY <1>2, <2>4, <2>6
<1>. QED
  BY <1>4, <1>5, <1>6, <1>7, <1>8, <1>9 DEF Tool!Work

\* The tasks of a new command have proposed and found nothing.
LEMMA CommandKeepsImages ==
    ASSUME ImagesInv, NEW o \in Operator, Tool!Command(o)
    PROVE  ImagesInv'
<1>1. ASSUME NEW new, Tool!Begin(o, new), \A t \in new : TaskOk(t)
      PROVE  ImagesInv'
  <2>1. /\ tasks' = [tasks EXCEPT ![o] = new] /\ UNCHANGED submitted /\ UNCHANGED images
        /\ tasks = [q \in Operator |-> tasks[q]]
    BY <1>1 DEF Tool!Begin, Tool!registry, ImagesInv
  <2>2. /\ tasks' = [q \in Operator |-> tasks'[q]] /\ tasks'[o] = new
        /\ \A q \in Operator \ {o} : tasks'[q] = tasks[q]
    BY <2>1
  <2>3. ImagesStay
    BY <2>1 DEF ImagesStay
  <2>4. ASSUME NEW q \in Operator, NEW t \in tasks'[q]
        PROVE  TaskOk(t)'
    <3>1. TaskOk(t)
      BY <1>1, <2>2 DEF ImagesInv
    <3>. QED
      BY <2>3, <3>1, OkStays
  <2>5. ASSUME NEW p \in submitted', p.kind = "elect"
        PROVE  Agreed(p.what)'
    BY <2>1, <2>3, <2>5, AgreedStays DEF ImagesInv
  <2>. QED
    BY <2>1, <2>2, <2>4, <2>5 DEF ImagesInv
<1>2. ASSUME NEW kind, NEW what, kind # "elect"
      PROVE  TaskOk(Tool!Task(kind, what))
  <2>1. /\ DOMAIN Tool!Task(kind, what) = {"kind", "what", "pc"} /\ Tool!Task(kind, what).kind = kind
        /\ Tool!Task(kind, what).pc # "download"
    BY DEF Tool!Task
  <2>. QED
    BY <1>2, <2>1 DEF TaskOk
<1>3. Tool!Begin(o, {}) => ImagesInv'
  BY <1>1
<1>4. ASSUME NEW subnets \in SUBSET ToolSubnet, Tool!Begin(o, {Tool!Change(s) : s \in subnets})
      PROVE  ImagesInv'
  <2>1. \A s \in subnets : TaskOk(Tool!Change(s))
    BY <1>2 DEF Tool!Change
  <2>. QED
    BY <1>1, <1>4, <2>1
<1>5. ASSUME NEW s \in ToolSubnet, Tool!ChangeMembership(o, s)
      PROVE  ImagesInv'
  <2>1. TaskOk(Tool!Change(s))
    BY <1>2 DEF Tool!Change
  <2>. QED
    BY <1>1, <1>3, <1>5, <2>1 DEF Tool!ChangeMembership
<1>6. ASSUME Tool!ProposePlain(o) \/ Tool!CreateSubnet(o)
      PROVE  ImagesInv'
  <2>1. PICK what : Tool!Begin(o, {Tool!Task("plain", what)})
    BY <1>6 DEF Tool!ProposePlain, Tool!CreateSubnet
  <2>2. TaskOk(Tool!Task("plain", what))
    BY <1>2
  <2>. QED
    BY <1>1, <2>1, <2>2
<1>7. ASSUME Tool!UpdateUnassigned(o)
      PROVE  ImagesInv'
  <2>. DEFINE t == Tool!Task("unassigned", [version |-> nnsVersion])
  <2>1. Tool!Begin(o, {}) \/ Tool!Begin(o, {t})
    BY <1>7 DEF Tool!UpdateUnassigned
  <2>2. TaskOk(t)
    BY <1>2
  <2>. HIDE DEF t
  <2>. QED
    BY <1>1, <1>3, <2>1, <2>2
<1>8. ASSUME NEW v \in Candidate, NEW force \in BOOLEAN, Tool!Elect(o, v, force)
      PROVE  ImagesInv'
  <2>. DEFINE t == [kind |-> "elect", what |-> [version |-> v, force |-> force],
                    pc |-> "download", left |-> Cdn, found |-> {}]
  <2>1. /\ Tool!Begin(o, {t}) /\ {"kind", "what", "pc"} \subseteq DOMAIN t /\ "found" \in DOMAIN t
        /\ t.kind = "elect" /\ t.what.version = v /\ t.found = {} /\ t.pc = "download"
    BY <1>8 DEF Tool!Elect
  <2>. HIDE DEF t
  <2>2. TaskOk(t)
    BY <2>1 DEF TaskOk, Downloads
  <2>. QED
    BY <1>1, <2>1, <2>2
<1>9. ASSUME NEW edited \in Edits, Tool!EditFirewall(o, edited)
      PROVE  ImagesInv'
  <2>1. ASSUME NEW what, Tool!Begin(o, {[kind |-> "firewall", pc |-> "test", base |-> rules, what |-> what]})
        PROVE  ImagesInv'
    <3>. DEFINE t == [kind |-> "firewall", pc |-> "test", base |-> rules, what |-> what]
    <3>1. Tool!Begin(o, {t}) /\ {"kind", "what", "pc"} \subseteq DOMAIN t /\ t.kind = "firewall" /\ t.pc = "test"
      BY <2>1
    <3>. HIDE DEF t
    <3>2. TaskOk(t)
      BY <3>1 DEF TaskOk
    <3>. QED
      BY <1>1, <3>1, <3>2
  <2>. DEFINE batched == Tool!Batched(Tool!ReverseSorted(rules, edited))
              what == [mods |-> Tool!LastBatch(batched.batches), edited |-> edited]
  <2>2. Tool!Begin(o, {}) \/ Tool!Begin(o, {[kind |-> "firewall", pc |-> "test", base |-> rules, what |-> what]})
    BY <1>9 DEF Tool!EditFirewall
  <2>. HIDE DEF batched, what
  <2>. QED
    BY <1>3, <2>1, <2>2
<1>10. CASE Tool!Heal(o)
  BY <1>4, <1>10 DEF Tool!Heal
<1>. QED
  BY <1>5, <1>6, <1>7, <1>8, <1>9, <1>10 DEF Tool!Command

LEMMA OthersKeepImages ==
    ASSUME ImagesInv, ImagesStay, images' \in [Candidate -> [Cdn -> Image \cup {Missing}]],
           UNCHANGED tasks, submitted' \subseteq submitted
    PROVE  ImagesInv'
<1>1. ASSUME NEW q \in Operator, NEW t \in tasks'[q]
      PROVE  TaskOk(t)'
  BY OkStays DEF ImagesInv
<1>2. ASSUME NEW p \in submitted', p.kind = "elect"
      PROVE  Agreed(p.what)'
  BY <1>2, AgreedStays DEF ImagesInv
<1>. QED
  BY <1>1, <1>2 DEF ImagesInv

LEMMA UploadKeepsImages ==
    ASSUME ImagesInv, NEW v \in Candidate, NEW cdn \in Cdn, NEW image \in Image, Tool!Upload(v, cdn, image)
    PROVE  ImagesInv'
<1>1. /\ images \in [Candidate -> [Cdn -> Image \cup {Missing}]] /\ images[v][cdn] = Missing
      /\ images' = [images EXCEPT ![v] = [images[v] EXCEPT ![cdn] = image]]
      /\ UNCHANGED tasks /\ UNCHANGED submitted
  BY DEF ImagesInv, Tool!Upload
<1>. DEFINE new == [images[v] EXCEPT ![cdn] = image]
<1>2. new \in [Cdn -> Image \cup {Missing}] /\ \A c \in Cdn \ {cdn} : new[c] = images[v][c]
  BY <1>1
<1>3. images' = [images EXCEPT ![v] = new]
  BY <1>1
<1>. HIDE DEF new
<1>4. images' \in [Candidate -> [Cdn -> Image \cup {Missing}]]
  BY <1>1, <1>2, <1>3
<1>5. ImagesStay
  BY <1>1, <1>2, <1>3 DEF ImagesStay
<1>. QED
  BY <1>1, <1>4, <1>5, OthersKeepImages

\* The images of a version that is proposed for election are all the same, and on
\* both servers unless that was waived, whatever was uploaded between the downloads
\* and however long the proposal was on its way (ic_admin.rs:516-579).
THEOREM ElectedAgree == TwoServers => (Tool!Spec => []Tool!ElectedImagesAgree)
<1>. SUFFICES ASSUME TwoServers
              PROVE  Tool!Spec => []Tool!ElectedImagesAgree
  OBVIOUS
<1>1. Tool!Init => ImagesInv
  <2>. SUFFICES ASSUME Tool!Init
                PROVE  ImagesInv
    OBVIOUS
  <2>1. /\ tasks = [o \in Operator |-> {}] /\ submitted = {}
        /\ images = [v \in Candidate |-> [c \in Cdn |-> Missing]]
    BY DEF Tool!Init
  <2>. QED
    BY <2>1 DEF ImagesInv
<1>2. ImagesInv /\ [Tool!Next]_Tool!vars => ImagesInv'
  <2>. SUFFICES ASSUME ImagesInv, [Tool!Next]_Tool!vars
                PROVE  ImagesInv'
    OBVIOUS
  <2>1. ASSUME NEW o \in Operator, Tool!Command(o) \/ \E t \in tasks[o] : Tool!Work(o, t)
        PROVE  ImagesInv'
    BY <2>1, CommandKeepsImages, WorkKeepsImages
  <2>2. ASSUME \/ Tool!Download
               \/ \E p \in submitted : Tool!Execute(p)
               \/ \E v \in Version : Tool!UpgradeNns(v)
               \/ UNCHANGED Tool!vars
        PROVE  ImagesInv'
    <3>1. UNCHANGED tasks /\ submitted' \subseteq submitted /\ UNCHANGED images
      BY <2>2 DEF Tool!Download, Tool!Execute, Tool!UpgradeNns, Tool!vars, Tool!registry
    <3>2. ImagesStay /\ images' \in [Candidate -> [Cdn -> Image \cup {Missing}]]
      BY <3>1 DEF ImagesStay, ImagesInv
    <3>. QED
      BY <3>1, <3>2, OthersKeepImages
  <2>3. ASSUME NEW v \in Candidate, NEW c \in Cdn, NEW i \in Image, Tool!Upload(v, c, i)
        PROVE  ImagesInv'
    BY <2>3, UploadKeepsImages
  <2>. QED
    BY <2>1, <2>2, <2>3 DEF Tool!Next
<1>3. ImagesInv => Tool!ElectedImagesAgree
  BY DEF ImagesInv, Agreed, Tool!ElectedImagesAgree
<1>. QED
  BY <1>1, <1>2, <1>3, PTL DEF Tool!Spec


-----------------------------------------------------------------------------
(* Firewall edits: positions in order.                                       *)

\* A set of positions of a list in increasing order.
Increasing(s, S) == /\ s \in [1..Cardinality(S) -> S]
                    /\ \A i, j \in 1..Cardinality(S) : i < j => s[i] < s[j]

LEMMA IncreasingExists ==
    ASSUME NEW n \in Nat
    PROVE  \A S \in SUBSET (0..(n - 1)) : \E s : Increasing(s, S)
<1>. DEFINE P == {k \in Nat : \A S \in SUBSET (0..(k - 1)) : \E s : Increasing(s, S)}
<1>1. 0 \in P
  <2>1. ASSUME NEW S \in SUBSET (0..(0 - 1))
        PROVE  \E s : Increasing(s, S)
    <3>1. S = {} /\ Cardinality({}) = 0
      BY FS_EmptySet
    <3>2. <<>> \in [1..0 -> {}]
      OBVIOUS
    <3>3. Increasing(<<>>, {})
      BY <3>1, <3>2 DEF Increasing
    <3>. QED
      BY <3>1, <3>3
  <2>. QED
    BY <2>1
<1>2. ASSUME NEW k \in P
      PROVE  k + 1 \in P
  <2>1. ASSUME NEW S \in SUBSET (0..(k + 1 - 1))
        PROVE  \E s : Increasing(s, S)
    <3>. DEFINE T == S \ {k}
    <3>1. k \in Nat /\ k + 1 - 1 = k
      OBVIOUS
    <3>2. T \in SUBSET (0..(k - 1)) /\ S \in SUBSET (0..k)
      <4>1. \A x \in T : x \in 0..k /\ x # k
        BY <3>1
      <4>. QED
        BY <3>1, <4>1
    <3>. HIDE DEF T
    <3>3. PICK t : Increasing(t, T)
      BY <3>2
    <3>4. IsFiniteSet(T) /\ Cardinality(T) \in Nat
      <4>1. IsFiniteSet(0..(k - 1))
        BY <3>1, FS_Interval
      <4>. QED
        BY <3>2, <4>1, FS_Subset, FS_CardinalityType
    <3>5. CASE k \notin S
      <4>1. S = T
        BY <3>5 DEF T
      <4>. QED
        BY <3>3, <4>1
    <3>6. CASE k \in S
      <4>. DEFINE c == Cardinality(T)
                  s == [i \in 1..(c + 1) |-> IF i \in 1..c THEN t[i] ELSE k]
      <4>1. S = T \cup {k} /\ k \notin T
        BY <3>6 DEF T
      <4>2. Cardinality(S) = c + 1
        BY <3>4, <4>1, FS_AddElement
      <4>3. t \in [1..c -> T] /\ \A i, j \in 1..c : i < j => t[i] < t[j]
        BY <3>3 DEF Increasing
      <4>. HIDE DEF c
      <4>4. c \in Nat
        BY <3>4 DEF c
      <4>5. s \in [1..(c + 1) -> S]
        BY <4>1, <4>3
      <4>6. ASSUME NEW i \in 1..(c + 1), NEW j \in 1..(c + 1), i < j
            PROVE  s[i] < s[j]
        <5>1. i \in 1..c /\ s[i] = t[i] /\ t[i] \in T
          BY <4>3, <4>4, <4>6
        <5>2. CASE j \in 1..c
          BY <4>3, <4>6, <5>1, <5>2
        <5>3. CASE j \notin 1..c
          <6>1. s[j] = k /\ t[i] \in 0..(k - 1)
            BY <3>2, <5>1, <5>3
          <6>. QED
            BY <3>1, <5>1, <6>1
        <5>. QED
          BY <5>2, <5>3
      <4>. HIDE DEF s
      <4>7. Increasing(s, S)
        BY <4>2, <4>5, <4>6 DEF Increasing
      <4>. QED
        BY <4>7
    <3>. QED
      BY <3>5, <3>6
  <2>. QED
    BY <2>1
<1>3. P = Nat
  <2>1. P \in SUBSET Nat
    OBVIOUS
  <2>. HIDE DEF P
  <2>. QED
    BY <1>1, <1>2, <2>1, Induction
<1>. QED
  BY <1>3

\* The order of positions is such a list, and has all of them.
LEMMA AscendingIs ==
    ASSUME NEW n \in Nat, NEW S \in SUBSET (0..n)
    PROVE  /\ IsFiniteSet(S) /\ Cardinality(S) \in Nat
           /\ Increasing(Tool!Ascending(S), S)
           /\ Tool!Ascending(S) \in Seq(S) /\ Len(Tool!Ascending(S)) = Cardinality(S)
           /\ \A p \in S : \E i \in 1..Cardinality(S) : Tool!Ascending(S)[i] = p
<1>. DEFINE a == Tool!Ascending(S)
            c == Cardinality(S)
<1>1. IsFiniteSet(S) /\ c \in Nat
  <2>1. IsFiniteSet(0..n)
    BY FS_Interval
  <2>. QED
    BY <2>1, FS_Subset, FS_CardinalityType
<1>2. \E s : Increasing(s, S)
  <2>1. n + 1 \in Nat /\ (n + 1) - 1 = n
    OBVIOUS
  <2>. QED
    BY <2>1, IncreasingExists
<1>3. a = CHOOSE s \in [1..c -> S] : \A i, j \in DOMAIN s : i < j => s[i] < s[j]
  BY SameCardinality DEF Tool!Ascending
<1>. HIDE DEF a, c
<1>4. a \in [1..c -> S] /\ \A i, j \in DOMAIN a : i < j => a[i] < a[j]
  <2>1. \E s \in [1..c -> S] : \A i, j \in DOMAIN s : i < j => s[i] < s[j]
    BY <1>2 DEF Increasing, c
  <2>. QED
    BY <1>3, <2>1
<1>5. Increasing(a, S)
  BY <1>4 DEF Increasing, c
<1>6. a \in Seq(S) /\ Len(a) = c
  BY <1>1, <1>4
<1>7. \A p \in S : \E i \in 1..c : a[i] = p
  <2>. DEFINE R == {a[i] : i \in 1..c}
  <2>1. IsFiniteSet(1..c) /\ Cardinality(1..c) = c
    BY <1>1, FS_Interval
  <2>2. a \in Surjection(1..c, R) /\ a \in Injection(1..c, R)
    <3>1. a \in [1..c -> R] /\ \A r \in R : \E i \in 1..c : a[i] = r
      BY <1>4
    <3>2. ASSUME NEW i \in 1..c, NEW j \in 1..c, a[i] = a[j]
          PROVE  i = j
      <4>1. i \in Int /\ j \in Int /\ a[i] \in Int
        <5>1. a[i] \in 0..n
          BY <1>4
        <5>. QED
          BY <1>1, <5>1
      <4>2. ~(i < j) /\ ~(j < i)
        BY <1>4, <3>2, <4>1
      <4>. QED
        BY <4>1, <4>2
    <3>. HIDE DEF R
    <3>. QED
      BY <3>1, <3>2 DEF Surjection, Injection, IsInjective
  <2>3. R \in SUBSET S
    BY <1>4
  <2>. HIDE DEF R
  <2>4. Cardinality(R) = c
    BY <2>1, <2>2, FS_Surjection
  <2>5. R = S
    BY <1>1, <2>3, <2>4, FS_Subset DEF c
  <2>. QED
    BY <2>5 DEF R
<1>. QED
  BY <1>1, <1>5, <1>6, <1>7 DEF a, c

\* Positions that follow one another are their own order.
LEMMA AscendingOfInterval ==
    ASSUME NEW a \in Nat, NEW b \in Int, a <= b + 1
    PROVE  /\ Len(Tool!Ascending(a..b)) = b - a + 1
           /\ DOMAIN Tool!Ascending(a..b) = 1..(b - a + 1)
           /\ \A i \in 1..(b - a + 1) : Tool!Ascending(a..b)[i] = a + i - 1
<1>. DEFINE s == Tool!Ascending(a..b)
            c == b - a + 1
<1>1. IsFiniteSet(a..b) /\ Cardinality(a..b) = c /\ c \in Nat
  BY FS_Interval
<1>2. s \in [1..c -> a..b] /\ Len(s) = c /\ \A i, j \in 1..c : i < j => s[i] < s[j]
  <2>1. PICK n \in Nat : a..b \in SUBSET (0..n)
    <3>1. CASE b >= 0
      <4>1. b \in Nat /\ a..b \in SUBSET (0..b)
        BY <3>1
      <4>. QED
        BY <4>1
    <3>2. CASE b < 0
      <4>1. a..b \in SUBSET (0..0)
        BY <3>2
      <4>. QED
        BY <4>1
    <3>. QED
      BY <3>1, <3>2
  <2>2. Increasing(s, a..b) /\ Len(s) = Cardinality(a..b)
    BY <2>1, AscendingIs
  <2>. QED
    BY <1>1, <2>2 DEF Increasing
<1>. HIDE DEF s
<1>3. ASSUME c # 0, NEW i \in 1..c
      PROVE  s[i] >= a + i - 1 /\ s[i] <= a + i - 1
  <2>0. c - 1 \in Nat /\ \A k \in 1..c : s[k] \in Int /\ s[k] >= a /\ s[k] <= b
    BY <1>1, <1>2, <1>3
  <2>. DEFINE P == {k \in 0..(c - 1) : s[k + 1] >= a + k}
              Q == {k \in 0..(c - 1) : s[c - k] <= b - k}
  <2>1. 0 \in P /\ 0 \in Q
    BY <1>1, <1>3, <2>0
  <2>2. ASSUME NEW k \in P, k < c - 1
        PROVE  k + 1 \in P
    <3>1. k + 1 \in 1..c /\ k + 2 \in 1..c /\ k + 1 < k + 2 /\ k + 1 \in 0..(c - 1) /\ (k + 1) + 1 = k + 2
      BY <1>1, <2>2
    <3>2. s[k + 1] < s[k + 2] /\ s[k + 1] >= a + k /\ s[k + 1] \in Int /\ s[k + 2] \in Int
      BY <1>2, <2>0, <3>1
    <3>3. s[k + 2] >= a + (k + 1)
      BY <3>1, <3>2
    <3>. QED
      BY <3>1, <3>3
  <2>3. ASSUME NEW k \in Q, k < c - 1
        PROVE  k + 1 \in Q
    <3>1. c - k \in 1..c /\ c - (k + 1) \in 1..c /\ c - (k + 1) < c - k /\ k + 1 \in 0..(c - 1)
      BY <1>1, <2>3
    <3>2. /\ s[c - (k + 1)] < s[c - k] /\ s[c - k] <= b - k
          /\ s[c - (k + 1)] \in Int /\ s[c - k] \in Int
      BY <1>2, <2>0, <3>1
    <3>3. s[c - (k + 1)] <= b - (k + 1)
      BY <3>1, <3>2
    <3>. QED
      BY <3>1, <3>3
  <2>4. P = 0..(c - 1) /\ Q = 0..(c - 1)
    <3>1. P \in SUBSET (0..(c - 1)) /\ Q \in SUBSET (0..(c - 1))
      OBVIOUS
    <3>. HIDE DEF P, Q, c
    <3>. QED
      BY <2>0, <2>1, <2>2, <2>3, <3>1, InductionUpTo
  <2>5. i - 1 \in P /\ c - i \in Q
    <3>1. i - 1 \in 0..(c - 1) /\ c - i \in 0..(c - 1)
      BY <1>1
    <3>. HIDE DEF P, Q, c
    <3>. QED
      BY <2>4, <3>1
  <2>6. i - 1 + 1 = i /\ c - (c - i) = i /\ b - (c - i) = a + i - 1
    BY <1>1
  <2>7. s[i - 1 + 1] >= a + (i - 1) /\ s[c - (c - i)] <= b - (c - i)
    BY <2>5
  <2>. QED
    BY <2>6, <2>7
<1>4. \A i \in 1..c : s[i] = a + i - 1
  <2>1. ASSUME NEW i \in 1..c
        PROVE  s[i] = a + i - 1
    <3>1. c # 0 /\ s[i] \in Int /\ a + i - 1 \in Int
      BY <1>1, <1>2
    <3>2. s[i] >= a + i - 1 /\ s[i] <= a + i - 1
      BY <1>3, <3>1
    <3>. QED
      BY <3>1, <3>2
  <2>. QED
    BY <2>1
<1>. QED
  BY <1>1, <1>2, <1>4 DEF s, c

-----------------------------------------------------------------------------
(* Firewall edits: the modifications and their batches.                      *)

Kinds1 == {"add", "remove", "update"}

Modification(n) == [change : Kinds1, position : 0..n]

LEMMA ListIs ==
    ASSUME NEW list, IsList(list)
    PROVE  /\ Len(list) \in Nat /\ DOMAIN list = 1..Len(list)
           /\ Tool!Positions(list) = 0..(Len(list) - 1)
           /\ list = [i \in 1..Len(list) |-> list[i]]
<1>. DEFINE E == {list[i] : i \in DOMAIN list}
<1>1. list \in Seq(E)
  BY DEF IsList
<1>. HIDE DEF E
<1>. QED
  BY <1>1 DEF Tool!Positions

LEMMA SequenceIsList ==
    ASSUME NEW S, NEW s \in Seq(S)
    PROVE  IsList(s)
<1>. DEFINE E == {s[i] : i \in DOMAIN s}
<1>1. Len(s) \in Nat /\ DOMAIN s = 1..Len(s) /\ s = [i \in 1..Len(s) |-> s[i]]
  OBVIOUS
<1>2. \A i \in 1..Len(s) : s[i] \in E
  BY <1>1
<1>. HIDE DEF E
<1>3. s \in Seq(E)
  BY <1>1, <1>2
<1>. QED
  BY <1>3 DEF IsList, E

\* The positions that an edit modifies.
LEMMA ModifiedIs ==
    ASSUME EditsKnown, NEW list, IsList(list), NEW edited \in Edits
    PROVE  \E n \in Nat : /\ Tool!Modified(list, edited) \in SUBSET (0..n) /\ DOMAIN edited \in SUBSET (0..n)
                          /\ Tool!Positions(list) \in SUBSET (0..n)
<1>. PICK k \in Nat : DOMAIN edited \subseteq 0..k
  BY DEF EditsKnown
<1>1. Len(list) \in Nat /\ Tool!Positions(list) = 0..(Len(list) - 1)
  BY ListIs
<1>. DEFINE n == Len(list) + k
<1>2. n \in Nat /\ 0..k \subseteq 0..n /\ 0..(Len(list) - 1) \subseteq 0..n
  BY <1>1
<1>3. Tool!Modified(list, edited) \subseteq Tool!Positions(list) \cup DOMAIN edited
  BY DEF Tool!Modified
<1>. QED
  BY <1>1, <1>2, <1>3

LEMMA ReverseSortedIs ==
    ASSUME NEW list, NEW edited, NEW n \in Nat, Tool!Modified(list, edited) \in SUBSET (0..n)
    PROVE  /\ Tool!ReverseSorted(list, edited) \in Seq(Modification(n))
           /\ {m.position : m \in Tool!ToSet(Tool!ReverseSorted(list, edited))} = Tool!Modified(list, edited)
           /\ \A i \in 1..Len(Tool!ReverseSorted(list, edited)) :
                Tool!ReverseSorted(list, edited)[i].change
                  \in {Tool!ChangeOf(list, edited, q) : q \in Tool!Modified(list, edited)}
<1>. DEFINE S == Tool!Modified(list, edited)
            up == Tool!Ascending(S)
            c == Cardinality(S)
            r == Tool!ReverseSorted(list, edited)
            M(p) == [change |-> Tool!ChangeOf(list, edited, p), position |-> p]
<1>1. /\ c \in Nat /\ up \in Seq(S) /\ Len(up) = c
      /\ \A p \in S : \E i \in 1..c : up[i] = p
  BY AscendingIs
<1>2. r = [i \in DOMAIN up |-> LET p == up[Len(up) + 1 - i] IN M(p)]
  BY DEF Tool!ReverseSorted
<1>. HIDE DEF up, c, r, S
<1>3. DOMAIN up = 1..c
  BY <1>1
<1>4. ASSUME NEW i \in 1..c
      PROVE  /\ c + 1 - i \in 1..c /\ up[c + 1 - i] \in S /\ r[i] = M(up[c + 1 - i])
             /\ r[i].position = up[c + 1 - i]
             /\ r[i].change = Tool!ChangeOf(list, edited, up[c + 1 - i])
  <2>1. c + 1 - i \in 1..c
    BY <1>1
  <2>2. up[c + 1 - i] \in S
    BY <1>1, <1>3, <2>1
  <2>3. r[i] = M(up[c + 1 - i])
    BY <1>1, <1>2, <1>3
  <2>. QED
    BY <2>1, <2>2, <2>3
<1>5. ASSUME NEW p \in S
      PROVE  M(p) \in Modification(n)
  <2>1. Tool!ChangeOf(list, edited, p) \in Kinds1
    BY DEF Tool!ChangeOf, Kinds1
  <2>2. p \in 0..n
    BY DEF S
  <2>. QED
    BY <2>1, <2>2 DEF Modification
<1>. HIDE DEF M
<1>6. r \in [1..c -> Modification(n)]
  <2>1. r = [i \in 1..c |-> r[i]]
    BY <1>2, <1>3
  <2>2. \A i \in 1..c : r[i] \in Modification(n)
    BY <1>4, <1>5
  <2>. QED
    BY <2>1, <2>2
<1>7. r \in Seq(Modification(n)) /\ Len(r) = c /\ DOMAIN r = 1..c
  BY <1>1, <1>6
<1>8. {m.position : m \in Tool!ToSet(r)} = S
  <2>1. Tool!ToSet(r) = {r[i] : i \in 1..c}
    BY <1>7 DEF Tool!ToSet
  <2>2. ASSUME NEW m \in Tool!ToSet(r)
        PROVE  m.position \in S
    BY <1>4, <2>1
  <2>3. ASSUME NEW p \in S
        PROVE  \E m \in Tool!ToSet(r) : m.position = p
    <3>1. PICK j \in 1..c : up[j] = p
      BY <1>1
    <3>2. c + 1 - j \in 1..c /\ c + 1 - (c + 1 - j) = j
      BY <1>1
    <3>3. r[c + 1 - j].position = p
      BY <1>4, <3>1, <3>2
    <3>. QED
      BY <2>1, <3>2, <3>3
  <2>. QED
    BY <2>2, <2>3
<1>. QED
  BY <1>4, <1>7, <1>8 DEF S, r

\* The state of the loop of the batches.
Batching(n) == [type : Kinds1 \cup {""}, batch : Seq(Modification(n)),
                batches : Seq(Seq(Modification(n)))]

\* As long as all modifications are of one kind there is one batch.
OneBatch(mods, k, acc) ==
    (\A i, j \in 1..k : mods[i].change = mods[j].change) =>
      /\ acc.batches = <<>> /\ acc.batch = SubSeq(mods, 1, k)
      /\ acc.type = IF k = 0 THEN "" ELSE mods[1].change

Joined1(acc, m) ==
    IF acc.type \in {"", m.change} THEN [acc EXCEPT !.type = m.change, !.batch = Append(@, m)]
    ELSE [type |-> m.change, batch |-> <<>>, batches |-> Append(acc.batches, acc.batch)]

LEMMA JoinedIs ==
    ASSUME NEW n \in Nat, NEW acc \in Batching(n), NEW m \in Modification(n)
    PROVE  Joined1(acc, m) \in Batching(n)
<1>0. acc.batch \in Seq(Modification(n)) /\ acc.batches \in Seq(Seq(Modification(n)))
  BY DEF Batching
<1>1. m.change \in Kinds1
  BY DEF Modification
<1>2. CASE acc.type \in {"", m.change}
  <2>1. Append(acc.batch, m) \in Seq(Modification(n))
    BY <1>0
  <2>2. Joined1(acc, m) = [acc EXCEPT !.type = m.change, !.batch = Append(@, m)]
    BY <1>2 DEF Joined1
  <2>. HIDE DEF Modification
  <2>. DEFINE a == [acc EXCEPT !.type = m.change]
  <2>3. a \in Batching(n) /\ a.batch = acc.batch
    BY <1>1 DEF Batching
  <2>4. [a EXCEPT !.batch = Append(acc.batch, m)] \in Batching(n)
    <3>. HIDE DEF a
    <3>. QED
      BY <2>1, <2>3 DEF Batching
  <2>5. [acc EXCEPT !.type = m.change, !.batch = Append(@, m)] = [a EXCEPT !.batch = Append(acc.batch, m)]
    BY DEF Batching
  <2>. QED
    BY <2>2, <2>4, <2>5
<1>3. CASE acc.type \notin {"", m.change}
  <2>1. Append(acc.batches, acc.batch) \in Seq(Seq(Modification(n)))
    BY <1>0
  <2>3. Joined1(acc, m) = [type |-> m.change, batch |-> <<>>, batches |-> Append(acc.batches, acc.batch)]
    BY <1>3 DEF Joined1
  <2>4. <<>> \in Seq(Modification(n))
    OBVIOUS
  <2>5. m.change \in Kinds1 \cup {""}
    BY <1>1
  <2>. DEFINE X == Seq(Modification(n))
  <2>6. Batching(n) = [type : Kinds1 \cup {""}, batch : X, batches : Seq(X)]
    BY DEF Batching
  <2>. HIDE DEF X
  <2>7. [type |-> m.change, batch |-> <<>>, batches |-> Append(acc.batches, acc.batch)] \in Batching(n)
    BY <2>1, <2>4, <2>5, <2>6 DEF X
  <2>. QED
    BY <2>3, <2>7
<1>. QED
  BY <1>2, <1>3

LEMMA JoinedBatch ==
    ASSUME NEW n \in Nat, NEW mods \in Seq(Modification(n)), NEW k \in Nat, k < Len(mods),
           NEW acc \in Batching(n), OneBatch(mods, k, acc)
    PROVE  OneBatch(mods, k + 1, Joined1(acc, mods[k + 1]))
<1>. DEFINE m == mods[k + 1]
            Same == \A i, j \in 1..(k + 1) : mods[i].change = mods[j].change
<1>1. /\ 1..k \subseteq 1..(k + 1) /\ k + 1 \in 1..(k + 1) /\ 1 \in 1..(k + 1) /\ k + 1 \in 1..Len(mods)
      /\ k + 1 # 0
  OBVIOUS
<1>2. Same => /\ acc.batches = <<>> /\ acc.batch = SubSeq(mods, 1, k)
              /\ acc.type = IF k = 0 THEN "" ELSE mods[1].change
  BY <1>1 DEF OneBatch
<1>3. Same => m.change = mods[1].change
  BY <1>1
<1>4. Same => acc.type \in {"", m.change}
  BY <1>2, <1>3
<1>5. Append(SubSeq(mods, 1, k), m) = SubSeq(mods, 1, k + 1)
  BY <1>1
<1>6. Same => Joined1(acc, m) = [acc EXCEPT !.type = m.change, !.batch = Append(@, m)]
  BY <1>4 DEF Joined1
<1>. HIDE DEF m
<1>7. Same => /\ Joined1(acc, m).batches = acc.batches /\ Joined1(acc, m).batch = Append(acc.batch, m)
              /\ Joined1(acc, m).type = m.change
  BY <1>6 DEF Batching
<1>8. Same => /\ Joined1(acc, m).batches = <<>> /\ Joined1(acc, m).batch = SubSeq(mods, 1, k + 1)
              /\ Joined1(acc, m).type = mods[1].change
  <2>. HIDE DEF Same
  <2>. QED
    BY <1>2, <1>3, <1>5, <1>7
<1>. QED
  BY <1>1, <1>8 DEF OneBatch, m

\* What the loop makes of modifications: batches of them, and one batch of all if
\* they are of one kind.
LEMMA BatchedIs ==
    ASSUME NEW n \in Nat, NEW mods \in Seq(Modification(n))
    PROVE  /\ Tool!Batched(mods).batches \in Seq(Seq(Modification(n)))
           /\ mods # <<>> /\ (\A i, j \in 1..Len(mods) : mods[i].change = mods[j].change)
              => Tool!Batched(mods).batches = <<mods>>
<1>. DEFINE N == Len(mods)
            S == Batching(n)
            start == [type |-> "", batch |-> <<>>, batches |-> <<>>]
            After(k, s) == IF k < N THEN Joined1(s, mods[k + 1]) ELSE s
            step == [k \in Nat |-> [s \in S |-> After(k, s)]]
            IsIt(h) == h = [k \in 0..N |-> IF k = 0 THEN start ELSE Joined1(h[k - 1], mods[k])]
            after == CHOOSE h : IsIt(h)
            all == after[N]
<1>0. Tool!Batched(mods).batches = IF all.batch = <<>> THEN all.batches ELSE Append(all.batches, all.batch)
  BY DEF Tool!Batched, Joined1
<1>1. N \in Nat /\ \A k \in 1..N : mods[k] \in Modification(n)
  OBVIOUS
<1>2. start \in S
  BY DEF Batching
<1>. HIDE DEF start, S
<1>3. step \in [Nat -> [S -> S]]
  <2>1. ASSUME NEW k \in Nat, NEW s \in S
        PROVE  After(k, s) \in S
    <3>1. CASE k < N
      <4>1. k + 1 \in 1..N
        BY <1>1, <3>1
      <4>. QED
        BY <1>1, <3>1, <4>1, JoinedIs DEF S
    <3>. QED
      BY <3>1
  <2>. HIDE DEF After
  <2>. QED
    BY <2>1
<1>4. \E h : IsIt(h)
  <2>1. BehaviourUpTo(N, S, start, step) # {}
    <3>. HIDE DEF step, N
    <3>. QED
      BY <1>1, <1>2, <1>3, RecursionUpTo
  <2>. PICK h : h \in BehaviourUpTo(N, S, start, step)
    BY <2>1
  <2>2. h \in [0..N -> S] /\ h[0] = start /\ \A k \in 1..N : h[k] = step[k - 1][h[k - 1]]
    BY DEF BehaviourUpTo
  <2>. HIDE DEF N
  <2>3. ASSUME NEW p \in 1..N
        PROVE  h[p] = Joined1(h[p - 1], mods[p])
    <3>1. p - 1 \in Nat /\ p - 1 \in 0..N /\ p - 1 < N /\ p - 1 + 1 = p
      BY <1>1
    <3>2. h[p - 1] \in S
      BY <2>2, <3>1
    <3>3. step[p - 1][h[p - 1]] = After(p - 1, h[p - 1])
      BY <3>1, <3>2
    <3>. QED
      BY <2>2, <3>1, <3>3
  <2>4. ASSUME NEW p \in 0..N
        PROVE  h[p] = IF p = 0 THEN start ELSE Joined1(h[p - 1], mods[p])
    <3>1. CASE p = 0
      BY <2>2, <3>1
    <3>2. CASE p # 0
      <4>1. p \in 1..N
        BY <1>1, <3>2
      <4>. QED
        BY <2>3, <3>2, <4>1
    <3>. QED
      BY <3>1, <3>2
  <2>5. IsIt(h)
    BY <2>2, <2>4
  <2>. QED
    BY <2>5
<1>5. IsIt(after)
  <2>. HIDE DEF IsIt
  <2>. QED
    BY <1>4
<1>6. after[0] = start /\ \A k \in 1..N : after[k] = Joined1(after[k - 1], mods[k])
  <2>. HIDE DEF after, N
  <2>1. \A k \in 0..N : after[k] = IF k = 0 THEN start ELSE Joined1(after[k - 1], mods[k])
    BY <1>5
  <2>2. 0 \in 0..N /\ \A k \in 1..N : k \in 0..N /\ k # 0
    BY <1>1
  <2>. QED
    BY <2>1, <2>2
<1>. HIDE DEF after
<1>. DEFINE P == {k \in 0..N : after[k] \in S /\ OneBatch(mods, k, after[k])}
<1>7. 0 \in P
  <2>1. start.batches = <<>> /\ start.batch = <<>> /\ start.type = ""
    BY DEF start
  <2>2. SubSeq(mods, 1, 0) = <<>>
    OBVIOUS
  <2>3. OneBatch(mods, 0, start)
    BY <2>1, <2>2 DEF OneBatch
  <2>. HIDE DEF N
  <2>. QED
    BY <1>1, <1>2, <1>6, <2>3
<1>8. ASSUME NEW k \in P, k < N
      PROVE  k + 1 \in P
  <2>1. k \in Nat /\ k + 1 \in 1..N /\ k + 1 \in 0..N /\ (k + 1) - 1 = k
    BY <1>1, <1>8
  <2>2. after[k + 1] = Joined1(after[k], mods[k + 1])
    BY <1>6, <2>1
  <2>3. Joined1(after[k], mods[k + 1]) \in S
    BY <1>1, <1>8, <2>1, JoinedIs DEF S
  <2>4. OneBatch(mods, k + 1, Joined1(after[k], mods[k + 1]))
    BY <1>8, <2>1, JoinedBatch DEF S
  <2>. QED
    BY <2>1, <2>2, <2>3, <2>4
<1>9. P = 0..N
  <2>1. P \in SUBSET (0..N)
    OBVIOUS
  <2>. HIDE DEF P, N
  <2>. QED
    BY <1>1, <1>7, <1>8, <2>1, InductionUpTo
<1>10. all \in S /\ OneBatch(mods, N, all)
  <2>1. N \in P
    BY <1>1, <1>9
  <2>. QED
    BY <2>1
<1>. HIDE DEF all
<1>11. Tool!Batched(mods).batches \in Seq(Seq(Modification(n)))
  <2>1. all.batch \in Seq(Modification(n)) /\ all.batches \in Seq(Seq(Modification(n)))
    BY <1>10 DEF S, Batching
  <2>2. Append(all.batches, all.batch) \in Seq(Seq(Modification(n)))
    BY <2>1
  <2>. QED
    BY <1>0, <2>1, <2>2
<1>12. ASSUME mods # <<>>, \A i, j \in 1..Len(mods) : mods[i].change = mods[j].change
       PROVE  Tool!Batched(mods).batches = <<mods>>
  <2>1. all.batches = <<>> /\ all.batch = SubSeq(mods, 1, Len(mods))
    BY <1>10, <1>12 DEF OneBatch
  <2>2. SubSeq(mods, 1, Len(mods)) = mods
    OBVIOUS
  <2>3. Append(<<>>, mods) = <<mods>>
    OBVIOUS
  <2>. QED
    BY <1>0, <1>12, <2>1, <2>2, <2>3
<1>. QED
  BY <1>11, <1>12

-----------------------------------------------------------------------------
(* Firewall edits: what becomes of the rules.                                *)

LEMMA InsertAtIs ==
    ASSUME NEW s, NEW i, NEW j, i - 1 = j, NEW e
    PROVE  Tool!InsertAt(s, i, e) = SubSeq(s, 1, j) \o <<e>> \o SubSeq(s, i, Len(s))
<1>1. Tool!InsertAt(s, i, e) = SubSeq(s, 1, i - 1) \o <<e>> \o SubSeq(s, i, Len(s))
  BY DEF Tool!InsertAt
<1>. QED
  BY <1>1, Zenon

LEMMA InsertIs ==
    ASSUME NEW E, NEW s \in Seq(E), NEW p \in 0..Len(s), NEW e \in E
    PROVE  /\ Tool!InsertAt(s, p + 1, e) \in Seq(E)
           /\ p = Len(s) => Tool!InsertAt(s, p + 1, e) = Append(s, e)
<1>. DEFINE a == SubSeq(s, 1, p)
            b == SubSeq(s, p + 1, Len(s))
            r == Tool!InsertAt(s, p + 1, e)
<1>1. p \in Nat /\ p + 1 - 1 = p /\ Len(s) \in Nat
  OBVIOUS
<1>2. r = a \o <<e>> \o b
  <2>1. PICK i : i = p + 1
    OBVIOUS
  <2>2. i - 1 = p
    BY <1>1, <2>1
  <2>3. Tool!InsertAt(s, i, e) = SubSeq(s, 1, p) \o <<e>> \o SubSeq(s, i, Len(s))
    BY <2>2, InsertAtIs
  <2>. QED
    BY <2>1, <2>3
<1>3. a \in Seq(E) /\ <<e>> \in Seq(E)
  BY <1>1
<1>4. b \in Seq(E)
  BY <1>1
<1>. HIDE DEF r
<1>5. r \in Seq(E)
  <2>. HIDE DEF a, b
  <2>. QED
    BY <1>2, <1>3, <1>4
<1>6. ASSUME p = Len(s)
      PROVE  r = Append(s, e)
  <2>1. a = s
    BY <1>6
  <2>2. b = <<>>
    BY <1>1, <1>6
  <2>. HIDE DEF a, b
  <2>3. r = s \o <<e>> \o <<>>
    BY <1>2, <2>1, <2>2
  <2>4. s \o <<e>> \in Seq(E)
    BY <1>3
  <2>5. s \o <<e>> = Append(s, e)
    OBVIOUS
  <2>6. Append(s, e) \o <<>> = Append(s, e)
    <3>1. Append(s, e) \in Seq(E)
      OBVIOUS
    <3>. QED
      BY <3>1, ConcatEmptySeq
  <2>. QED
    BY <2>3, <2>5, <2>6
<1>. QED
  BY <1>5, <1>6 DEF r

\* Insertion gives a list, and positions that follow those of the list extend it.
ListExtended(list, where, edited, r) ==
    /\ IsList(r)
    /\ \A b \in Nat : where = Len(list)..b /\ Len(list) <= b =>
         /\ DOMAIN r = 1..(b + 1)
         /\ \A i \in 1..(b + 1) : r[i] = IF i <= Len(list) THEN list[i] ELSE edited[i - 1]

LEMMA InsertedIs ==
    ASSUME NEW list, IsList(list), NEW n \in Nat, NEW where \in SUBSET (0..n), NEW edited
    PROVE  ListExtended(list, where, edited, Tool!Inserted(list, where, edited))
<1>. DEFINE order == Tool!Ascending(where)
            N == Len(order)
            L == Len(list)
            E == {list[i] : i \in DOMAIN list} \cup {edited[p] : p \in where}
            S == Seq(E)
            Turn(k, s) == IF order[k] > Len(s) THEN s ELSE Tool!InsertAt(s, order[k] + 1, edited[order[k]])
            After(k, s) == IF k < N THEN Turn(k + 1, s) ELSE s
            step == [k \in Nat |-> [s \in S |-> After(k, s)]]
            IsIt(h) == h = [k \in 0..N |-> IF k = 0 THEN list ELSE Turn(k, h[k - 1])]
            after == CHOOSE h : IsIt(h)
            r == Tool!Inserted(list, where, edited)
<1>0. r = after[N]
  BY DEF Tool!Inserted
<1>1. N \in Nat /\ \A k \in 1..N : order[k] \in where
  <2>1. order \in Seq(where)
    BY AscendingIs
  <2>. HIDE DEF order
  <2>. QED
    BY <2>1
<1>. HIDE DEF order
<1>2. list \in S /\ L \in Nat /\ DOMAIN list = 1..L
  <2>1. list \in Seq({list[i] : i \in DOMAIN list})
    BY DEF IsList
  <2>2. {list[i] : i \in DOMAIN list} \subseteq E
    OBVIOUS
  <2>. HIDE DEF E
  <2>. QED
    BY <2>1, <2>2
<1>3. ASSUME NEW k \in 1..N, NEW s \in S
      PROVE  Turn(k, s) \in S
  <2>1. order[k] \in Nat /\ edited[order[k]] \in E
    <3>1. order[k] \in where
      BY <1>1
    <3>2. order[k] \in 0..n
      BY <3>1
    <3>. QED
      BY <3>1, <3>2
  <2>. HIDE DEF E
  <2>2. CASE order[k] > Len(s)
    BY <2>2
  <2>3. CASE ~(order[k] > Len(s))
    <3>1. order[k] \in 0..Len(s)
      BY <2>1, <2>3
    <3>2. Tool!InsertAt(s, order[k] + 1, edited[order[k]]) \in S
      BY <2>1, <3>1, InsertIs
    <3>. QED
      BY <2>3, <3>2
  <2>. QED
    BY <2>2, <2>3
<1>. HIDE DEF Turn, S
<1>4. step \in [Nat -> [S -> S]]
  <2>1. ASSUME NEW k \in Nat, NEW s \in S
        PROVE  After(k, s) \in S
    <3>1. CASE k < N
      <4>1. k + 1 \in 1..N
        BY <1>1, <3>1
      <4>. QED
        BY <1>3, <3>1, <4>1
    <3>. QED
      BY <3>1
  <2>. HIDE DEF After
  <2>. QED
    BY <2>1
<1>5. \E h : IsIt(h)
  <2>1. BehaviourUpTo(N, S, list, step) # {}
    <3>. HIDE DEF step, N
    <3>. QED
      BY <1>1, <1>2, <1>4, RecursionUpTo
  <2>. PICK h : h \in BehaviourUpTo(N, S, list, step)
    BY <2>1
  <2>2. h \in [0..N -> S] /\ h[0] = list /\ \A k \in 1..N : h[k] = step[k - 1][h[k - 1]]
    BY DEF BehaviourUpTo
  <2>. HIDE DEF N
  <2>3. ASSUME NEW p \in 1..N
        PROVE  h[p] = Turn(p, h[p - 1])
    <3>1. p - 1 \in Nat /\ p - 1 \in 0..N /\ p - 1 < N /\ p - 1 + 1 = p
      BY <1>1
    <3>2. h[p - 1] \in S
      BY <2>2, <3>1
    <3>3. step[p - 1][h[p - 1]] = After(p - 1, h[p - 1])
      BY <3>1, <3>2
    <3>. QED
      BY <2>2, <3>1, <3>3
  <2>4. ASSUME NEW p \in 0..N
        PROVE  h[p] = IF p = 0 THEN list ELSE Turn(p, h[p - 1])
    <3>1. CASE p = 0
      BY <2>2, <3>1
    <3>2. CASE p # 0
      <4>1. p \in 1..N
        BY <1>1, <3>2
      <4>. QED
        BY <2>3, <3>2, <4>1
    <3>. QED
      BY <3>1, <3>2
  <2>5. IsIt(h)
    BY <2>2, <2>4
  <2>. QED
    BY <2>5
<1>6. IsIt(after)
  <2>. HIDE DEF IsIt
  <2>. QED
    BY <1>5
<1>7. after[0] = list /\ \A k \in 1..N : after[k] = Turn(k, after[k - 1])
  <2>. HIDE DEF after, N
  <2>1. \A k \in 0..N : after[k] = IF k = 0 THEN list ELSE Turn(k, after[k - 1])
    BY <1>6
  <2>2. 0 \in 0..N /\ \A k \in 1..N : k \in 0..N /\ k # 0
    BY <1>1
  <2>. QED
    BY <2>1, <2>2
<1>. HIDE DEF after, r
<1>. DEFINE P == {k \in 0..N : after[k] \in S}
<1>8. P = 0..N
  <2>1. 0 \in P
    BY <1>1, <1>2, <1>7
  <2>2. ASSUME NEW k \in P, k < N
        PROVE  k + 1 \in P
    <3>1. k \in Nat /\ k + 1 \in 1..N /\ k + 1 \in 0..N /\ (k + 1) - 1 = k
      BY <1>1, <2>2
    <3>2. after[k + 1] = Turn(k + 1, after[k])
      BY <1>7, <3>1
    <3>. QED
      BY <1>3, <3>1, <3>2
  <2>3. P \in SUBSET (0..N)
    OBVIOUS
  <2>. HIDE DEF P, N
  <2>. QED
    BY <1>1, <2>1, <2>2, <2>3, InductionUpTo
<1>9. \A k \in 0..N : after[k] \in Seq(E)
  BY <1>8 DEF S
<1>. HIDE DEF E
<1>10. r \in Seq(E) /\ IsList(r)
  <2>1. r \in Seq(E)
    BY <1>0, <1>1, <1>9
  <2>. QED
    BY <2>1, SequenceIsList
<1>11. ASSUME NEW b \in Nat, where = L..b, L <= b
       PROVE  /\ DOMAIN r = 1..(b + 1)
              /\ \A i \in 1..(b + 1) : r[i] = IF i <= L THEN list[i] ELSE edited[i - 1]
  <2>1. N = b - L + 1 /\ \A k \in 1..N : order[k] = L + k - 1
    <3>1. b \in Int /\ L <= b + 1
      BY <1>2, <1>11
    <3>2. where = Len(list)..b
      BY <1>11
    <3>. QED
      BY <1>2, <3>1, <3>2, AscendingOfInterval DEF order
  <2>. DEFINE Good(k) == /\ Len(after[k]) = L + k
                         /\ \A i \in 1..(L + k) : after[k][i] = IF i <= L THEN list[i] ELSE edited[i - 1]
              Q == {k \in 0..N : Good(k)}
  <2>. HIDE DEF N, L
  <2>2. 0 \in Q
    BY <1>1, <1>2, <1>7 DEF L
  <2>3. ASSUME NEW k \in Q, k < N
        PROVE  k + 1 \in Q
    <3>1. k \in Nat /\ k + 1 \in 1..N /\ k + 1 \in 0..N /\ (k + 1) - 1 = k
      BY <1>1, <2>3
    <3>2. /\ after[k + 1] = Turn(k + 1, after[k]) /\ after[k] \in Seq(E) /\ Len(after[k]) = L + k
          /\ order[k + 1] = L + k
      <4>1. order[k + 1] = L + (k + 1) - 1
        BY <2>1, <3>1
      <4>. QED
        BY <1>2, <1>7, <1>9, <2>3, <3>1, <4>1
    <3>. DEFINE e == edited[L + k]
    <3>3. e \in E
      <4>1. order[k + 1] \in where
        BY <1>1, <3>1
      <4>. QED
        BY <3>2, <4>1 DEF E
    <3>. HIDE DEF e
    <3>4. after[k + 1] = Append(after[k], e)
      <4>1. Len(after[k]) \in Nat /\ Len(after[k]) \in 0..Len(after[k])
        BY <3>2
      <4>2. Tool!InsertAt(after[k], Len(after[k]) + 1, e) = Append(after[k], e)
        BY <3>2, <3>3, <4>1, InsertIs
      <4>3. ~(order[k + 1] > Len(after[k]))
        BY <3>2, <4>1
      <4>. QED
        BY <3>2, <4>2, <4>3 DEF Turn, e
    <3>5. Good(k)
      BY <2>3
    <3>0. PICK s : s = after[k]
      OBVIOUS
    <3>8. /\ Len(after[k + 1]) = Len(s) + 1 /\ after[k + 1][Len(s) + 1] = e
          /\ \A i \in 1..Len(s) : after[k + 1][i] = s[i]
      <4>1. s \in Seq(E)
        BY <3>0, <3>2
      <4>2. /\ Len(Append(s, e)) = Len(s) + 1 /\ Append(s, e)[Len(s) + 1] = e
            /\ \A i \in 1..Len(s) : Append(s, e)[i] = s[i]
        BY <3>3, <4>1, AppendProperties
      <4>. QED
        BY <3>0, <3>4, <4>2
    <3>6. Len(after[k + 1]) = L + (k + 1)
      BY <1>2, <3>0, <3>1, <3>2, <3>8
    <3>7. ASSUME NEW i \in 1..(L + (k + 1))
          PROVE  after[k + 1][i] = IF i <= L THEN list[i] ELSE edited[i - 1]
      <4>1. CASE i \in 1..(L + k)
        <5>1. after[k + 1][i] = after[k][i]
          BY <3>0, <3>2, <3>8, <4>1
        <5>. QED
          BY <3>5, <4>1, <5>1
      <4>2. CASE i \notin 1..(L + k)
        <5>1. i = L + k + 1 /\ ~(i <= L) /\ i - 1 = L + k /\ i = Len(after[k]) + 1
          BY <1>2, <3>1, <3>2, <4>2
        <5>2. after[k + 1][i] = e
          BY <3>0, <3>8, <5>1
        <5>. QED
          BY <5>1, <5>2 DEF e
      <4>. QED
        BY <4>1, <4>2
    <3>. QED
      BY <3>1, <3>6, <3>7
  <2>4. Q = 0..N
    <3>1. Q \in SUBSET (0..N)
      OBVIOUS
    <3>. HIDE DEF Q
    <3>. QED
      BY <1>1, <2>2, <2>3, <3>1, InductionUpTo
  <2>5. Good(N)
    <3>1. N \in Q
      BY <1>1, <2>4
    <3>. QED
      BY <3>1
  <2>6. L + N = b + 1
    BY <1>2, <2>1 DEF L
  <2>7. Len(r) = b + 1 /\ \A i \in 1..(b + 1) : r[i] = IF i <= L THEN list[i] ELSE edited[i - 1]
    BY <1>0, <2>5, <2>6
  <2>8. DOMAIN r = 1..(b + 1)
    BY <1>10, <2>7
  <2>. QED
    BY <2>7, <2>8
<1>. QED
  BY <1>10, <1>11 DEF r, L, ListExtended

\* A list of modifications of a known edit, applied to a list, gives a list.
LEMMA AppliedIsList ==
    ASSUME NEW list, IsList(list), NEW n \in Nat, NEW mods \in Seq(Modification(n)), NEW edited
    PROVE  IsList(Tool!Applied(list, mods, edited))
<1>. DEFINE where == {m.position : m \in Tool!ToSet(mods)}
            r == Tool!Applied(list, mods, edited)
            kept == Tool!Ascending(Tool!Positions(list) \ where)
            removed == [i \in DOMAIN kept |-> list[kept[i] + 1]]
            updated == [i \in DOMAIN list |-> IF i - 1 \in where THEN edited[i - 1] ELSE list[i]]
            added == Tool!Inserted(list, where, edited)
<1>1. r \in {list, removed, updated, added}
  BY DEF Tool!Applied
<1>. HIDE DEF r, removed, updated, added
<1>2. IsList(removed)
  <2>1. Tool!Positions(list) \ where \in SUBSET (0..Len(list)) /\ Len(list) \in Nat
    <3>1. Len(list) \in Nat /\ Tool!Positions(list) = 0..(Len(list) - 1)
      BY ListIs
    <3>2. 0..(Len(list) - 1) \subseteq 0..Len(list)
      BY <3>1
    <3>. HIDE DEF where
    <3>. QED
      BY <3>1, <3>2
  <2>2. kept \in Seq(Tool!Positions(list) \ where)
    BY <2>1, AscendingIs
  <2>. HIDE DEF kept
  <2>3. DOMAIN kept = 1..Len(kept) /\ Len(kept) \in Nat
    BY <2>2
  <2>. DEFINE E == {removed[i] : i \in 1..Len(kept)}
  <2>4. removed \in [1..Len(kept) -> E]
    <3>1. removed = [i \in 1..Len(kept) |-> removed[i]]
      BY <2>3 DEF removed
    <3>. QED
      BY <3>1
  <2>. HIDE DEF E
  <2>5. removed \in Seq(E)
    BY <2>3, <2>4
  <2>. QED
    BY <2>5, SequenceIsList
<1>3. IsList(updated)
  <2>. DEFINE E == {updated[i] : i \in 1..Len(list)}
  <2>1. DOMAIN list = 1..Len(list) /\ Len(list) \in Nat
    BY ListIs
  <2>2. updated \in [1..Len(list) -> E]
    <3>1. updated = [i \in 1..Len(list) |-> updated[i]]
      BY <2>1 DEF updated
    <3>. QED
      BY <3>1
  <2>. HIDE DEF E
  <2>3. updated \in Seq(E)
    BY <2>1, <2>2
  <2>. QED
    BY <2>3, SequenceIsList
<1>4. IsList(added)
  <2>1. where \in SUBSET (0..n)
    <3>1. ASSUME NEW m \in Tool!ToSet(mods)
          PROVE  m.position \in 0..n
      <4>1. m \in Modification(n)
        BY DEF Tool!ToSet
      <4>. QED
        BY <4>1 DEF Modification
    <3>. QED
      BY <3>1
  <2>. HIDE DEF where
  <2>2. IsList(Tool!Inserted(list, where, edited))
    BY <2>1, InsertedIs DEF ListExtended
  <2>. QED
    BY <2>2 DEF added
<1>. QED
  BY <1>1, <1>2, <1>3, <1>4 DEF r

\* What a firewall task or proposal stands for.
Proposable(w) ==
    LET batches == Tool!Batched(Tool!ReverseSorted(w.base, w.edited)).batches
    IN  /\ IsList(w.base) /\ IsList(w.tested) /\ w.edited \in Edits
        /\ batches # <<>> /\ w.mods = Tool!LastBatch(batches)
        /\ w.hash = Tool!Applied(w.tested, w.mods, w.edited)

\* The modifications of a batch are of a known edit.
LEMMA LastBatchIs ==
    ASSUME EditsKnown, NEW base, IsList(base), NEW edited \in Edits,
           Tool!Batched(Tool!ReverseSorted(base, edited)).batches # <<>>
    PROVE  \E n \in Nat :
             Tool!LastBatch(Tool!Batched(Tool!ReverseSorted(base, edited)).batches) \in Seq(Modification(n))
<1>. DEFINE mods == Tool!ReverseSorted(base, edited)
            batches == Tool!Batched(mods).batches
<1>. PICK n \in Nat : Tool!Modified(base, edited) \in SUBSET (0..n)
  BY ModifiedIs
<1>1. mods \in Seq(Modification(n))
  BY ReverseSortedIs
<1>. HIDE DEF mods
<1>2. batches \in Seq(Seq(Modification(n)))
  BY <1>1, BatchedIs
<1>3. batches # <<>>
  BY DEF mods
<1>. HIDE DEF batches
<1>4. Tool!LastBatch(batches) = batches[Len(batches)]
  BY DEF Tool!LastBatch, Tool!Last
<1>5. Len(batches) \in 1..Len(batches)
  BY <1>2, <1>3
<1>6. Tool!LastBatch(batches) \in Seq(Modification(n))
  BY <1>2, <1>4, <1>5
<1>. QED
  BY <1>6 DEF batches, mods

\* An edit of one kind leads to the edited list.
OneKind(w) ==
    LET order == Tool!Ascending(DOMAIN w.edited)
        kinds == {Tool!ChangeOf(w.base, w.edited, q) : q \in Tool!Modified(w.base, w.edited)}
        Following == \E last \in DOMAIN w.edited : DOMAIN w.edited = 0..last
    IN  Cardinality(kinds) = 1 /\ ("add" \in kinds => Following) =>
          w.hash = [i \in DOMAIN order |-> w.edited[order[i]]]

LEMMA OneKindLeads ==
    ASSUME EditsKnown, NEW w, Proposable(w), w.base = w.tested
    PROVE  OneKind(w)
<1>. DEFINE list == w.base
            edited == w.edited
            L == Len(list)
            S == Tool!Modified(list, edited)
            order == Tool!Ascending(DOMAIN edited)
            kinds == {Tool!ChangeOf(list, edited, q) : q \in S}
            Following == \E last \in DOMAIN edited : DOMAIN edited = 0..last
            mods == Tool!ReverseSorted(list, edited)
            where == {m.position : m \in Tool!ToSet(mods)}
<1>. SUFFICES ASSUME Cardinality(kinds) = 1, "add" \in kinds => Following
              PROVE  w.hash = [i \in DOMAIN order |-> edited[order[i]]]
  BY DEF OneKind
<1>1. /\ IsList(list) /\ edited \in Edits
      /\ L \in Nat /\ DOMAIN list = 1..L /\ Tool!Positions(list) = 0..(L - 1)
      /\ list = [i \in 1..L |-> list[i]]
  BY ListIs DEF Proposable
<1>. PICK n \in Nat : S \in SUBSET (0..n) /\ DOMAIN edited \in SUBSET (0..n)
  BY <1>1, ModifiedIs
<1>2. /\ mods \in Seq(Modification(n)) /\ where = S /\ \A i \in 1..Len(mods) : mods[i].change \in kinds
  BY ReverseSortedIs
<1>3. PICK kind : kinds = {kind}
  <2>1. IsFiniteSet(kinds)
    <3>1. kinds \in SUBSET {"add", "remove", "update"}
      BY DEF Tool!ChangeOf
    <3>2. IsFiniteSet({"add", "remove", "update"})
      <4>1. IsFiniteSet({"add"})
        BY FS_Singleton
      <4>2. IsFiniteSet({"add"} \cup {"remove"})
        BY <4>1, FS_AddElement
      <4>3. IsFiniteSet(({"add"} \cup {"remove"}) \cup {"update"})
        BY <4>2, FS_AddElement
      <4>4. ({"add"} \cup {"remove"}) \cup {"update"} = {"add", "remove", "update"}
        OBVIOUS
      <4>. QED
        BY <4>3, <4>4
    <3>. HIDE DEF kinds
    <3>. QED
      BY <3>1, <3>2, FS_Subset
  <2>. HIDE DEF kinds
  <2>. QED
    BY <2>1, FS_Singleton
<1>4. S # {} /\ \A q \in S : Tool!ChangeOf(list, edited, q) = kind
  BY <1>3
<1>5. mods # <<>>
  <2>1. where # {}
    BY <1>2, <1>4
  <2>2. mods = <<>> => where = {}
    BY DEF Tool!ToSet
  <2>. QED
    BY <2>1, <2>2
<1>6. w.mods = mods /\ Head(mods).change = kind
  <2>1. \A i \in 1..Len(mods) : mods[i].change = kind
    BY <1>2, <1>3
  <2>. HIDE DEF mods
  <2>2. Tool!Batched(mods).batches = <<mods>>
    BY <1>2, <1>5, <2>1, BatchedIs
  <2>3. w.mods = Tool!LastBatch(Tool!Batched(mods).batches)
    BY DEF Proposable, mods
  <2>4. w.mods = mods
    BY <2>2, <2>3 DEF Tool!LastBatch, Tool!Last
  <2>5. 1 \in 1..Len(mods) /\ Head(mods) = mods[1]
    BY <1>2, <1>5
  <2>. QED
    BY <2>1, <2>4, <2>5
<1>7. w.hash = Tool!Applied(list, mods, edited)
  BY <1>6 DEF Proposable
<1>8. S = {p \in Tool!Positions(list) \cup DOMAIN edited :
             p \in Tool!Positions(list) \cap DOMAIN edited => edited[p] # list[p + 1]}
  BY DEF Tool!Modified
<1>9. \A p \in S : kind = IF p \notin Tool!Positions(list) THEN "add"
                          ELSE IF p \notin DOMAIN edited THEN "remove" ELSE "update"
  BY <1>4 DEF Tool!ChangeOf
<1>. HIDE DEF kinds, mods, S, where, order
<1>10. CASE kind = "remove"
  <2>1. DOMAIN edited \subseteq Tool!Positions(list) /\ Tool!Positions(list) \ S = DOMAIN edited
    BY <1>8, <1>9, <1>10
  <2>2. \A p \in DOMAIN edited : edited[p] = list[p + 1]
    BY <1>8, <1>9, <1>10, <2>1
  <2>3. Tool!Applied(list, mods, edited)
          = LET kept == Tool!Ascending(Tool!Positions(list) \ where)
            IN  [i \in DOMAIN kept |-> list[kept[i] + 1]]
    BY <1>5, <1>6, <1>10 DEF Tool!Applied, where
  <2>4. Tool!Applied(list, mods, edited) = [i \in DOMAIN order |-> list[order[i] + 1]]
    BY <1>2, <2>1, <2>3 DEF order
  <2>5. \A i \in DOMAIN order : order[i] \in DOMAIN edited
    <3>1. order \in Seq(DOMAIN edited)
      BY AscendingIs DEF order
    <3>. QED
      BY <3>1
  <2>6. [i \in DOMAIN order |-> list[order[i] + 1]] = [i \in DOMAIN order |-> edited[order[i]]]
    BY <2>2, <2>5
  <2>. QED
    BY <1>7, <2>4, <2>6
<1>11. CASE kind = "update"
  <2>1. DOMAIN edited = 0..(L - 1)
    BY <1>1, <1>8, <1>9, <1>11
  <2>2. DOMAIN order = 1..L /\ \A i \in 1..L : order[i] = i - 1
    <3>1. 0 \in Nat /\ L - 1 \in Int /\ 0 <= L - 1 + 1 /\ L - 1 - 0 + 1 = L /\ \A i \in 1..L : 0 + i - 1 = i - 1
      BY <1>1
    <3>2. /\ DOMAIN Tool!Ascending(0..(L - 1)) = 1..(L - 1 - 0 + 1)
          /\ \A i \in 1..(L - 1 - 0 + 1) : Tool!Ascending(0..(L - 1))[i] = 0 + i - 1
      BY <3>1, AscendingOfInterval
    <3>. QED
      BY <2>1, <3>1, <3>2 DEF order
  <2>3. Tool!Applied(list, mods, edited)
          = [i \in DOMAIN list |-> IF i - 1 \in where THEN edited[i - 1] ELSE list[i]]
    BY <1>5, <1>6, <1>11 DEF Tool!Applied, where
  <2>4. ASSUME NEW i \in 1..L
        PROVE  (IF i - 1 \in where THEN edited[i - 1] ELSE list[i]) = edited[order[i]]
    <3>1. i - 1 \in 0..(L - 1) /\ i - 1 + 1 = i
      BY <1>1
    <3>2. CASE i - 1 \in S
      BY <1>2, <2>2, <3>2
    <3>3. CASE i - 1 \notin S
      <4>1. edited[i - 1] = list[i]
        BY <1>1, <1>8, <2>1, <3>1, <3>3
      <4>. QED
        BY <1>2, <2>2, <3>3, <4>1
    <3>. QED
      BY <3>2, <3>3
  <2>5. [i \in DOMAIN list |-> IF i - 1 \in where THEN edited[i - 1] ELSE list[i]]
          = [i \in DOMAIN order |-> edited[order[i]]]
    BY <1>1, <2>2, <2>4
  <2>. QED
    BY <1>7, <2>3, <2>5
<1>12. CASE kind = "add"
  <2>1. PICK last \in DOMAIN edited : DOMAIN edited = 0..last
    BY <1>3, <1>12
  <2>2. last \in Nat
    <3>1. last \in 0..n
      OBVIOUS
    <3>. QED
      BY <3>1
  <2>3. Tool!Positions(list) \subseteq DOMAIN edited /\ S \cap Tool!Positions(list) = {}
    BY <1>8, <1>9, <1>12
  <2>4. \A p \in Tool!Positions(list) : edited[p] = list[p + 1]
    BY <1>8, <2>3
  <2>5. S = L..last /\ L <= last
    <3>1. S = DOMAIN edited \ Tool!Positions(list)
      BY <1>8, <2>3
    <3>2. S = {p \in 0..last : p \notin 0..(L - 1)}
      BY <1>1, <2>1, <3>1
    <3>3. S = L..last
      BY <1>1, <2>2, <3>2
    <3>. QED
      BY <1>1, <1>4, <2>2, <3>3
  <2>6. Tool!Applied(list, mods, edited) = Tool!Inserted(list, where, edited)
    BY <1>5, <1>6, <1>12 DEF Tool!Applied, where
  <2>. DEFINE r == Tool!Inserted(list, where, edited)
  <2>7. /\ IsList(r) /\ DOMAIN r = 1..(last + 1)
        /\ \A i \in 1..(last + 1) : r[i] = IF i <= L THEN list[i] ELSE edited[i - 1]
    <3>1. where \in SUBSET (0..n) /\ where = Len(list)..last /\ Len(list) <= last
      BY <1>2, <2>5
    <3>2. IsList(list)
      BY <1>1
    <3>3. ListExtended(list, where, edited, r)
      <4>1. n \in Nat /\ where \in SUBSET (0..n) /\ IsList(list)
        BY <3>1, <3>2
      <4>. HIDE DEF list, edited
      <4>. QED
        BY <4>1, InsertedIs, Zenon
    <3>. HIDE DEF r
    <3>. QED
      BY <2>2, <3>1, <3>3 DEF ListExtended
  <2>8. DOMAIN order = 1..(last + 1) /\ \A i \in 1..(last + 1) : order[i] = i - 1
    <3>1. 0 \in Nat /\ last \in Int /\ 0 <= last + 1 /\ last - 0 + 1 = last + 1
          /\ \A i \in 1..(last + 1) : 0 + i - 1 = i - 1
      BY <2>2
    <3>2. /\ DOMAIN Tool!Ascending(0..last) = 1..(last - 0 + 1)
          /\ \A i \in 1..(last - 0 + 1) : Tool!Ascending(0..last)[i] = 0 + i - 1
      BY <3>1, AscendingOfInterval
    <3>. QED
      BY <2>1, <3>1, <3>2 DEF order
  <2>9. ASSUME NEW i \in 1..(last + 1)
        PROVE  r[i] = edited[order[i]]
    <3>1. CASE i <= L
      <4>1. i - 1 \in 0..(L - 1) /\ i - 1 + 1 = i
        BY <1>1, <2>2, <3>1
      <4>2. edited[i - 1] = list[i]
        BY <1>1, <2>4, <4>1
      <4>. QED
        BY <2>7, <2>8, <3>1, <4>2
    <3>2. CASE ~(i <= L)
      BY <2>7, <2>8, <3>2
    <3>. QED
      BY <3>1, <3>2
  <2>10. r = [i \in DOMAIN order |-> edited[order[i]]]
    <3>. HIDE DEF r
    <3>1. r = [i \in 1..(last + 1) |-> r[i]]
      BY <2>7, ListIs
    <3>. QED
      BY <2>8, <2>9, <3>1
  <2>. QED
    BY <1>7, <2>6, <2>10 DEF r
<1>13. kind \in {"add", "remove", "update"}
  BY <1>4, <1>9
<1>. QED
  BY <1>10, <1>11, <1>12, <1>13

\* A firewall edit between the editor and the test: the last batch of it.
Edited(t) == LET batches == Tool!Batched(Tool!ReverseSorted(t.base, t.what.edited)).batches
             IN  /\ IsList(t.base) /\ t.what.edited \in Edits
                 /\ batches # <<>> /\ t.what.mods = Tool!LastBatch(batches)

RuleTask(t) == /\ {"kind", "what", "pc"} \subseteq DOMAIN t
               /\ t.pc = "test" => t.kind = "firewall" /\ Edited(t)
               /\ t.pc # "test" /\ t.kind = "firewall" => Proposable(t.what)

FirewallInv == /\ tasks = [o \in Operator |-> tasks[o]]
               /\ IsList(rules)
               /\ \A o \in Operator : \A t \in tasks[o] : RuleTask(t)
               /\ \A p \in submitted : p.kind = "firewall" => Proposable(p.what)

LEMMA RuleTaskReplaced ==
    ASSUME FirewallInv, UNCHANGED rules, NEW o \in Operator, NEW t \in tasks[o], NEW new, Tool!Put(o, t, new),
           \A u \in new : RuleTask(u),
           \/ UNCHANGED submitted
           \/ /\ submitted' = submitted \cup {[kind |-> t.kind, what |-> t.what, by |-> o]}
              /\ t.pc = "confirm"
    PROVE  FirewallInv'
<1>1. /\ tasks' = [tasks EXCEPT ![o] = (tasks[o] \ {t}) \cup new]
      /\ tasks = [q \in Operator |-> tasks[q]]
  BY DEF Tool!Put, FirewallInv
<1>2. /\ tasks' = [q \in Operator |-> tasks'[q]]
      /\ tasks'[o] = (tasks[o] \ {t}) \cup new
      /\ \A q \in Operator \ {o} : tasks'[q] = tasks[q]
  BY <1>1
<1>3. ASSUME NEW q \in Operator, NEW u \in tasks'[q]
      PROVE  RuleTask(u)
  BY <1>2 DEF FirewallInv
<1>4. ASSUME NEW p \in submitted', p.kind = "firewall"
      PROVE  Proposable(p.what)
  <2>1. CASE p \in submitted
    BY <1>4, <2>1 DEF FirewallInv
  <2>2. CASE p \notin submitted
    <3>1. p.kind = t.kind /\ p.what = t.what /\ t.pc = "confirm"
      BY <2>2
    <3>2. RuleTask(t)
      BY DEF FirewallInv
    <3>. QED
      BY <1>4, <3>1, <3>2 DEF RuleTask
  <2>. QED
    BY <2>1, <2>2
<1>5. IsList(rules)'
  BY DEF FirewallInv, IsList
<1>. QED
  BY <1>2, <1>3, <1>4, <1>5 DEF FirewallInv

LEMMA WorkKeepsRules ==
    ASSUME FirewallInv, NEW o \in Operator, NEW t \in tasks[o], Tool!Work(o, t)
    PROVE  FirewallInv'
<1>0. RuleTask(t) /\ {"kind", "what", "pc"} \subseteq DOMAIN t
  BY DEF FirewallInv, RuleTask
<1>1. ASSUME Tool!Put(o, t, {}), UNCHANGED rules, UNCHANGED submitted
      PROVE  FirewallInv'
  BY <1>1, RuleTaskReplaced
<1>2. ASSUME NEW u, RuleTask(u), Tool!Put(o, t, {u}), UNCHANGED rules, UNCHANGED submitted
      PROVE  FirewallInv'
  BY <1>2, RuleTaskReplaced
<1>3. ASSUME NEW pc, pc # "test", t.pc # "test", Tool!Goto(o, t, pc), UNCHANGED rules, UNCHANGED submitted
      PROVE  FirewallInv'
  <2>. DEFINE u == [t EXCEPT !.pc = pc]
  <2>1. Tool!Put(o, t, {u})
    BY <1>3 DEF Tool!Goto
  <2>2. {"kind", "what", "pc"} \subseteq DOMAIN u /\ u.kind = t.kind /\ u.what = t.what /\ u.pc = pc
    BY <1>0, Moved1
  <2>. HIDE DEF u
  <2>3. RuleTask(u)
    BY <1>0, <1>3, <2>2 DEF RuleTask
  <2>. QED
    BY <1>2, <1>3, <2>1, <2>3
<1>4. CASE Tool!Check(o, t) \/ Tool!Simulate(o, t)
  <2>1. UNCHANGED rules /\ UNCHANGED submitted
    BY <1>4 DEF Tool!Check, Tool!Simulate, Tool!registry
  <2>. QED
    BY <1>1, <1>3, <1>4, <2>1 DEF Tool!Check, Tool!Simulate
<1>5. CASE Tool!Submit(o, t)
  BY <1>5, RuleTaskReplaced DEF Tool!Submit, Tool!registry
<1>6. CASE Tool!GiveUp(o, t)
  BY <1>1, <1>6 DEF Tool!GiveUp, Tool!registry
<1>7. CASE Tool!Validate(o, t)
  <2>1. UNCHANGED rules /\ UNCHANGED submitted
    BY <1>7 DEF Tool!Validate, Tool!registry
  <2>2. ASSUME NEW what
        PROVE  RuleTask(Tool!Task("elect", what))
    <3>1. /\ DOMAIN Tool!Task("elect", what) = {"kind", "what", "pc"} /\ Tool!Task("elect", what).pc = "simulate"
          /\ Tool!Task("elect", what).kind = "elect"
      BY DEF Tool!Task
    <3>. QED
      BY <3>1 DEF RuleTask
  <2>. DEFINE w == [version |-> t.what.version, force |-> t.what.force, urls |-> {f.cdn : f \in t.found},
                    hash |-> (CHOOSE f \in t.found : f.hash \in Tool!Hashes(t.found)).hash]
  <2>3. Tool!Put(o, t, {}) \/ Tool!Put(o, t, {Tool!Task("elect", w)})
    BY <1>7 DEF Tool!Validate
  <2>. HIDE DEF w
  <2>. QED
    BY <1>1, <1>2, <2>1, <2>2, <2>3
<1>8. CASE Tool!Test(o, t)
  <2>. DEFINE what == [mods |-> t.what.mods, edited |-> t.what.edited, base |-> t.base, tested |-> rules,
                       hash |-> Tool!Applied(rules, t.what.mods, t.what.edited)]
  <2>1. Tool!Put(o, t, {Tool!Task("firewall", what)}) /\ UNCHANGED rules /\ UNCHANGED submitted /\ t.pc = "test"
    BY <1>8 DEF Tool!Test, Tool!registry
  <2>2. /\ what.mods = t.what.mods /\ what.edited = t.what.edited /\ what.base = t.base /\ what.tested = rules
        /\ what.hash = Tool!Applied(rules, t.what.mods, t.what.edited)
    OBVIOUS
  <2>. HIDE DEF what
  <2>3. Proposable(what)
    BY <1>0, <2>1, <2>2 DEF RuleTask, Edited, Proposable, FirewallInv
  <2>4. /\ DOMAIN Tool!Task("firewall", what) = {"kind", "what", "pc"}
        /\ Tool!Task("firewall", what).what = what /\ Tool!Task("firewall", what).pc = "simulate"
    BY DEF Tool!Task
  <2>5. RuleTask(Tool!Task("firewall", what))
    BY <2>3, <2>4 DEF RuleTask
  <2>. QED
    BY <1>2, <2>1, <2>5
<1>9. ASSUME NEW cdn \in Cdn, Tool!Fetch(o, t, cdn)
      PROVE  FirewallInv'
  <2>. DEFINE image == images[t.what.version][cdn]
              u == [t EXCEPT !.left = @ \ {cdn},
                             !.found = @ \cup IF image = Missing THEN {} ELSE {[cdn |-> cdn, hash |-> image]}]
  <2>1. DOMAIN u = DOMAIN t /\ u.kind = t.kind /\ u.what = t.what /\ u.pc = t.pc
    BY <1>0
  <2>2. UNCHANGED rules /\ UNCHANGED submitted /\ Tool!Put(o, t, {u}) /\ t.pc = "download"
    BY <1>9 DEF Tool!Fetch, Tool!registry
  <2>. HIDE DEF u
  <2>3. RuleTask(u)
    BY <1>0, <2>1, <2>2 DEF RuleTask
  <2>. QED
    BY <1>2, <2>2, <2>3
<1>. QED
  BY <1>4, <1>5, <1>6, <1>7, <1>8, <1>9 DEF Tool!Work

LEMMA CommandKeepsRules ==
    ASSUME FirewallInv, NEW o \in Operator, Tool!Command(o)
    PROVE  FirewallInv'
<1>1. ASSUME NEW new, Tool!Begin(o, new), \A t \in new : RuleTask(t)
      PROVE  FirewallInv'
  <2>1. /\ tasks' = [tasks EXCEPT ![o] = new] /\ UNCHANGED submitted /\ UNCHANGED rules
        /\ tasks = [q \in Operator |-> tasks[q]]
    BY <1>1 DEF Tool!Begin, Tool!registry, FirewallInv
  <2>2. /\ tasks' = [q \in Operator |-> tasks'[q]] /\ tasks'[o] = new
        /\ \A q \in Operator \ {o} : tasks'[q] = tasks[q]
    BY <2>1
  <2>3. ASSUME NEW q \in Operator, NEW t \in tasks'[q]
        PROVE  RuleTask(t)
    BY <1>1, <2>2 DEF FirewallInv
  <2>. QED
    BY <2>1, <2>2, <2>3 DEF FirewallInv, IsList
<1>2. ASSUME NEW kind, NEW what, kind # "firewall"
      PROVE  RuleTask(Tool!Task(kind, what))
  <2>1. /\ DOMAIN Tool!Task(kind, what) = {"kind", "what", "pc"} /\ Tool!Task(kind, what).kind = kind
        /\ Tool!Task(kind, what).pc # "test"
    BY DEF Tool!Task
  <2>. QED
    BY <1>2, <2>1 DEF RuleTask
<1>3. Tool!Begin(o, {}) => FirewallInv'
  BY <1>1
<1>4. ASSUME NEW subnets \in SUBSET ToolSubnet, Tool!Begin(o, {Tool!Change(s) : s \in subnets})
      PROVE  FirewallInv'
  <2>1. \A s \in subnets : RuleTask(Tool!Change(s))
    BY <1>2 DEF Tool!Change
  <2>. QED
    BY <1>1, <1>4, <2>1
<1>5. ASSUME NEW s \in ToolSubnet, Tool!ChangeMembership(o, s)
      PROVE  FirewallInv'
  <2>1. RuleTask(Tool!Change(s))
    BY <1>2 DEF Tool!Change
  <2>. QED
    BY <1>1, <1>3, <1>5, <2>1 DEF Tool!ChangeMembership
<1>6. ASSUME Tool!ProposePlain(o) \/ Tool!CreateSubnet(o)
      PROVE  FirewallInv'
  <2>1. PICK what : Tool!Begin(o, {Tool!Task("plain", what)})
    BY <1>6 DEF Tool!ProposePlain, Tool!CreateSubnet
  <2>2. RuleTask(Tool!Task("plain", what))
    BY <1>2
  <2>. QED
    BY <1>1, <2>1, <2>2
<1>7. ASSUME Tool!UpdateUnassigned(o)
      PROVE  FirewallInv'
  <2>. DEFINE t == Tool!Task("unassigned", [version |-> nnsVersion])
  <2>1. Tool!Begin(o, {}) \/ Tool!Begin(o, {t})
    BY <1>7 DEF Tool!UpdateUnassigned
  <2>2. RuleTask(t)
    BY <1>2
  <2>. HIDE DEF t
  <2>. QED
    BY <1>1, <1>3, <2>1, <2>2
<1>8. ASSUME NEW v \in Candidate, NEW force \in BOOLEAN, Tool!Elect(o, v, force)
      PROVE  FirewallInv'
  <2>. DEFINE t == [kind |-> "elect", what |-> [version |-> v, force |-> force],
                    pc |-> "download", left |-> Cdn, found |-> {}]
  <2>1. Tool!Begin(o, {t}) /\ {"kind", "what", "pc"} \subseteq DOMAIN t /\ t.kind = "elect" /\ t.pc = "download"
    BY <1>8 DEF Tool!Elect
  <2>. HIDE DEF t
  <2>2. RuleTask(t)
    BY <2>1 DEF RuleTask
  <2>. QED
    BY <1>1, <2>1, <2>2
<1>9. ASSUME NEW edited \in Edits, Tool!EditFirewall(o, edited)
      PROVE  FirewallInv'
  <2>. DEFINE batched == Tool!Batched(Tool!ReverseSorted(rules, edited))
              what == [mods |-> Tool!LastBatch(batched.batches), edited |-> edited]
              t == [kind |-> "firewall", pc |-> "test", base |-> rules, what |-> what]
  <2>1. \/ Tool!Begin(o, {})
        \/ Tool!Begin(o, {t}) /\ batched.batches # <<>>
    BY <1>9 DEF Tool!EditFirewall
  <2>2. what.mods = Tool!LastBatch(batched.batches) /\ what.edited = edited
    OBVIOUS
  <2>3. IsList(rules)
    BY DEF FirewallInv
  <2>4. ASSUME batched.batches # <<>>
        PROVE  RuleTask(t)
    <3>. HIDE DEF what
    <3>1. /\ {"kind", "what", "pc"} \subseteq DOMAIN t /\ t.kind = "firewall" /\ t.pc = "test"
          /\ t.base = rules /\ t.what = what
      OBVIOUS
    <3>. HIDE DEF t
    <3>2. Edited(t)
      BY <2>2, <2>3, <2>4, <3>1 DEF Edited
    <3>. QED
      BY <3>1, <3>2 DEF RuleTask
  <2>. HIDE DEF batched, what, t
  <2>. QED
    BY <1>1, <1>3, <2>1, <2>4
<1>10. CASE Tool!Heal(o)
  BY <1>4, <1>10 DEF Tool!Heal
<1>. QED
  BY <1>5, <1>6, <1>7, <1>8, <1>9, <1>10 DEF Tool!Command

\* A proposal that is executed replaces the rules by a list, if it replaces them.
LEMMA ExecuteKeepsRules ==
    ASSUME EditsKnown, FirewallInv, NEW p \in submitted, Tool!Execute(p)
    PROVE  FirewallInv'
<1>1. UNCHANGED tasks /\ submitted' \subseteq submitted
  BY DEF Tool!Execute
<1>2. rules' = rules \/ (p.kind = "firewall" /\ rules' = p.what.hash)
  BY DEF Tool!Execute
<1>3. ASSUME p.kind = "firewall"
      PROVE  IsList(p.what.hash)
  <2>. DEFINE w == p.what
              batches == Tool!Batched(Tool!ReverseSorted(w.base, w.edited)).batches
  <2>1. /\ IsList(w.base) /\ IsList(w.tested) /\ w.edited \in Edits
        /\ batches # <<>> /\ w.mods = Tool!LastBatch(batches)
        /\ w.hash = Tool!Applied(w.tested, w.mods, w.edited)
    BY <1>3 DEF FirewallInv, Proposable
  <2>2. PICK n \in Nat : w.mods \in Seq(Modification(n))
    BY <2>1, LastBatchIs
  <2>. HIDE DEF w
  <2>3. IsList(Tool!Applied(w.tested, w.mods, w.edited))
    BY <2>1, <2>2, AppliedIsList
  <2>. QED
    BY <2>1, <2>3 DEF w
<1>4. IsList(rules')
  BY <1>2, <1>3 DEF FirewallInv
<1>. QED
  BY <1>1, <1>4 DEF FirewallInv, IsList

\* An edit of the firewall rules that changes them in one way only is proposed as a
\* whole: whatever edits, commands and executions came before, a proposal that was
\* tested on the rules that were edited leads to the edited list
\* (ic_admin.rs:110-137, 747-882).
THEOREM EditsAreProposed ==
    ASSUME EditsKnown
    PROVE  Tool!Spec => []Tool!FirewallEditIsProposed
<1>1. Tool!Init => FirewallInv
  <2>. SUFFICES ASSUME Tool!Init
                PROVE  FirewallInv
    OBVIOUS
  <2>1. tasks = [o \in Operator |-> {}] /\ submitted = {} /\ rules = Rules
    BY DEF Tool!Init
  <2>. QED
    BY <2>1 DEF FirewallInv, EditsKnown
<1>2. FirewallInv /\ [Tool!Next]_Tool!vars => FirewallInv'
  <2>. SUFFICES ASSUME FirewallInv, [Tool!Next]_Tool!vars
                PROVE  FirewallInv'
    OBVIOUS
  <2>1. ASSUME NEW o \in Operator, Tool!Command(o) \/ \E t \in tasks[o] : Tool!Work(o, t)
        PROVE  FirewallInv'
    BY <2>1, CommandKeepsRules, WorkKeepsRules
  <2>2. ASSUME \/ Tool!Download
               \/ \E v \in Version : Tool!UpgradeNns(v)
               \/ \E v \in Candidate, c \in Cdn, i \in Image : Tool!Upload(v, c, i)
               \/ UNCHANGED Tool!vars
        PROVE  FirewallInv'
    <3>1. UNCHANGED tasks /\ UNCHANGED submitted /\ UNCHANGED rules
      BY <2>2 DEF Tool!Download, Tool!Upload, Tool!UpgradeNns, Tool!vars, Tool!registry
    <3>. QED
      BY <3>1 DEF FirewallInv, IsList
  <2>3. ASSUME NEW p \in submitted, Tool!Execute(p)
        PROVE  FirewallInv'
    BY <2>3, ExecuteKeepsRules
  <2>. QED
    BY <2>1, <2>2, <2>3 DEF Tool!Next
<1>3. FirewallInv => Tool!FirewallEditIsProposed
  <2>. SUFFICES ASSUME FirewallInv, NEW p \in submitted, p.kind = "firewall", p.what.base = p.what.tested
                PROVE  LET w == p.what
                           order == Tool!Ascending(DOMAIN w.edited)
                           kinds == {Tool!ChangeOf(w.base, w.edited, q) : q \in Tool!Modified(w.base, w.edited)}
                           Following == \E last \in DOMAIN w.edited : DOMAIN w.edited = 0..last
                       IN  Tool!Cardinality(kinds) = 1 /\ ("add" \in kinds => Following) =>
                             w.hash = [i \in DOMAIN order |-> w.edited[order[i]]]
    BY DEF Tool!FirewallEditIsProposed
  <2>1. Proposable(p.what)
    BY DEF FirewallInv
  <2>2. PICK w : w = p.what
    OBVIOUS
  <2>3. OneKind(w)
    BY <2>1, <2>2, OneKindLeads
  <2>. DEFINE kinds == {Tool!ChangeOf(w.base, w.edited, q) : q \in Tool!Modified(w.base, w.edited)}
  <2>4. Tool!Cardinality(kinds) = Cardinality(kinds)
    BY SameCardinality
  <2>. QED
    BY <2>2, <2>3, <2>4 DEF OneKind
<1>. QED
  BY <1>1, <1>2, <1>3, PTL DEF Tool!Spec

\* The three together: what the tool proposes is sound (runner.rs:253-276,
\* ic_admin.rs:110-137, 516-579, 747-882).
THEOREM ProposalsStaySound ==
    ASSUME TwoServers, EditsKnown
    PROVE  Tool!Spec => []Tool!ProposalsAreSound
<1>1. Tool!Spec => []Tool!OwnChangesDontPile
  BY ChangesDontPile
<1>2. Tool!Spec => []Tool!ElectedImagesAgree
  BY ElectedAgree
<1>3. Tool!Spec => []Tool!FirewallEditIsProposed
  BY EditsAreProposed
<1>4. Tool!OwnChangesDontPile /\ Tool!ElectedImagesAgree /\ Tool!FirewallEditIsProposed
        => Tool!ProposalsAreSound
  BY DEF Tool!ProposalsAreSound
<1>. QED
  BY <1>1, <1>2, <1>3, <1>4, PTL

-----------------------------------------------------------------------------
(* The types of the parts.                                                   *)

HostosTyped ==
    /\ version \in [Hostos!EveryNode -> {"old", "new"}]
    /\ status \in [Hostos!EveryNode -> {"Healthy", "Degraded", "Dead"}]
    /\ \A p \in inVote : p.kind \in {"hostos", "remove", "add"}
    /\ run.pc \in {"idle", "query", "propose"}
    /\ failures \in 0..MaxFailures

LEMMA HostosKeepsTypes ==
    ASSUME RequestsKnown, BoundsKnown, GroupsInv, HostosTyped, [Hostos!Next]_Hostos!vars
    PROVE  HostosTyped'
<1>1. CASE \E wanted \in Requests : Hostos!Start(wanted)
  <2>1. run'.pc = "query" /\ UNCHANGED <<version, status, inVote, failures>>
    BY <1>1 DEF Hostos!Start
  <2>. QED
    BY <2>1 DEF HostosTyped
<1>2. CASE Hostos!ReadHealth \/ Hostos!ReadProposals
  <2>1. run'.pc = "query" /\ UNCHANGED <<version, status, inVote, failures>>
    BY <1>2 DEF Hostos!ReadHealth, Hostos!ReadProposals, GroupsInv, QueryInv
  <2>. QED
    BY <2>1 DEF HostosTyped
<1>3. CASE Hostos!Select
  <2>1. run'.pc \in {"idle", "propose"} /\ UNCHANGED <<version, status, inVote, failures>>
    BY <1>3 DEF Hostos!Select, Hostos!Idle
  <2>. QED
    BY <2>1 DEF HostosTyped
<1>4. CASE Hostos!Propose
  <2>1. run'.pc = "idle" /\ UNCHANGED <<version, status, failures>>
    BY <1>4 DEF Hostos!Propose, Hostos!Idle
  <2>2. run.request.kind \in {"hostos", "remove"}
    BY <1>4 DEF Hostos!Propose, GroupsInv, ProposeInv, RequestsKnown
  <2>3. inVote' = inVote \cup {[kind |-> run.request.kind, nodes |-> run.nodes]}
    BY <1>4 DEF Hostos!Propose
  <2>4. \A p \in inVote' : p.kind \in {"hostos", "remove", "add"}
    BY <2>2, <2>3 DEF HostosTyped
  <2>. QED
    BY <2>1, <2>4 DEF HostosTyped
<1>5. ASSUME NEW p \in inVote, Hostos!Execute(p)
      PROVE  HostosTyped'
  <2>1. inVote' \subseteq inVote /\ UNCHANGED <<run, failures>>
    BY <1>5 DEF Hostos!Execute
  <2>2. PICK upgraded :
          /\ version' = [n \in Hostos!EveryNode |-> IF n \in upgraded THEN "new" ELSE version[n]]
          /\ status' = [n \in Hostos!EveryNode |-> IF n \in upgraded THEN "Degraded" ELSE status[n]]
    BY <1>5 DEF Hostos!Execute
  <2>3. version' \in [Hostos!EveryNode -> {"old", "new"}]
    BY <2>2 DEF HostosTyped
  <2>4. status' \in [Hostos!EveryNode -> {"Healthy", "Degraded", "Dead"}]
    BY <2>2 DEF HostosTyped
  <2>. QED
    BY <2>1, <2>3, <2>4 DEF HostosTyped
<1>6. ASSUME failures < MaxFailures, failures' = failures + 1
      PROVE  failures' \in 0..MaxFailures
  BY <1>6 DEF HostosTyped, BoundsKnown
<1>7. ASSUME NEW p \in inVote, Hostos!Reject(p)
      PROVE  HostosTyped'
  <2>1. inVote' \subseteq inVote /\ UNCHANGED <<version, status, run>>
    BY <1>7 DEF Hostos!Reject
  <2>. QED
    BY <1>6, <1>7, <2>1 DEF Hostos!Reject, HostosTyped
<1>8. ASSUME NEW n \in Hostos!EveryNode, NEW s \in RolloutSubnet, Hostos!AddToSubnet(n, s)
      PROVE  HostosTyped'
  <2>1. \A p \in inVote' : p \in inVote \/ p.kind = "add"
    BY <1>8 DEF Hostos!AddToSubnet
  <2>2. UNCHANGED <<version, status, run>> /\ failures' \in 0..MaxFailures
    BY <1>6, <1>8 DEF Hostos!AddToSubnet
  <2>. QED
    BY <2>1, <2>2 DEF HostosTyped
<1>9. ASSUME NEW n \in Hostos!EveryNode, Hostos!Break(n) \/ Hostos!Recover(n)
      PROVE  HostosTyped'
  <2>1. status' = [status EXCEPT ![n] = "Dead"] \/ status' = [status EXCEPT ![n] = "Healthy"]
    BY <1>9 DEF Hostos!Break, Hostos!Recover
  <2>2. UNCHANGED <<version, run, inVote>> /\ failures' \in 0..MaxFailures
    BY <1>6, <1>9 DEF Hostos!Break, Hostos!Recover, HostosTyped
  <2>3. status' \in [Hostos!EveryNode -> {"Healthy", "Degraded", "Dead"}]
    BY <2>1 DEF HostosTyped
  <2>. QED
    BY <2>2, <2>3 DEF HostosTyped
<1>10. CASE UNCHANGED Hostos!vars
  BY <1>10 DEF Hostos!vars, HostosTyped
<1>. QED
  BY <1>1, <1>2, <1>3, <1>4, <1>5, <1>7, <1>8, <1>9, <1>10 DEF Hostos!Next, Hostos!Step

LEMMA HostosTypes ==
    ASSUME HomesKnown, RequestsKnown, BoundsKnown
    PROVE  Hostos!Spec => []Hostos!TypeOK
<1>1. Hostos!Spec => []GroupsInv
  BY GroupsHold
<1>2. Hostos!Init => HostosTyped
  BY DEF Hostos!Init, Hostos!Idle, HostosTyped, BoundsKnown
<1>3. GroupsInv /\ HostosTyped /\ [Hostos!Next]_Hostos!vars => HostosTyped'
  BY HostosKeepsTypes
<1>4. GroupsInv /\ HostosTyped => Hostos!TypeOK
  BY DEF GroupsInv, NetworkInv, HostosTyped, Hostos!TypeOK
<1>. QED
  BY <1>1, <1>2, <1>3, <1>4, PTL DEF Hostos!Spec

ChangeTyped ==
    /\ request.kind \in {"none", "replace", "resize", "create", "rescue", "heal"}
    /\ (change.active /\ change.subnet \in Subnet \cup {NewSubnet}) \/ change = Plans!Inactive
    /\ \A c \in changes : c.old \subseteq Node /\ c.new \subseteq Node

LEMMA BegunIsTyped ==
    ASSUME ChangeTyped, NEW asked, NEW c, Plans!Begin(asked, c),
           asked.kind \in {"replace", "resize", "create", "rescue", "heal"},
           (c.active /\ c.subnet \in Subnet \cup {NewSubnet}) \/ c = Plans!Inactive
    PROVE  ChangeTyped'
<1>1. request' = asked /\ change' = c /\ changes' = changes
  BY DEF Plans!Begin
<1>2. Plans!Inactive' = Plans!Inactive
  BY DEF Plans!Inactive
<1>. QED
  BY <1>1, <1>2 DEF ChangeTyped

LEMMA FiltersKeepSubnet ==
    ASSUME NEW s, NEW old, NEW pool, NEW nodes, NEW f, NEW min, NEW add, NEW remove
    PROVE  /\ Plans!Resized(Plans!Filtered(Plans!ChangeRequest(s, old, pool), f), add, remove).active
           /\ Plans!Resized(Plans!Filtered(Plans!ChangeRequest(s, old, pool), f), add, remove).subnet = s
           /\ Plans!Optimized(Plans!WithMin(Plans!Filtered(Plans!ChangeRequest(s, old, pool), f), min), add, nodes).active
           /\ Plans!Optimized(Plans!WithMin(Plans!Filtered(Plans!ChangeRequest(s, old, pool), f), min), add, nodes).subnet = s
           /\ Plans!Optimized(Plans!ChangeRequest(s, old, pool), add, nodes).active
           /\ Plans!Optimized(Plans!ChangeRequest(s, old, pool), add, nodes).subnet = s
           /\ Plans!Resized(Plans!WithoutNodes(Plans!ChangeRequest(s, old, pool), nodes), add, remove).active
           /\ Plans!Resized(Plans!WithoutNodes(Plans!ChangeRequest(s, old, pool), nodes), add, remove).subnet = s
<1>. DEFINE r == Plans!ChangeRequest(s, old, pool)
<1>1. r.subnet = s /\ {"subnet", "old", "nodes", "available", "include", "min"} = DOMAIN r
  BY DEF Plans!ChangeRequest
<1>2. \A q, add1, remove1 : /\ Plans!Resized(q, add1, remove1).active
                            /\ Plans!Resized(q, add1, remove1).subnet = q.subnet
  BY DEF Plans!Resized
<1>3. \A q, set : /\ Plans!WithoutNodes(q, set).subnet = q.subnet
                  /\ Plans!IncludingFromAvailable(q, set).subnet = q.subnet
                  /\ Plans!ExcludingFromAvailable(q, set).subnet = q.subnet
                  /\ Plans!WithMin(q, set).subnet = q.subnet
  BY DEF Plans!WithoutNodes, Plans!IncludingFromAvailable, Plans!ExcludingFromAvailable, Plans!WithMin
<1>. HIDE DEF r
<1>4. Plans!Filtered(r, f).subnet = s
  BY <1>1, <1>3 DEF Plans!Filtered
<1>5. \A q, k, set : Plans!Optimized(q, k, set).active /\ Plans!Optimized(q, k, set).subnet = q.subnet
  BY <1>2, <1>3 DEF Plans!Optimized
<1>. QED
  BY <1>1, <1>2, <1>3, <1>4, <1>5 DEF r

LEMMA AskedIsTyped ==
    ASSUME ChangeTyped, NEW s \in Subnet, Plans!Ask(s)
    PROVE  ChangeTyped'
<1>1. ASSUME NEW nodes, NEW unhealthy, NEW count, NEW min, NEW f, Plans!Replace(s, nodes, unhealthy, count, min, f)
      PROVE  ChangeTyped'
  <2>. DEFINE replaced == nodes \cup (unhealthy \ f.include)
              asked == [kind |-> "replace", filter |-> f, replaced |-> replaced, count |-> count, min |-> min]
              c == Plans!Optimized(Plans!WithMin(Plans!Filtered(Plans!ChangeRequest(s, members[s], available), f), min),
                                   count, replaced)
  <2>1. Plans!Begin(asked, c)
    BY <1>1 DEF Plans!Replace
  <2>2. asked.kind = "replace" /\ c.active /\ c.subnet = s
    BY FiltersKeepSubnet
  <2>. HIDE DEF asked, c
  <2>. QED
    BY <2>1, <2>2, BegunIsTyped
<1>2. ASSUME NEW add, NEW remove, NEW f, Plans!Resize(s, add, remove, f)
      PROVE  ChangeTyped'
  <2>. DEFINE asked == [kind |-> "resize", filter |-> f, add |-> add, remove |-> remove]
              c == Plans!Resized(Plans!Filtered(Plans!ChangeRequest(s, members[s], available), f), add, remove)
  <2>1. Plans!Begin(asked, c)
    BY <1>2 DEF Plans!Resize
  <2>2. asked.kind = "resize" /\ c.active /\ c.subnet = s
    BY FiltersKeepSubnet
  <2>. HIDE DEF asked, c
  <2>. QED
    BY <2>1, <2>2, BegunIsTyped
<1>3. ASSUME NEW keep, Plans!Rescue(s, keep)
      PROVE  ChangeTyped'
  <2>. DEFINE lost == members[s] \ keep
              asked == [kind |-> "rescue", keep |-> keep]
              c == Plans!Resized(Plans!WithoutNodes(Plans!ChangeRequest(s, members[s], available), lost),
                                 Plans!Cardinality(lost), 0)
  <2>1. Plans!Begin(asked, c)
    BY <1>3 DEF Plans!Rescue
  <2>2. asked.kind = "rescue" /\ c.active /\ c.subnet = s
    BY FiltersKeepSubnet
  <2>. HIDE DEF asked, c
  <2>. QED
    BY <2>1, <2>2, BegunIsTyped
<1>. QED
  BY <1>1, <1>2, <1>3 DEF Plans!Ask

LEMMA CreatedIsTyped ==
    ASSUME ChangeTyped, NEW size, NEW min, NEW f, Plans!CreateSubnet(size, min, f)
    PROVE  ChangeTyped'
<1>. DEFINE asked == [kind |-> "create", filter |-> f, size |-> size]
            r == Plans!IncludingFromAvailable(
                   Plans!ExcludingFromAvailable(
                     Plans!IncludingFromAvailable(
                       Plans!WithMin(Plans!ChangeRequest(NewSubnet, {}, available), min), f.include),
                     f.exclude), f.only)
            c == Plans!Resized(r, size, 0)
<1>1. Plans!Begin(asked, c)
  BY DEF Plans!CreateSubnet
<1>2. asked.kind = "create"
  OBVIOUS
<1>3. r.subnet = NewSubnet
  <2>1. \A q, set : /\ Plans!IncludingFromAvailable(q, set).subnet = q.subnet
                    /\ Plans!ExcludingFromAvailable(q, set).subnet = q.subnet
                    /\ Plans!WithMin(q, set).subnet = q.subnet
    BY DEF Plans!IncludingFromAvailable, Plans!ExcludingFromAvailable, Plans!WithMin
  <2>2. Plans!ChangeRequest(NewSubnet, {}, available).subnet = NewSubnet
    BY DEF Plans!ChangeRequest
  <2>. QED
    BY <2>1, <2>2
<1>. HIDE DEF r, asked
<1>4. c.active /\ c.subnet = NewSubnet
  BY <1>3 DEF Plans!Resized
<1>. HIDE DEF c
<1>. QED
  BY <1>1, <1>2, <1>4, BegunIsTyped

LEMMA ChangeStepsAreTyped ==
    ASSUME SizesInv, ChangeTyped, Plans!HealNext \/ Plans!AddNode \/ Plans!RemoveNode
    PROVE  ChangeTyped'
<1>. SUFFICES change'.active /\ change'.subnet \in Subnet \cup {NewSubnet} /\ request' = request /\ changes' = changes
  BY DEF ChangeTyped
<1>1. CASE Plans!HealNext
  <2>. PICK taken : change' = Plans!Optimized(Plans!ChangeRequest(Head(queue), members[Head(queue)], spare),
                                              Plans!HealOptimizes(request.limit, taken), taken)
    BY <1>1 DEF Plans!HealNext
  <2>1. change'.active /\ change'.subnet = Head(queue)
    BY FiltersKeepSubnet
  <2>2. Head(queue) \in Subnet
    BY <1>1 DEF Plans!HealNext, SizesInv, RequestInv
  <2>. QED
    BY <1>1, <2>1, <2>2 DEF Plans!HealNext
<1>2. CASE Plans!AddNode \/ Plans!RemoveNode
  <2>. PICK c : c = change
    OBVIOUS
  <2>1. /\ c = [active |-> c.active, subnet |-> c.subnet, old |-> c.old, nodes |-> c.nodes,
                pool |-> c.pool, toAdd |-> c.toAdd, toRemove |-> c.toRemove, min |-> c.min]
        /\ c.active /\ c.subnet \in Subnet \cup {NewSubnet}
    <3>1. change.active
      BY <1>2 DEF Plans!AddNode, Plans!RemoveNode
    <3>2. ~Plans!Inactive.active
      BY NothingUnderway
    <3>. QED
      BY <3>1, <3>2 DEF SizesInv, ChangeInv, ChangeTyped
  <2>2. \E chosen : \/ change' = [c EXCEPT !.nodes = chosen, !.pool = @ \ chosen, !.toAdd = @ - 1]
                    \/ change' = [c EXCEPT !.nodes = chosen, !.toRemove = @ - 1]
    BY <1>2 DEF Plans!AddNode, Plans!RemoveNode
  <2>3. request' = request /\ changes' = changes
    BY <1>2 DEF Plans!AddNode, Plans!RemoveNode
  <2>4. change'.active = c.active /\ change'.subnet = c.subnet
    BY <2>1, <2>2
  <2>. QED
    BY <2>1, <2>3, <2>4
<1>. QED
  BY <1>1, <1>2

LEMMA EndsAreTyped ==
    ASSUME TopologiesKnown, SizesInv, ChangeTyped, Plans!Finish \/ Plans!Fail \/ Plans!Answer
    PROVE  ChangeTyped'
<1>0. Plans!Inactive' = Plans!Inactive
  BY DEF Plans!Inactive
<1>1. CASE Plans!Finish
  <2>1. change.old \subseteq Node /\ change.nodes \subseteq Node
    BY <1>1 DEF Plans!Finish, SizesInv, ChangeInv, Underway
  <2>2. Plans!Change.old = change.old /\ Plans!Change.new = change.nodes
    BY DEF Plans!Change
  <2>3. changes' = changes \cup {Plans!Change} /\ change' = Plans!Inactive /\ request' = request
    BY <1>1 DEF Plans!Finish
  <2>4. \A c \in changes' : c.old \subseteq Node /\ c.new \subseteq Node
    BY <2>1, <2>2, <2>3 DEF ChangeTyped
  <2>. QED
    BY <1>0, <2>3, <2>4 DEF ChangeTyped
<1>2. CASE Plans!Fail \/ Plans!Answer
  <2>1. change' = Plans!Inactive /\ changes' = {} /\ request' = [kind |-> "none"]
    BY <1>2 DEF Plans!Fail, Plans!Answer, Plans!Over, Plans!NoRequest
  <2>. QED
    BY <1>0, <2>1 DEF ChangeTyped
<1>. QED
  BY <1>1, <1>2

LEMMA ChangeTypes == TopologiesKnown => (Plans!Spec => []Plans!TypeOK)
<1>. SUFFICES ASSUME TopologiesKnown
              PROVE  Plans!Spec => []Plans!TypeOK
  OBVIOUS
<1>1. Plans!Spec => []SizesInv
  BY SizesHold
<1>2. Plans!Init => ChangeTyped
  BY DEF Plans!Init, Plans!NoRequest, ChangeTyped
<1>3. SizesInv /\ ChangeTyped /\ [Plans!Next]_Plans!vars => ChangeTyped'
  <2>. SUFFICES ASSUME SizesInv, ChangeTyped, [Plans!Next]_Plans!vars
                PROVE  ChangeTyped'
    OBVIOUS
  <2>1. ASSUME NEW unhealthy, NEW limit, Plans!Heal(unhealthy, limit)
        PROVE  ChangeTyped'
    <3>. DEFINE asked == [kind |-> "heal", unhealthy |-> unhealthy, limit |-> limit]
    <3>1. Plans!Begin(asked, Plans!Inactive) /\ asked.kind = "heal"
      BY <2>1 DEF Plans!Heal
    <3>. HIDE DEF asked
    <3>. QED
      BY <3>1, BegunIsTyped
  <2>2. CASE UNCHANGED Plans!vars
    <3>1. Plans!Inactive' = Plans!Inactive
      BY DEF Plans!Inactive
    <3>. QED
      BY <2>2, <3>1 DEF Plans!vars, ChangeTyped
  <2>. QED
    BY <2>1, <2>2, AskedIsTyped, CreatedIsTyped, ChangeStepsAreTyped, EndsAreTyped DEF Plans!Next
<1>4. SizesInv /\ ChangeTyped => Plans!TypeOK
  <2>. SUFFICES ASSUME SizesInv, ChangeTyped
                PROVE  Plans!TypeOK
    OBVIOUS
  <2>1. /\ members \in [Subnet -> SUBSET Node] /\ spare \subseteq available /\ available \subseteq Node
        /\ queue \in Seq(Subnet)
    BY DEF SizesInv, TopologyInv, RequestInv
  <2>2. /\ change.active \in BOOLEAN /\ change.subnet \in Subnet \cup {NewSubnet}
        /\ change.old \subseteq Node /\ change.nodes \subseteq Node /\ change.pool \subseteq Node
        /\ change.toAdd \in Nat /\ change.toRemove \in Nat
    <3>1. CASE change.active /\ change.subnet \in Subnet \cup {NewSubnet}
      <4>1. Underway(request, change) /\ change.active \in BOOLEAN
        BY <3>1 DEF SizesInv, ChangeInv
      <4>. QED
        BY <2>1, <3>1, <4>1 DEF Underway
    <3>2. CASE change = Plans!Inactive
      BY <3>2 DEF Plans!Inactive
    <3>. QED
      BY <3>1, <3>2 DEF ChangeTyped
  <2>. QED
    BY <2>1, <2>2 DEF ChangeTyped, Plans!TypeOK
<1>. QED
  BY <1>1, <1>2, <1>3, <1>4, PTL DEF Plans!Spec

\* A task knows what is next, and one that upgrades the unassigned nodes the version.
TypedTask(t) == /\ {"kind", "what", "pc"} \subseteq DOMAIN t
                /\ t.pc \in {"check", "download", "test", "simulate", "confirm"}
                /\ t.kind = "unassigned" => t.what.version \in Version

ToolTyped ==
    /\ epoch \in [ToolSubnet -> Nat] /\ runs \in 0..MaxRuns
    /\ nnsVersion \in Version /\ unassignedVersion \in Version
    /\ images \in [Candidate -> [Cdn -> Image \cup {Missing}]]
    /\ binary \in {"none", "partial", "full"}
    /\ tasks = [o \in Operator |-> tasks[o]]
    /\ \A o \in Operator : \A t \in tasks[o] : TypedTask(t)
    /\ \A p \in submitted : p.kind = "unassigned" => p.what.version \in Version

LEMMA TypedTaskReplaced ==
    ASSUME ToolTyped, UNCHANGED Tool!registry, UNCHANGED binary, UNCHANGED runs,
           NEW o \in Operator, NEW t \in tasks[o], NEW new, Tool!Put(o, t, new), \A u \in new : TypedTask(u),
           \/ UNCHANGED submitted
           \/ submitted' = submitted \cup {[kind |-> t.kind, what |-> t.what, by |-> o]}
    PROVE  ToolTyped'
<1>1. /\ tasks' = [tasks EXCEPT ![o] = (tasks[o] \ {t}) \cup new]
      /\ tasks = [q \in Operator |-> tasks[q]]
  BY DEF Tool!Put, ToolTyped
<1>2. /\ tasks' = [q \in Operator |-> tasks'[q]]
      /\ tasks'[o] = (tasks[o] \ {t}) \cup new
      /\ \A q \in Operator \ {o} : tasks'[q] = tasks[q]
  BY <1>1
<1>3. \A q \in Operator : \A u \in tasks'[q] : TypedTask(u)
  BY <1>2 DEF ToolTyped
<1>4. \A p \in submitted' : p.kind = "unassigned" => p.what.version \in Version
  <2>1. TypedTask(t)
    BY DEF ToolTyped
  <2>2. ASSUME NEW p \in submitted', p \notin submitted
        PROVE  p.kind = t.kind /\ p.what = t.what
    BY <2>2
  <2>. QED
    BY <2>1, <2>2 DEF ToolTyped, TypedTask
<1>5. /\ UNCHANGED epoch /\ UNCHANGED nnsVersion /\ UNCHANGED unassignedVersion /\ UNCHANGED images
  BY DEF Tool!registry
<1>. QED
  BY <1>2, <1>3, <1>4, <1>5 DEF ToolTyped, TypedTask

LEMMA WorkIsTyped ==
    ASSUME ToolTyped, NEW o \in Operator, NEW t \in tasks[o], Tool!Work(o, t)
    PROVE  ToolTyped'
<1>0. TypedTask(t) /\ {"kind", "what", "pc"} \subseteq DOMAIN t
  BY DEF ToolTyped, TypedTask
<1>1. UNCHANGED Tool!registry /\ UNCHANGED binary /\ UNCHANGED runs
      /\ (UNCHANGED submitted \/ submitted' = submitted \cup {[kind |-> t.kind, what |-> t.what, by |-> o]})
  BY DEF Tool!Work, Tool!Check, Tool!Fetch, Tool!Validate, Tool!Test, Tool!Simulate, Tool!Submit, Tool!GiveUp
<1>2. ASSUME Tool!Put(o, t, {})
      PROVE  ToolTyped'
  BY <1>1, <1>2, TypedTaskReplaced
<1>3. ASSUME NEW u, TypedTask(u), Tool!Put(o, t, {u})
      PROVE  ToolTyped'
  BY <1>1, <1>3, TypedTaskReplaced
<1>4. ASSUME NEW pc \in {"simulate", "confirm"}, Tool!Goto(o, t, pc)
      PROVE  ToolTyped'
  <2>. DEFINE u == [t EXCEPT !.pc = pc]
  <2>1. Tool!Put(o, t, {u})
    BY <1>4 DEF Tool!Goto
  <2>2. {"kind", "what", "pc"} \subseteq DOMAIN u /\ u.kind = t.kind /\ u.what = t.what /\ u.pc = pc
    BY <1>0, Moved1
  <2>. HIDE DEF u
  <2>3. TypedTask(u)
    BY <1>0, <2>2 DEF TypedTask
  <2>. QED
    BY <1>3, <2>1, <2>3
<1>5. ASSUME NEW kind, NEW what, kind # "unassigned"
      PROVE  TypedTask(Tool!Task(kind, what))
  <2>1. /\ DOMAIN Tool!Task(kind, what) = {"kind", "what", "pc"} /\ Tool!Task(kind, what).kind = kind
        /\ Tool!Task(kind, what).pc \in {"check", "simulate"}
    BY DEF Tool!Task
  <2>. QED
    BY <1>5, <2>1 DEF TypedTask
<1>6. CASE Tool!Check(o, t) \/ Tool!Simulate(o, t)
  BY <1>2, <1>4, <1>6 DEF Tool!Check, Tool!Simulate
<1>7. CASE Tool!Submit(o, t) \/ Tool!GiveUp(o, t)
  BY <1>2, <1>7 DEF Tool!Submit, Tool!GiveUp
<1>8. CASE Tool!Validate(o, t)
  <2>1. \E what : Tool!Put(o, t, {}) \/ Tool!Put(o, t, {Tool!Task("elect", what)})
    BY <1>8 DEF Tool!Validate
  <2>. QED
    BY <1>2, <1>3, <1>5, <2>1
<1>9. CASE Tool!Test(o, t)
  <2>1. \E what : Tool!Put(o, t, {Tool!Task("firewall", what)})
    BY <1>9 DEF Tool!Test
  <2>. QED
    BY <1>3, <1>5, <2>1
<1>10. ASSUME NEW cdn \in Cdn, Tool!Fetch(o, t, cdn)
       PROVE  ToolTyped'
  <2>. DEFINE image == images[t.what.version][cdn]
              u == [t EXCEPT !.left = @ \ {cdn},
                             !.found = @ \cup IF image = Missing THEN {} ELSE {[cdn |-> cdn, hash |-> image]}]
  <2>1. DOMAIN u = DOMAIN t /\ u.kind = t.kind /\ u.what = t.what /\ u.pc = t.pc
    BY <1>0
  <2>2. Tool!Put(o, t, {u})
    BY <1>10 DEF Tool!Fetch
  <2>. HIDE DEF u
  <2>3. TypedTask(u)
    BY <1>0, <2>1 DEF TypedTask
  <2>. QED
    BY <1>3, <2>2, <2>3
<1>. QED
  BY <1>6, <1>7, <1>8, <1>9, <1>10 DEF Tool!Work

LEMMA CommandIsTyped ==
    ASSUME BoundsKnown, ToolTyped, NEW o \in Operator, Tool!Command(o)
    PROVE  ToolTyped'
<1>1. ASSUME NEW new, Tool!Begin(o, new), \A t \in new : TypedTask(t)
      PROVE  ToolTyped'
  <2>1. /\ tasks' = [tasks EXCEPT ![o] = new] /\ UNCHANGED submitted /\ UNCHANGED binary
        /\ tasks = [q \in Operator |-> tasks[q]]
        /\ UNCHANGED epoch /\ UNCHANGED nnsVersion /\ UNCHANGED unassignedVersion /\ UNCHANGED images
    BY <1>1 DEF Tool!Begin, Tool!registry, ToolTyped
  <2>2. /\ tasks' = [q \in Operator |-> tasks'[q]] /\ tasks'[o] = new
        /\ \A q \in Operator \ {o} : tasks'[q] = tasks[q]
    BY <2>1
  <2>3. \A q \in Operator : \A t \in tasks'[q] : TypedTask(t)
    BY <1>1, <2>2 DEF ToolTyped
  <2>4. runs' \in 0..MaxRuns
    <3>1. runs < MaxRuns /\ runs' = runs + 1 /\ runs \in 0..MaxRuns /\ MaxRuns \in Nat
      BY <1>1 DEF Tool!Begin, Tool!Started, ToolTyped, BoundsKnown
    <3>. QED
      BY <3>1
  <2>. QED
    BY <2>1, <2>2, <2>3, <2>4 DEF ToolTyped, TypedTask
<1>2. ASSUME NEW kind, NEW what, kind = "unassigned" => what.version \in Version
      PROVE  TypedTask(Tool!Task(kind, what))
  <2>1. /\ DOMAIN Tool!Task(kind, what) = {"kind", "what", "pc"} /\ Tool!Task(kind, what).kind = kind
        /\ Tool!Task(kind, what).what = what /\ Tool!Task(kind, what).pc \in {"check", "simulate"}
    BY DEF Tool!Task
  <2>. QED
    BY <1>2, <2>1 DEF TypedTask
<1>3. Tool!Begin(o, {}) => ToolTyped'
  BY <1>1
<1>4. ASSUME NEW kind, NEW what, kind = "unassigned" => what.version \in Version,
             Tool!Begin(o, {Tool!Task(kind, what)})
      PROVE  ToolTyped'
  BY <1>1, <1>2, <1>4
<1>5. CASE Tool!Heal(o)
  <2>. PICK subnets \in SUBSET ToolSubnet : Tool!Begin(o, {Tool!Change(s) : s \in subnets})
    BY <1>5 DEF Tool!Heal
  <2>1. \A s \in subnets : TypedTask(Tool!Change(s))
    BY <1>2 DEF Tool!Change
  <2>. QED
    BY <1>1, <2>1
<1>6. ASSUME NEW s \in ToolSubnet, Tool!ChangeMembership(o, s)
      PROVE  ToolTyped'
  BY <1>3, <1>4, <1>6 DEF Tool!ChangeMembership, Tool!Change
<1>7. CASE Tool!ProposePlain(o) \/ Tool!CreateSubnet(o)
  BY <1>4, <1>7 DEF Tool!ProposePlain, Tool!CreateSubnet
<1>8. CASE Tool!UpdateUnassigned(o)
  <2>. DEFINE what == [version |-> nnsVersion]
  <2>1. Tool!Begin(o, {}) \/ Tool!Begin(o, {Tool!Task("unassigned", what)})
    BY <1>8 DEF Tool!UpdateUnassigned
  <2>2. what.version \in Version
    BY DEF ToolTyped
  <2>. HIDE DEF what
  <2>. QED
    BY <1>3, <1>4, <2>1, <2>2
<1>9. ASSUME NEW v \in Candidate, NEW force \in BOOLEAN, Tool!Elect(o, v, force)
      PROVE  ToolTyped'
  <2>. DEFINE t == [kind |-> "elect", what |-> [version |-> v, force |-> force],
                    pc |-> "download", left |-> Cdn, found |-> {}]
  <2>1. Tool!Begin(o, {t}) /\ {"kind", "what", "pc"} \subseteq DOMAIN t /\ t.kind = "elect" /\ t.pc = "download"
    BY <1>9 DEF Tool!Elect
  <2>. HIDE DEF t
  <2>2. TypedTask(t)
    BY <2>1 DEF TypedTask
  <2>. QED
    BY <1>1, <2>1, <2>2
<1>10. ASSUME NEW edited \in Edits, Tool!EditFirewall(o, edited)
       PROVE  ToolTyped'
  <2>. DEFINE batched == Tool!Batched(Tool!ReverseSorted(rules, edited))
              what == [mods |-> Tool!LastBatch(batched.batches), edited |-> edited]
              t == [kind |-> "firewall", pc |-> "test", base |-> rules, what |-> what]
  <2>1. Tool!Begin(o, {}) \/ Tool!Begin(o, {t})
    BY <1>10 DEF Tool!EditFirewall
  <2>. HIDE DEF what
  <2>2. {"kind", "what", "pc"} \subseteq DOMAIN t /\ t.kind = "firewall" /\ t.pc = "test"
    OBVIOUS
  <2>. HIDE DEF t
  <2>3. TypedTask(t)
    BY <2>2 DEF TypedTask
  <2>. QED
    BY <1>1, <1>3, <2>1, <2>3
<1>. QED
  BY <1>5, <1>6, <1>7, <1>8, <1>9, <1>10 DEF Tool!Command

LEMMA OthersAreTyped ==
    ASSUME ToolTyped,
           \/ Tool!Download \/ UNCHANGED Tool!vars
           \/ \E p \in submitted : Tool!Execute(p)
           \/ \E v \in Candidate, c \in Cdn, i \in Image : Tool!Upload(v, c, i)
           \/ \E v \in Version : Tool!UpgradeNns(v)
    PROVE  ToolTyped'
<1>1. CASE Tool!Download
  BY <1>1 DEF Tool!Download, Tool!registry, ToolTyped, TypedTask
<1>2. CASE UNCHANGED Tool!vars
  BY <1>2 DEF Tool!vars, ToolTyped, TypedTask
<1>3. ASSUME NEW p \in submitted, Tool!Execute(p)
      PROVE  ToolTyped'
  <2>1. submitted' \subseteq submitted /\ UNCHANGED <<nnsVersion, images, binary, tasks, runs>>
    BY <1>3 DEF Tool!Execute
  <2>2. epoch' \in [ToolSubnet -> Nat]
    <3>. PICK s : epoch' = epoch \/ epoch' = [epoch EXCEPT ![s] = @ + 1]
      BY <1>3 DEF Tool!Execute
    <3>1. epoch \in [ToolSubnet -> Nat]
      BY DEF ToolTyped
    <3>. QED
      BY <3>1
  <2>3. unassignedVersion' \in Version
    BY <1>3 DEF Tool!Execute, ToolTyped
  <2>. QED
    BY <2>1, <2>2, <2>3 DEF ToolTyped, TypedTask
<1>4. ASSUME NEW v \in Candidate, NEW c \in Cdn, NEW i \in Image, Tool!Upload(v, c, i)
      PROVE  ToolTyped'
  <2>1. images' = [images EXCEPT ![v][c] = i]
        /\ UNCHANGED <<epoch, nnsVersion, unassignedVersion, submitted, binary, tasks, runs>>
    BY <1>4 DEF Tool!Upload
  <2>2. images' \in [Candidate -> [Cdn -> Image \cup {Missing}]]
    <3>1. images \in [Candidate -> [Cdn -> Image \cup {Missing}]]
      BY DEF ToolTyped
    <3>2. [images[v] EXCEPT ![c] = i] \in [Cdn -> Image \cup {Missing}]
      BY <3>1
    <3>. QED
      BY <2>1, <3>1, <3>2
  <2>. QED
    BY <2>1, <2>2 DEF ToolTyped, TypedTask
<1>5. ASSUME NEW v \in Version, Tool!UpgradeNns(v)
      PROVE  ToolTyped'
  BY <1>5 DEF Tool!UpgradeNns, ToolTyped, TypedTask
<1>. QED
  BY <1>1, <1>2, <1>3, <1>4, <1>5

LEMMA ToolTypes ==
    ASSUME BoundsKnown
    PROVE  Tool!Spec => []Tool!TypeOK
<1>1. Tool!Init => ToolTyped
  <2>. SUFFICES ASSUME Tool!Init
                PROVE  ToolTyped
    OBVIOUS
  <2>1. /\ epoch = [s \in ToolSubnet |-> 0] /\ runs = 0 /\ binary = "none" /\ submitted = {}
        /\ nnsVersion \in Version /\ unassignedVersion \in Version
        /\ images = [v \in Candidate |-> [c \in Cdn |-> Missing]] /\ tasks = [o \in Operator |-> {}]
    BY DEF Tool!Init
  <2>2. runs \in 0..MaxRuns
    BY <2>1 DEF BoundsKnown
  <2>3. images \in [Candidate -> [Cdn -> Image \cup {Missing}]]
    <3>1. [c \in Cdn |-> Missing] \in [Cdn -> Image \cup {Missing}]
      OBVIOUS
    <3>. QED
      BY <2>1, <3>1
  <2>4. epoch \in [ToolSubnet -> Nat]
    BY <2>1
  <2>5. tasks = [o \in Operator |-> tasks[o]] /\ \A o \in Operator : tasks[o] = {}
    BY <2>1
  <2>. QED
    BY <2>1, <2>2, <2>3, <2>4, <2>5 DEF ToolTyped
<1>2. ToolTyped /\ [Tool!Next]_Tool!vars => ToolTyped'
  BY WorkIsTyped, CommandIsTyped, OthersAreTyped DEF Tool!Next
<1>3. ToolTyped => Tool!TypeOK
  BY DEF ToolTyped, TypedTask, Tool!TypeOK
<1>. QED
  BY <1>1, <1>2, <1>3, PTL DEF Tool!Spec

-----------------------------------------------------------------------------
(* The parts together: every behaviour is one of the part at hand.           *)

LEMMA OtherPartsStay ==
    ASSUME NEW name, part # name, [Next]_<<part, changeVars, scheduleVars, hostosVars, toolVars>>
    PROVE  part' # name
  BY DEF Next

LEMMA ChangesRun ==
    Spec => (Plans!Spec /\ [](part = "change")) \/ []~(part = "change")
<1>1. Init /\ part = "change" => Plans!Init
  BY DEF Init
<1>2. part = "change" /\ [Next]_<<part, changeVars, scheduleVars, hostosVars, toolVars>>
        => (part = "change")' /\ [Plans!Next]_Plans!vars
  BY DEF Next, changeVars, Plans!vars
<1>3. ~(part = "change") /\ [Next]_<<part, changeVars, scheduleVars, hostosVars, toolVars>>
        => ~(part = "change")'
  BY OtherPartsStay
<1>. QED
  BY <1>1, <1>2, <1>3, PTL DEF Spec, Plans!Spec

LEMMA HostosRuns ==
    Spec => (Hostos!Spec /\ [](part = "hostos")) \/ []~(part = "hostos")
<1>1. Init /\ part = "hostos" => Hostos!Init
  BY DEF Init
<1>2. part = "hostos" /\ [Next]_<<part, changeVars, scheduleVars, hostosVars, toolVars>>
        => (part = "hostos")' /\ [Hostos!Next]_Hostos!vars
  BY DEF Next, hostosVars, Hostos!vars
<1>3. ~(part = "hostos") /\ [Next]_<<part, changeVars, scheduleVars, hostosVars, toolVars>>
        => ~(part = "hostos")'
  BY OtherPartsStay
<1>. QED
  BY <1>1, <1>2, <1>3, PTL DEF Spec, Hostos!Spec

LEMMA ToolRuns ==
    Spec => (Tool!Spec /\ [](part = "tool")) \/ []~(part = "tool")
<1>1. Init /\ part = "tool" => Tool!Init
  BY DEF Init
<1>2. part = "tool" /\ [Next]_<<part, changeVars, scheduleVars, hostosVars, toolVars>>
        => (part = "tool")' /\ [Tool!Next]_Tool!vars
  BY DEF Next, toolVars, Tool!vars
<1>3. ~(part = "tool") /\ [Next]_<<part, changeVars, scheduleVars, hostosVars, toolVars>>
        => ~(part = "tool")'
  BY OtherPartsStay
<1>. QED
  BY <1>1, <1>2, <1>3, PTL DEF Spec, Tool!Spec

\* A change of a subnet keeps what ChangesStaySound says, for any nodes, features,
\* filters and reports (network.rs, nakamoto/mod.rs).
THEOREM SubnetChangesAreSound ==
    ASSUME TopologiesKnown, FeaturesKnown
    PROVE  Spec => []ChangesAreSound
<1>1. Plans!Spec => []Plans!ChangesAreSound
  BY ChangesStaySound
<1>2. (part = "change" => Plans!ChangesAreSound) => ChangesAreSound
  BY DEF ChangesAreSound
<1>. QED
  BY <1>1, <1>2, ChangesRun, PTL

\* The groups of a HostOS rollout keep what GroupsStaySound says, for any nodes,
\* subnets, requests, votes and failures (hostos_rollout.rs).
THEOREM RolloutGroupsAreSound ==
    ASSUME HomesKnown, RequestsKnown
    PROVE  Spec => []GroupsAreSound
<1>1. Hostos!Spec => []Hostos!GroupsAreSound
  BY GroupsStaySound
<1>2. (part = "hostos" => Hostos!GroupsAreSound) => GroupsAreSound
  BY DEF GroupsAreSound
<1>. QED
  BY <1>1, <1>2, HostosRuns, PTL

\* The proposals of the tool keep what ProposalsStaySound says, for any operators,
\* commands, images, uploads and edits of finitely many positions (ic_admin.rs, runner.rs).
THEOREM ProposedIsSound ==
    ASSUME TwoServers, EditsKnown
    PROVE  Spec => []ProposalsAreSound
<1>1. Tool!Spec => []Tool!ProposalsAreSound
  BY ProposalsStaySound
<1>2. (part = "tool" => Tool!ProposalsAreSound) => ProposalsAreSound
  BY DEF ProposalsAreSound
<1>. QED
  BY <1>1, <1>2, ToolRuns, PTL
=============================================================================
