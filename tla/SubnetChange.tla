------------------------------- MODULE SubnetChange -------------------------------
(***************************************************************************)
(* Which nodes a subnet gets and loses: the Nakamoto scores, the penalties *)
(* of the business rules, the greedy extension and reduction, and the      *)
(* requests built on them - replace, resize, create, rescue and heal       *)
(* (decentralization/src/network.rs, nakamoto/mod.rs and lib.rs,           *)
(* ic-management-backend/src/endpoints/subnet.rs and network.rs).          *)
(*                                                                         *)
(* Abstractions.  Lists of nodes without duplicates are sets, so a choice  *)
(* among the candidates that compare as equal is open: the code settles it *)
(* by the order of the lists and a seeded generator.  Coefficients are     *)
(* whole numbers and averages over all features are compared as sums, the  *)
(* average of the logarithms as a product.  Every node has a value for     *)
(* every feature (the code writes "unknown"), so no score is incomplete.   *)
(* Filters by feature or id are the sets of nodes that they match.         *)
(***************************************************************************)
EXTENDS Integers, FiniteSetsExt, SequencesExt

CONSTANTS
    Node, Subnet,
    Variants,        \* the node features, a sequence without duplicates
    NodeProvider, Country, Continent, \* three of them
    Europe,          \* a value of Continent
    FeatureOf,       \* [Node -> [feature -> value]]
    DfinityOwned,    \* nodes that DFINITY owns
    Decentralized,   \* nodes of a decentralized operator
    Nns,             \* subnets that want three DFINITY nodes
    ValuableKey,     \* subnets of which no country may have a third
    European,        \* subnets for European nodes
    Important,       \* subnets that are healed first
    NewSubnet,       \* the id of a subnet that is still to be created
    NoMin,           \* no coefficients asked for
    NoLimit,         \* a heal request without a limit
    Topologies,      \* what the registry may say: records of members and available
    Filters,         \* filters that a request may have: records of only, include, exclude
    Mins,            \* coefficients a request may ask for: NoMin, or records of
                     \* coefficients (a function on some features) and average
    Reports,         \* sets of nodes that a health query may find unhealthy
    MaxCount         \* bound on the numbers in a request

Feature == ToSet(Variants)

-----------------------------------------------------------------------------
(* Nakamoto scores. *)

ValuesOf(nodes, f) == {FeatureOf[n][f] : n \in nodes}
CountOf(nodes, f, v) == Cardinality({n \in nodes : FeatureOf[n][f] = v})

\* An actor with as many nodes as any.
Largest(nodes, f, actors) ==
    CHOOSE v \in actors : \A w \in actors : CountOf(nodes, f, w) <= CountOf(nodes, f, v)

\* The largest actors join, one after the other, until they hold more than limit.
Coalition(nodes, f, limit) ==
    LET values == ValuesOf(nodes, f)
        Joined(c) == LET v == Largest(nodes, f, c.left)
                     IN  [left |-> c.left \ {v}, actors |-> c.actors + 1, nodes |-> c.nodes + CountOf(nodes, f, v)]
        after[k \in 0..Cardinality(values)] ==
          IF k = 0 THEN [left |-> values, actors |-> 0, nodes |-> 0]
          ELSE IF after[k - 1].nodes > limit THEN after[k - 1] ELSE Joined(after[k - 1])
    IN  after[Cardinality(values)]

\* A coalition of exactly a third is enough.
NakamotoAtThird(nodes, f) == Coalition(nodes, f, Cardinality(nodes) \div 3 - 1)

\* More than a third of the nodes are needed.
Nakamoto(nodes, f) == Coalition(nodes, f, Cardinality(nodes) \div 3)

\* A number for each feature, added up.
Total(g) ==
    LET sum[k \in 0..Len(Variants)] == IF k = 0 THEN 0 ELSE sum[k - 1] + g[Variants[k]]
    IN  sum[Len(Variants)]

\* The score of a set of nodes, by feature and over all features.
ScoreOf(nodes) ==
    LET result == [f \in Feature |-> Nakamoto(nodes, f)]
        coefficients == [f \in Feature |-> result[f].actors]
    IN  [coefficients |-> coefficients,
         controlled   |-> [f \in Feature |-> result[f].nodes],
         largest      |-> [f \in Feature |-> IF nodes = {} THEN 0
                                          ELSE CountOf(nodes, f, Largest(nodes, f, ValuesOf(nodes, f)))],
         unique       |-> [f \in Feature |-> Cardinality(ValuesOf(nodes, f))],
         sum          |-> Total(coefficients),
         product      |-> FoldFunction(LAMBDA a, b : a * b, 1, coefficients),
         min          |-> Min(Range(coefficients))]

\* The memo of the scores, by the ids of the nodes.
Score == [nodes \in SUBSET Node |-> ScoreOf(nodes)]

Sign(x, y) == IF x > y THEN 1 ELSE IF x < y THEN -1 ELSE 0

BelowAverage(a) == Cardinality({f \in Feature : a.coefficients[f] < 3})

\* What partial_cmp looks at, one after the other; positive speaks for a.
Criteria(a, b) ==
    << Sign(a.min, b.min), Sign(a.product, b.product),
       Sign(b.controlled[NodeProvider], a.controlled[NodeProvider]),
       Sign(b.controlled[Country], a.controlled[Country]),
       Sign(a.unique[NodeProvider], b.unique[NodeProvider]),
       Sign(a.unique[Country], b.unique[Country]),
       Sign(BelowAverage(b), BelowAverage(a)) >>
    \o [i \in DOMAIN Variants |->
          LET x == a.coefficients[Variants[i]]
              y == b.coefficients[Variants[i]]
          IN  IF x < 3 \/ y < 3 THEN Sign(y, x) ELSE 0]
    \o << Sign(a.sum, b.sum) >>

CompareScores(a, b) ==
    LET decisive == SelectSeq(Criteria(a, b), LAMBDA c : c # 0)
    IN  IF decisive = <<>> THEN 0 ELSE Head(decisive)

-----------------------------------------------------------------------------
(* The penalties of _check_business_rules_for_nodes. *)

Positive(x) == IF x > 0 THEN x ELSE 0
Distance(x, y) == IF x > y THEN x - y ELSE y - x

DfinityPenalty(subnet, nodes) ==
    1000 * Distance(IF subnet \in Nns THEN 3 ELSE 1, Cardinality(nodes \cap DfinityOwned))

CountryPenalty(subnet, nodes, score) ==
    IF subnet \notin ValuableKey THEN 0
    ELSE 1000 * Positive(score.largest[Country] - Cardinality(nodes) \div 3)

EuropePenalty(subnet, nodes) ==
    IF subnet \notin European THEN 0
    ELSE 1000 * Cardinality({n \in nodes : FeatureOf[n][Continent] # Europe})

ProviderPenalty(nodes, score) ==
    IF score.coefficients[NodeProvider] <= 1 /\ Cardinality(nodes) > 3 THEN 10000 ELSE 0

\* Coefficients asked for; the average is cut to whole hundredths.
MinPenalty(score, min) ==
    IF min = NoMin THEN 0
    ELSE Total([f \in Feature |-> IF f \notin DOMAIN min.coefficients THEN 0
                                  ELSE 100 * Positive(min.coefficients[f] - score.coefficients[f])])
         + (100 * Positive(min.average * Len(Variants) - score.sum)) \div Len(Variants)

DominancePenalty(subnet, nodes, score) ==
    LET limit == (Cardinality(nodes) * 2) \div 3
    IN  Total([f \in Feature |-> IF score.coefficients[f] = 1 /\ ~(subnet \in European /\ f = Continent)
                                 THEN 1000 * Positive(score.controlled[f] - limit) ELSE 0])

Penalty(subnet, nodes, min) ==
    LET score == Score[nodes] IN
    IF Cardinality(nodes) <= 1 THEN 1
    ELSE DfinityPenalty(subnet, nodes) + 100 * Cardinality(nodes \ Decentralized)
         + CountryPenalty(subnet, nodes, score) + EuropePenalty(subnet, nodes) + ProviderPenalty(nodes, score)
         + MinPenalty(score, min) + DominancePenalty(subnet, nodes, score)

-----------------------------------------------------------------------------
(* A change under way and the choice of its next step. *)

VARIABLES
    members,    \* [Subnet -> set of nodes], what the registry says
    available,  \* the nodes that requests may use
    spare,      \* those that a heal request has not used yet
    request,    \* what was asked for
    queue,      \* subnets that still have to be healed
    change,     \* the change under way
    changes     \* the changes of this request that are ready

vars == <<members, available, spare, request, queue, change, changes>>

\* The best of the node sets a step could lead to: the penalty first, then the score.
BestByScore(subnet, min, options) ==
    {a \in options : \A b \in options : CompareScores(Score[a], Score[b]) >= 0}

Best(subnet, min, options) ==
    LET candidates == {[nodes |-> a, penalty |-> Penalty(subnet, a, min), score |-> Score[a]] : a \in options}
        least == Min({c.penalty : c \in candidates})
        cheap == {c \in candidates : c.penalty = least}
    IN  {c.nodes : c \in {d \in cheap : \A e \in cheap : CompareScores(d.score, e.score) >= 0}}

Extended == {change.nodes \cup {n} : n \in change.pool}
Reduced  == {change.nodes \ {n} : n \in change.nodes}

-----------------------------------------------------------------------------
(* SubnetChangeRequest. *)

ChangeRequest(subnet, nodes, pool) ==
    [subnet |-> subnet, old |-> nodes, nodes |-> nodes, available |-> pool, include |-> {}, min |-> NoMin]

\* The filters.  The last call of the second decides what is included.
ExcludingFromAvailable(r, nodes) == [r EXCEPT !.available = @ \ nodes]
IncludingFromAvailable(r, nodes) == [r EXCEPT !.include = r.available \cap nodes]
WithMin(r, min)                  == [r EXCEPT !.min = min]
WithoutNodes(r, nodes)           == [r EXCEPT !.nodes = @ \ nodes]

Resized(r, add, remove) ==
    [active |-> TRUE, subnet |-> r.subnet, old |-> r.old, nodes |-> r.nodes \cup r.include,
     pool |-> r.available \ r.include, toAdd |-> add, toRemove |-> remove, min |-> r.min]

\* The replaced nodes are not added again.
OptimizedShort(r, count, replaced) == Resized(WithoutNodes(r, replaced), count, count)

\* optimize: nodes are replaced, then as many as asked for are swapped.
Optimized(r, count, replaced) ==
    Resized(WithoutNodes(r, replaced), count + Cardinality(replaced), count)

Inactive == [active |-> FALSE, subnet |-> NewSubnet, old |-> {}, nodes |-> {}, pool |-> {},
             toAdd |-> 0, toRemove |-> 0, min |-> NoMin]

NoRequest == [kind |-> "none"]
Ready     == request = NoRequest

Begin(asked, c) ==
    /\ Ready
    /\ request' = asked
    /\ change' = c
    /\ UNCHANGED <<members, available, spare, changes>>

-----------------------------------------------------------------------------
(* Requests.  A filter f is a record of three sets of nodes. *)

\* The handlers of replace and resize call the filters in this order.
Filtered(r, f) ==
    IncludingFromAvailable(
      IncludingFromAvailable(ExcludingFromAvailable(r, f.exclude), f.only), f.include)

\* /subnet/membership/replace.  unhealthy is what the health query finds among
\* the members if it was asked, nodes are those that the caller names.
Replace(s, nodes, unhealthy, count, min, f) ==
    /\ nodes \cup unhealthy \subseteq members[s]
    /\ LET replaced == nodes \cup (unhealthy \ f.include)
           r == WithMin(Filtered(ChangeRequest(s, members[s], available), f), min)
       IN  Begin([kind |-> "replace", filter |-> f, replaced |-> replaced, count |-> count, min |-> min],
                 Optimized(r, count, replaced))
    /\ UNCHANGED queue

\* /subnet/membership/resize.
Resize(s, add, remove, f) ==
    /\ Begin([kind |-> "resize", filter |-> f, add |-> add, remove |-> remove],
             Resized(Filtered(ChangeRequest(s, members[s], available), f), add, remove))
    /\ UNCHANGED queue

\* /subnet/create: here the nodes of --only are included.
CreateSubnet(size, min, f) ==
    /\ LET r == IncludingFromAvailable(
                  ExcludingFromAvailable(
                    IncludingFromAvailable(WithMin(ChangeRequest(NewSubnet, {}, available), min), f.include),
                    f.exclude), f.only)
       IN  Begin([kind |-> "create", filter |-> f, size |-> size], Resized(r, size, 0))
    /\ UNCHANGED queue

\* rescue: everything but the nodes to keep is replaced.
Rescue(s, keep) ==
    /\ keep \subseteq members[s]
    /\ LET lost == members[s] \ keep
       IN  Begin([kind |-> "rescue", keep |-> keep],
                 Resized(WithoutNodes(ChangeRequest(s, members[s], available), lost), Cardinality(lost), 0))
    /\ UNCHANGED queue

\* /network/heal: the subnets with unhealthy nodes, the important ones first,
\* then the larger ones.
Precedes(s, t) ==
    \/ s \in Important /\ t \notin Important
    \/ (s \in Important <=> t \in Important) /\ Cardinality(members[s]) > Cardinality(members[t])

HealOrders(subnets) ==
    {order \in SetToSeqs(subnets) : \A i, j \in DOMAIN order : i < j => ~Precedes(order[j], order[i])}

\* unhealthy_with_nodes: a node without a known health counts as unhealthy.
Unhealthy(s, report) == members[s] \cap report
SubnetsToHeal(report) == {s \in Subnet : Unhealthy(s, report) # {}}

Heal(unhealthy, limit) ==
    /\ Begin([kind |-> "heal", unhealthy |-> unhealthy, limit |-> limit], Inactive)
    /\ queue' \in HealOrders(SubnetsToHeal(unhealthy))

\* All of them, with a limit as well.
TakenAll(unhealthy, limit) == {unhealthy}

\* The first unhealthy nodes up to the limit are replaced; what the limit leaves
\* is used to optimize the subnet.
Taken(unhealthy, limit) ==
    IF limit # NoLimit /\ Cardinality(unhealthy) > limit THEN kSubset(limit, unhealthy) ELSE {unhealthy}

\* The nodes that are taken do not count against the limit.
HealOptimizesFully(limit, taken) == IF limit = NoLimit THEN 0 ELSE limit

HealOptimizes(limit, taken) == IF limit = NoLimit THEN 0 ELSE limit - Cardinality(taken)

HealNext ==
    /\ request.kind = "heal" /\ ~change.active /\ queue # <<>>
    /\ LET s == Head(queue) IN
         \E taken \in Taken(Unhealthy(s, request.unhealthy), request.limit) :
           change' = Optimized(ChangeRequest(s, members[s], spare), HealOptimizes(request.limit, taken), taken)
    /\ queue' = Tail(queue)
    /\ UNCHANGED <<members, available, spare, request, changes>>

-----------------------------------------------------------------------------
(* Steps. *)

\* subnet_with_more_nodes.
AddNode ==
    /\ change.active /\ change.toAdd > 0 /\ Extended # {}
    /\ \E chosen \in Best(change.subnet, change.min, Extended) :
         change' = [change EXCEPT !.nodes = chosen, !.pool = @ \ chosen, !.toAdd = @ - 1]
    /\ UNCHANGED <<members, available, spare, request, queue, changes>>

\* subnet_with_fewer_nodes.
RemoveNode ==
    /\ change.active /\ change.toAdd = 0 /\ change.toRemove > 0 /\ Reduced # {}
    /\ \E chosen \in Best(change.subnet, change.min, Reduced) :
         change' = [change EXCEPT !.nodes = chosen, !.toRemove = @ - 1]
    /\ UNCHANGED <<members, available, spare, request, queue, changes>>

Added(c)   == c.new \ c.old
Removed(c) == c.old \ c.new

Change == [subnet |-> change.subnet, old |-> change.old, new |-> change.nodes]

\* The next subnet may use the same nodes again.
LeftOver == spare

\* What heal_and_optimize leaves for the next subnet.
Left == spare \ Added(Change)

Finish ==
    /\ change.active /\ change.toAdd = 0 /\ change.toRemove = 0
    /\ changes' = changes \cup {Change}
    /\ spare' = Left
    /\ change' = Inactive
    /\ UNCHANGED <<members, available, request, queue>>

Over ==
    /\ change' = Inactive /\ queue' = <<>> /\ changes' = {} /\ spare' = available
    /\ request' = NoRequest
    /\ UNCHANGED <<members, available>>

\* No candidate is left: the request fails, with all that was ready.
Fail ==
    /\ change.active
    /\ IF change.toAdd > 0 THEN Extended = {} ELSE change.toRemove > 0 /\ Reduced = {}
    /\ Over

Answered == ~Ready /\ ~change.active /\ queue = <<>>

Answer == Answered /\ Over

-----------------------------------------------------------------------------
Init == /\ \E t \in Topologies : members = t.members /\ available = t.available
        /\ spare = available
        /\ request = NoRequest
        /\ queue = <<>>
        /\ change = Inactive
        /\ changes = {}

Ask(s) ==
    \/ \E nodes \in SUBSET members[s], report \in Reports, count \in 0..MaxCount, min \in Mins, f \in Filters :
         Replace(s, nodes, Unhealthy(s, report), count, min, f)
    \/ \E add, remove \in 0..MaxCount, f \in Filters : Resize(s, add, remove, f)
    \/ \E keep \in SUBSET members[s] : Rescue(s, keep)

Next == \/ \E s \in Subnet : Ask(s)
        \/ \E size \in 0..MaxCount, min \in Mins, f \in Filters : CreateSubnet(size, min, f)
        \/ \E unhealthy \in Reports, limit \in (1..MaxCount) \cup {NoLimit} : Heal(unhealthy, limit)
        \/ HealNext \/ AddNode \/ RemoveNode \/ Finish \/ Fail \/ Answer

Spec == Init /\ [][Next]_vars

-----------------------------------------------------------------------------
(* Properties. *)

\* The type invariant.
TypeOK == /\ members \in [Subnet -> SUBSET Node]
          /\ spare \subseteq available /\ available \subseteq Node
          /\ request.kind \in {"none", "replace", "resize", "create", "rescue", "heal"}
          /\ queue \in Seq(Subnet)
          /\ change.active \in BOOLEAN /\ change.subnet \in Subnet \cup {NewSubnet}
          /\ change.old \subseteq Node /\ change.nodes \subseteq Node /\ change.pool \subseteq Node
          /\ change.toAdd \in Nat /\ change.toRemove \in Nat
          /\ \A c \in changes : c.old \subseteq Node /\ c.new \subseteq Node

\* The greedy count of actors is what the coefficient stands for: no smaller
\* group of actors holds more than a third of the nodes, and the reported nodes
\* are those of some group of that size that does (nakamoto/mod.rs:234-269).
CoefficientIsLeastCoalition ==
    \A f \in Feature :
      LET nodes == change.nodes
          Held(actors) == Cardinality({n \in nodes : FeatureOf[n][f] \in actors})
          Coalitions == {actors \in SUBSET ValuesOf(nodes, f) : Held(actors) > Cardinality(nodes) \div 3}
          least == Score[nodes].coefficients[f]
      IN  nodes # {} =>
            /\ least = Min({Cardinality(actors) : actors \in Coalitions})
            /\ Score[nodes].controlled[f] = Max({Held(a) : a \in {b \in Coalitions : Cardinality(b) = least}})

\* A subnet whose nodes are replaced, healed or rescued keeps its size through
\* all the single additions and removals (network.rs:903-934); included nodes
\* come on top.
SizeIsKept ==
    Answered /\ request.kind \in {"replace", "heal", "rescue"} =>
      \A c \in changes :
        (request.kind = "replace" => request.filter.include \cap available = {}) =>
          /\ Cardinality(c.new) = Cardinality(c.old)
          /\ request.kind = "replace" => request.replaced \subseteq Removed(c)

\* One heal request gives no node to two subnets, and only spare ones
\* (network.rs:1122).
HealGivesNodeOnce ==
    request.kind = "heal" =>
      \A c, d \in changes : /\ Added(c) \subseteq available
                            /\ c # d => Added(c) \cap Added(d) = {}

\* With a limit no subnet loses more nodes than the limit, and unhealthy ones
\* stay only where the limit is reached (network.rs:1093-1111).
HealRespectsLimit ==
    request.kind = "heal" =>
      \A c \in changes :
        LET left == c.new \cap Unhealthy(c.subnet, request.unhealthy)
        IN  IF request.limit = NoLimit THEN left = {}
            ELSE /\ Cardinality(Removed(c)) <= request.limit
                 /\ left # {} => Cardinality(Removed(c)) = request.limit

\* Swapping one node never makes a subnet worse: the step that removes a node
\* can always take back the one that was added (network.rs:903-908).
SwapNeverWorse ==
    Answered /\ request.kind = "replace" /\ request.replaced = {} /\ request.count = 1 /\ request.filter.include \cap available = {} =>
      \A c \in changes :
        LET was == Penalty(c.subnet, c.old, request.min)
            is  == Penalty(c.subnet, c.new, request.min)
        IN  is <= was /\ (is = was => CompareScores(Score[c.new], Score[c.old]) >= 0)

\* The five together.
ChangesAreSound ==
    CoefficientIsLeastCoalition /\ SizeIsKept /\ HealGivesNodeOnce /\ HealRespectsLimit /\ SwapNeverWorse

\* What the command line says of --only: "Features or Node IDs to only choose
\* from" (cli.rs:235).  Fails: they become the nodes to include, which the next
\* call overwrites (endpoints/subnet.rs:93).
OnlyIsRespected ==
    Answered /\ request.kind \in {"replace", "resize"} =>
      \A c \in changes : request.filter.only # {} =>
        Added(c) \subseteq request.filter.only \cup request.filter.include
=============================================================================
