------------------------------ MODULE HostosRollout ------------------------------
(***************************************************************************)
(* The command line tool on sets of nodes: a HostOS version is proposed    *)
(* for a part of a group of nodes, again and again until the group has it  *)
(* (cli/src/operations/hostos_rollout.rs, runner.rs), and spare nodes that *)
(* are dead, duplicates or named are proposed for removal                  *)
(* (ic-management-backend/src/endpoints/nodes_ops.rs).  A run reads the    *)
(* registry, then the health of the nodes and the open proposals in any    *)
(* order, and proposes at the end what it selected from the three.         *)
(*                                                                         *)
(* Abstractions.  Nodes have one order, where the code takes those of a    *)
(* subnet in the order of its record and the others by their ids.  The     *)
(* failures of nodes, the rejected proposals and the moves of nodes into   *)
(* the subnets are bounded by MaxFailures.  Runner::registry, which every  *)
(* run calls first, is taken to return: the module is about the runs in    *)
(* which it does (README).                                                 *)
(***************************************************************************)
EXTENDS Integers, FiniteSets, SequencesExt

CONSTANTS
    Nodes,          \* all nodes, in their order
    Subnet,
    NoSubnet,       \* stands for the subnet of an unassigned node
    HomeOf,         \* [EveryNode -> Subnet or NoSubnet] at the start
    DfinityOwned,   \* nodes that DFINITY owns
    Duplicates,     \* nodes whose record repeats that of another one
    Excluded,       \* nodes that the rollout leaves out
    Requests,       \* records of assignment, owner, and percentage or number
    NoRequest,
    MaxOpen,        \* bound on the proposals that are open when a run starts
    MaxFailures

VARIABLES
    home,      \* [EveryNode -> Subnet, NoSubnet or Removed]
    version,   \* [EveryNode -> HostOS version]
    status,    \* [EveryNode -> status], as the health queries see it
    open,      \* the open proposals: records of kind and nodes
    run,       \* the run under way: request, what it read so far
    failures

vars == <<home, version, status, open, run, failures>>

EveryNode == ToSet(Nodes)

Assignment == {"Assigned", "Unassigned"}
Owner      == {"Dfinity", "Others"}
Removed    == "removed"

-----------------------------------------------------------------------------
(* The group of a request and how much of it may be taken. *)

GroupOf(seen, n) ==
    [assignment |-> IF seen.home[n] = NoSubnet THEN "Unassigned" ELSE "Assigned",
     owner      |-> IF n \in DfinityOwned THEN "Dfinity" ELSE "Others"]

Listed(seen) == {n \in EveryNode : seen.home[n] # Removed}

\* filter_nodes_in_group, where an empty group is an error.
InGroup(seen, assignment, owner) ==
    {n \in Listed(seen) : /\ GroupOf(seen, n).assignment = assignment
                          /\ owner \in {"All", GroupOf(seen, n).owner}}

\* A part of a node counts as a node.
NodesRoundedUp(request, size) ==
    IF request.percent THEN (size * request.number + 99) \div 100 ELSE request.number

\* nodes_to_take.
NodesToTake(request, size) ==
    IF request.percent THEN (size * request.number) \div 100 ELSE request.number

\* The first nodes of a set, in the order of the list.
Before(i, set) == {j \in DOMAIN Nodes : j < i /\ Nodes[j] \in set}

FirstOf(set, count) ==
    {Nodes[i] : i \in {k \in DOMAIN Nodes : Nodes[k] \in set /\ Cardinality(Before(k, set)) < count}}

\* Nodes with an open proposal stay candidates.
CandidatesTwice(r, group) ==
    {n \in group : r.status[n] = "Healthy" /\ r.registry.version[n] # "new" /\ n \notin Excluded}

\* candidates_selection: healthy, not in an open proposal, of another version and
\* not excluded.
Candidates(r, group) ==
    {n \in group : /\ r.status[n] = "Healthy"
                   /\ \A p \in r.open : p.kind = "hostos" => n \notin p.nodes
                   /\ r.registry.version[n] # "new"
                   /\ n \notin Excluded}

\* The first nodes of the subnet are taken before the candidates are looked for.
FromSubnetsTakenFirst(r, candidates) ==
    LET Of(s) == {n \in Listed(r.registry) : r.registry.home[n] = s}
    IN  candidates \cap UNION {FirstOf(Of(s), NodesToTake(r.request, Cardinality(Of(s)))) : s \in Subnet}

\* take_from_subnets: the limit is for each subnet, by its size.
FromSubnets(r, candidates) ==
    LET Of(s) == {n \in Listed(r.registry) : r.registry.home[n] = s}
    IN  UNION {FirstOf(candidates \cap Of(s), NodesToTake(r.request, Cardinality(Of(s)))) : s \in Subnet}

Failed(r, assignment) == InGroup(r.registry, assignment, r.request.owner) = {}

SelectedIn(r, assignment) ==
    LET group      == InGroup(r.registry, assignment, r.request.owner)
        candidates == Candidates(r, group)
    IN  IF assignment = "Assigned" THEN FromSubnets(r, candidates)
        ELSE FirstOf(candidates, NodesToTake(r.request, Cardinality(group)))

\* with_nodes_health_and_open_proposals: the error of one assignment fails both.
Asked(r) == IF r.request.assignment = "All" THEN Assignment ELSE {r.request.assignment}

NothingFound(r) ==
    \/ \E a \in Asked(r) : Failed(r, a)
    \/ \A a \in Asked(r) : Candidates(r, InGroup(r.registry, a, r.request.owner)) = {}

Selected(r) == UNION {SelectedIn(r, a) : a \in Asked(r)}

\* /nodes/remove: spare nodes without a membership proposal that are duplicates
\* or dead, and the degraded ones if asked.
ToRemove(r) ==
    {n \in Listed(r.registry) :
       /\ r.registry.home[n] = NoSubnet
       /\ \A p \in r.open : p.kind \in {"add", "remove"} => n \notin p.nodes
       /\ \/ n \in Duplicates
          \/ r.status[n] = "Dead"
          \/ r.request.degraded /\ r.status[n] = "Degraded"}

-----------------------------------------------------------------------------
(* A run of the tool. *)

Idle == [pc |-> "idle", request |-> NoRequest]

Init == /\ home = HomeOf
        /\ version = [n \in EveryNode |-> "old"]
        /\ status = [n \in EveryNode |-> "Healthy"]
        /\ open = {} /\ failures = 0
        /\ run = Idle

Start(request) ==
    /\ run.pc = "idle" /\ Cardinality(open) < MaxOpen
    /\ run' = [pc |-> "query", request |-> request, registry |-> [home |-> home, version |-> version], 
             status |-> [n \in EveryNode |-> "Unknown"], open |-> {}, left |-> {"health", "proposals"}]
    /\ UNCHANGED <<home, version, status, open, failures>>

\* The two queries of try_join.
ReadHealth ==
    /\ run.pc = "query" /\ "health" \in run.left
    /\ run' = [run EXCEPT !.status = status, !.left = @ \ {"health"}]
    /\ UNCHANGED <<home, version, status, open, failures>>

ReadProposals ==
    /\ run.pc = "query" /\ "proposals" \in run.left
    /\ run' = [run EXCEPT !.open = open, !.left = @ \ {"proposals"}]
    /\ UNCHANGED <<home, version, status, open, failures>>

\* A hostos run ends when the filters leave no candidate.  A share of the candidates
\* is proposed even if it is empty, and so is a removal.
Select ==
    /\ run.pc = "query" /\ run.left = {}
    /\ LET selection == IF run.request.kind = "remove" THEN ToRemove(run) ELSE Selected(run)
       IN  run' = IF run.request.kind = "hostos" /\ NothingFound(run) THEN Idle
                  ELSE [pc |-> "propose", request |-> run.request, nodes |-> selection]
    /\ UNCHANGED <<home, version, status, open, failures>>

\* The operator confirms, or not.
Propose ==
    /\ run.pc = "propose"
    /\ open' = open \cup {[kind |-> run.request.kind, nodes |-> run.nodes]}
    /\ run' = Idle
    /\ UNCHANGED <<home, version, status, failures>>

-----------------------------------------------------------------------------
(* Votes, nodes, and the other operators. *)

\* The registry refuses to remove a node of a subnet and to add one that is not spare.
Allowed(p) == \A n \in p.nodes : home[n] = NoSubnet \/ (p.kind = "hostos" /\ home[n] # Removed)

Execute(p) ==
    /\ p \in open
    /\ open' = open \ {p}
    /\ LET Applied(kind) == IF p.kind = kind /\ Allowed(p) THEN p.nodes ELSE {}
       IN  /\ home' = [n \in EveryNode |-> IF n \in Applied("remove") THEN Removed
                                     ELSE IF n \in Applied("add") THEN p.to ELSE home[n]]
           /\ version' = [n \in EveryNode |-> IF n \in Applied("hostos") THEN "new" ELSE version[n]]
           /\ status' = [n \in EveryNode |-> IF n \in Applied("hostos") THEN "Degraded" ELSE status[n]]
    /\ UNCHANGED <<run, failures>>

Reject(p) ==
    /\ p \in open /\ failures < MaxFailures
    /\ open' = open \ {p}
    /\ failures' = failures + 1
    /\ UNCHANGED <<home, version, status, run>>

AddToSubnet(n, s) ==
    /\ home[n] = NoSubnet /\ failures < MaxFailures
    /\ open' = open \cup {[kind |-> "add", nodes |-> {n}, to |-> s]}
    /\ failures' = failures + 1
    /\ UNCHANGED <<home, version, status, run>>

Break(n) ==
    /\ status[n] = "Healthy" /\ failures < MaxFailures
    /\ status' = [status EXCEPT ![n] = "Dead"]
    /\ failures' = failures + 1
    /\ UNCHANGED <<home, version, open, run>>

Recover(n) ==
    /\ status[n] # "Healthy"
    /\ status' = [status EXCEPT ![n] = "Healthy"]
    /\ UNCHANGED <<home, version, open, run, failures>>

Step == ReadHealth \/ ReadProposals \/ Select \/ Propose

Next == \/ \E request \in Requests : Start(request)
        \/ Step
        \/ \E p \in open : Execute(p) \/ Reject(p)
        \/ \E n \in EveryNode : Break(n) \/ Recover(n) \/ \E s \in Subnet : AddToSubnet(n, s)

Spec == Init /\ [][Next]_vars

\* The operator repeats each command, the tool goes on, votes and repairs come.
Fairness == /\ \A request \in Requests : SF_vars(Start(request))
            /\ WF_vars(Step)
            /\ WF_vars(\E p \in open : p.nodes = {} /\ Execute(p))
            /\ \A n \in EveryNode : /\ WF_vars(Recover(n))
                               /\ WF_vars(\E p \in open : n \in p.nodes /\ Execute(p))

FairSpec == Spec /\ Fairness

-----------------------------------------------------------------------------
(* Properties. *)

\* The type invariant.
TypeOK == /\ home \in [EveryNode -> Subnet \cup {NoSubnet, Removed}]
          /\ version \in [EveryNode -> {"old", "new"}]
          /\ status \in [EveryNode -> {"Healthy", "Degraded", "Dead"}]
          /\ \A p \in open : p.kind \in {"hostos", "remove", "add"} /\ p.nodes \subseteq EveryNode
          /\ run.pc \in {"idle", "query", "propose"}
          /\ failures \in 0..MaxFailures

\* Whatever is executed or rejected between the reads of a run and its end, no
\* node is in two open HostOS proposals (hostos_rollout.rs:213-241).  One operator
\* rolls out at a time: two whose runs overlap both read the open proposals before
\* either submits, and nothing in the code keeps them apart.
NodeProposedOnce ==
    \A p, q \in open : p.kind = "hostos" /\ q.kind = "hostos" /\ p # q => p.nodes \cap q.nodes = {}

\* A proposal takes no more of the nodes of a subnet than the percentage of its
\* size, rounded down, whatever part of the subnet is in the group
\* (hostos_rollout.rs:138-143, 259-284).
SubnetShareIsKept ==
    run.pc = "propose" /\ run.request.kind = "hostos" /\ run.request.percent =>
      \A s \in Subnet :
        LET own == {n \in EveryNode : HomeOf[n] = s}
        IN  100 * Cardinality(run.nodes \cap own) <= run.request.number * (Cardinality(own) + failures)

\* The two together.
GroupsAreSound == NodeProposedOnce /\ SubnetShareIsKept

\* Repeating the command brings every node to the version, though each run takes
\* only nodes that are healthy and without a proposal when it looks - unless one of
\* the groups it asks for has lost its last node: then it fails for all of them
\* (hostos_rollout.rs:302-306, 444-457).
GroupCatchesUp ==
    []<>(\/ \A n \in EveryNode \ Excluded : home[n] = Removed \/ version[n] = "new"
         \/ \A n \in EveryNode : home[n] # NoSubnet)
=============================================================================
