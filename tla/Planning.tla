-------------------------------- MODULE Planning --------------------------------
(***************************************************************************)
(* The parts that plan changes of the network: the changes of subnets, the *)
(* schedule of a release, the groups of a HostOS rollout and the commands  *)
(* of the tool.  A behaviour is one of any of them (part).                 *)
(***************************************************************************)
EXTENDS Integers, Sequences, FiniteSets

CONSTANTS
    Node, Subnet, Variants, NodeProvider, Country, Continent, Europe, FeatureOf, DfinityOwned, Decentralized,
    Nns, ValuableKey, European, Important, NewSubnet, NoMin, NoLimit, Topologies, Filters, Mins, Reports, MaxCount,
    Scheduled, NnsSubnet, SparedDays, MaxStageSize, FirstDay, LastDay, FirstWeek, WeeksInYear, Hours,
    Nodes, RolloutSubnet, NoSubnet, HomeOf, DfinityNodes, Duplicates, Excluded, Requests, NothingAsked, MaxOpen,
    MaxFailures,
    Operator, ToolSubnet, Workloads, Version, Candidate, Cdn, Image, Missing, Rules, Edits, MaxRuns, Yes

VARIABLES
    part,
    members, available, spare, request, queue, change, changes,
    now, proposals, upgrade,
    home, version, status, inVote, run, failures,
    commands, epoch, nnsVersion, unassignedVersion, images, rules, submitted, binary, tasks, runs

changeVars   == <<members, available, spare, request, queue, change, changes>>
scheduleVars == <<now, proposals, upgrade>>
hostosVars   == <<home, version, status, inVote, run, failures>>
toolVars     == <<commands, epoch, nnsVersion, unassignedVersion, images, rules, submitted, binary, tasks, runs>>

-----------------------------------------------------------------------------
Plans == INSTANCE SubnetChange

NothingToChange ==
    /\ members = [s \in Subnet |-> {}] /\ available = {} /\ spare = {}
    /\ request = Plans!NoRequest /\ queue = <<>> /\ change = Plans!Inactive /\ changes = {}

Schedules == INSTANCE ReleaseSchedule WITH Subnets <- Scheduled, Nns <- NnsSubnet, Excluded <- SparedDays

NothingToSchedule ==
    /\ now = [day |-> 0, hour |-> 0] /\ proposals = <<>>
    /\ upgrade = [s \in Schedules!EverySubnet |-> "Unknown"]

Hostos == INSTANCE HostosRollout WITH
    Subnet <- RolloutSubnet, DfinityOwned <- DfinityNodes, NoRequest <- NothingAsked, open <- inVote

\* No run can start or go on, and every node is healthy.
NothingToRollOut ==
    /\ home = HomeOf /\ version = [n \in Hostos!EveryNode |-> "new"]
    /\ status = [n \in Hostos!EveryNode |-> "Healthy"] /\ inVote = {} /\ failures = 0
    /\ run = [Hostos!Idle EXCEPT !.pc = "over"]

Tool == INSTANCE DreTool WITH Subnet <- ToolSubnet, open <- submitted

NothingToPropose ==
    /\ commands = {} /\ epoch = [s \in ToolSubnet |-> 0]
    /\ nnsVersion = (CHOOSE v \in Version : TRUE) /\ unassignedVersion = nnsVersion
    /\ images = [v \in Candidate |-> [c \in Cdn |-> Missing]] /\ rules = <<>> /\ submitted = {}
    /\ binary = "none" /\ tasks = [o \in Operator |-> {}] /\ runs = 0

-----------------------------------------------------------------------------
Init ==
    /\ part \in {"change", "schedule", "hostos", "tool"}
    /\ IF part = "change" THEN Plans!Init ELSE NothingToChange
    /\ IF part = "schedule" THEN Schedules!Init ELSE NothingToSchedule
    /\ IF part = "hostos" THEN Hostos!Init ELSE NothingToRollOut
    /\ IF part = "tool" THEN Tool!Init ELSE NothingToPropose

Next ==
    /\ UNCHANGED part
    /\ \/ part = "change" /\ Plans!Next /\ UNCHANGED <<scheduleVars, hostosVars, toolVars>>
       \/ part = "schedule" /\ Schedules!Next /\ UNCHANGED <<changeVars, hostosVars, toolVars>>
       \/ part = "hostos" /\ Hostos!Next /\ UNCHANGED <<changeVars, scheduleVars, toolVars>>
       \/ part = "tool" /\ Tool!Next /\ UNCHANGED <<changeVars, scheduleVars, hostosVars>>

Spec ==
    /\ Init /\ [][Next]_<<part, changeVars, scheduleVars, hostosVars, toolVars>>
    /\ Hostos!Fairness

-----------------------------------------------------------------------------
(* What the theorems assume of the constants. *)

\* A node that is available is in no subnet (registry.rs:851).
TopologiesKnown ==
    /\ IsFiniteSet(Node) /\ IsFiniteSet(Subnet)
    /\ \A t \in Topologies : /\ t.members \in [Subnet -> SUBSET Node] /\ t.available \subseteq Node
                             /\ \A s \in Subnet : t.members[s] \cap t.available = {}
    /\ MaxCount \in Nat /\ NoLimit \notin Nat

\* The features are a list, with the two of the penalties among them, and the
\* coefficients that a request asks for are whole numbers.
FeaturesKnown ==
    /\ Variants \in Seq(Plans!Feature) /\ NodeProvider \in Plans!Feature /\ Country \in Plans!Feature
    /\ \A m \in Mins : m # NoMin =>
         m.average \in Int /\ \A f \in Plans!Feature \cap DOMAIN m.coefficients : m.coefficients[f] \in Int

\* The subnets are a list without repetition, with the NNS in it, and a release
\* is ready on some day.
ScheduleKnown ==
    /\ Scheduled \in Seq(Schedules!EverySubnet) /\ NnsSubnet \in Schedules!EverySubnet
    /\ \A i, j \in DOMAIN Scheduled : i # j => Scheduled[i] # Scheduled[j]
    /\ MaxStageSize \in Nat \ {0} /\ Hours \in Nat
    /\ LastDay \in Nat /\ FirstDay \subseteq 0..LastDay

\* A node starts in a subnet or in none.
HomesKnown == /\ Nodes \in Seq(Hostos!EveryNode)
              /\ HomeOf \in [Hostos!EveryNode -> RolloutSubnet \cup {NoSubnet}]
              /\ NoSubnet \notin RolloutSubnet /\ Hostos!Removed \notin RolloutSubnet \cup {NoSubnet}

\* A command rolls out or removes, and a percentage is a number.
RequestsKnown == \A q \in Requests : /\ q.kind \in {"hostos", "remove"}
                                     /\ q.kind = "hostos" /\ q.percent => q.number \in Nat

\* The bounds are numbers.
BoundsKnown == MaxFailures \in Nat /\ MaxRuns \in Nat

\* The images are on two servers.
TwoServers == IsFiniteSet(Cdn) /\ Cardinality(Cdn) = 2

\* The rules are a list, whatever they say, and an edit is of finitely many positions.
IsList(list) == list \in Seq({list[i] : i \in DOMAIN list})

EditsKnown == /\ IsList(Rules)
              /\ \A edited \in Edits : \E n \in Nat : DOMAIN edited \subseteq 0..n

-----------------------------------------------------------------------------
\* The type invariant of the part at hand.
TypeOK == /\ part = "change" => Plans!TypeOK
          /\ part = "schedule" => Schedules!TypeOK
          /\ part = "hostos" => Hostos!TypeOK
          /\ part = "tool" => Tool!TypeOK

\* The changes of subnets (network.rs, nakamoto/mod.rs), the days and stages of a
\* release (release.rs), the groups of a HostOS rollout (hostos_rollout.rs) and the
\* proposals of the tool (runner.rs, ic_admin.rs) keep what their modules state.
ChangesAreSound   == part = "change" => Plans!ChangesAreSound
ScheduleIsSound   == part = "schedule" => Schedules!ScheduleIsSound
GroupsAreSound    == part = "hostos" => Hostos!GroupsAreSound
ProposalsAreSound == part = "tool" => Tool!ProposalsAreSound

\* Repeated commands bring every node of the groups to the version.
GroupCatchesUp    == part = "hostos" => Hostos!GroupCatchesUp
=============================================================================
