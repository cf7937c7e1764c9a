------------------------------- MODULE MCPlanning -------------------------------
(* An instance of the parts that plan changes of the network. *)
EXTENDS Planning, TLC

CONSTANTS a1, a2, a3, a4, b1, b2, b3, x1, x2, x3, subnetA, subnetB

-----------------------------------------------------------------------------
(* Two subnets of four and three nodes and three spare ones. *)

N(np, country, continent) == "NP" :> np @@ "country" :> country @@ "continent" :> continent

Features ==
    a1 :> N("p1", "c1", "Europe") @@ a2 :> N("p1", "c2", "Europe") @@ a3 :> N("p2", "c1", "Europe") @@
    a4 :> N("p2", "c3", "Asia")   @@ b1 :> N("p3", "c1", "Europe") @@ b2 :> N("p1", "c3", "Asia") @@
    b3 :> N("p2", "c2", "Europe") @@ x1 :> N("p3", "c2", "Europe") @@ x2 :> N("p4", "c3", "Asia") @@
    x3 :> N("p1", "c1", "Europe")

Order == <<"NP", "country", "continent">>

World == {[members |-> subnetA :> {a1, a2, a3, a4} @@ subnetB :> {b1, b2, b3}, available |-> {x1, x2, x3}],
          [members |-> subnetA :> {a1, a2, a3} @@ subnetB :> {b1, b2, b3}, available |-> {x2, x3}]}

SomeFilters == {[only |-> {}, include |-> {}, exclude |-> {}],
                [only |-> {x1}, include |-> {x2, a2}, exclude |-> {}],
                [only |-> {x1, x3}, include |-> {}, exclude |-> {x2}]}

SomeReports == {{}, {a2}, {a1, a3, b3}, {a1, a2, a4, b1, b2}}

SomeMins == {NoMin, [coefficients |-> "NP" :> 2 @@ "country" :> 3, average |-> 2]}

-----------------------------------------------------------------------------
(* Seven subnets, the last of which is the NNS; a release of a Monday, a     *)
(* Wednesday, a Friday or a Saturday, followed for ten days.                 *)

SevenSubnets == [i \in 1..7 |-> i]

-----------------------------------------------------------------------------
(* Three nodes, two of which are in a subnet; the third is DFINITY's. *)

ThreeNodes == <<a1, a2, x1>>

Homes == a1 :> subnetA @@ a2 :> subnetA @@ x1 :> NewSubnet

HostosRequests ==
    {[kind |-> "hostos", assignment |-> "All", owner |-> "All", percent |-> FALSE, number |-> 1],
     [kind |-> "hostos", assignment |-> "Assigned", owner |-> "Others", percent |-> TRUE, number |-> 50],
     [kind |-> "hostos", assignment |-> "Unassigned", owner |-> "Dfinity", percent |-> TRUE, number |-> 50],
     [kind |-> "remove", degraded |-> TRUE]}

-----------------------------------------------------------------------------
(* Two operators, of whom one runs with --yes, and two commands. *)

Kinds == {{"membership", "plain"}, {"elect"}, {"firewall", "unassigned"}}

TwoRules == <<"r1", "r2">>

EditedRules == {1 :> "r2", 0 :> "r2" @@ 1 :> "r1", 0 :> "r1" @@ 1 :> "r2" @@ 2 :> "r1",
                1 :> "r1", 0 :> "r1", 1 :> "r1" @@ 2 :> "r1", 0 :> "r2" @@ 2 :> "r1", <<>>}

-----------------------------------------------------------------------------
ASSUME PlanningAssumption == TopologiesKnown /\ FeaturesKnown /\ ScheduleKnown /\ HomesKnown /\ RequestsKnown
                             /\ BoundsKnown /\ TwoServers

\* So EditsKnown holds, which speaks of every number.
ASSUME EditsAssumption == IsList(Rules) /\ \A edited \in Edits : DOMAIN edited \subseteq 0..2
=============================================================================
