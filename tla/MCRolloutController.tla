------------------------- MODULE MCRolloutController -------------------------
(* Values for the constants of RolloutController. *)
EXTENDS RolloutController

CONSTANTS s1, s2, s3, a, b, feature

V(v, subnets) == [version |-> v, subnets |-> subnets]

\* Two releases; the newer one has a feature build for one subnet.
TwoReleases == << <<V(a, {})>>, <<V(b, {}), V(feature, {s2})>> >>

Stage(subnets, unassigned, nextWeek, bakes) ==
    [subnets |-> subnets, unassigned |-> unassigned, nextWeek |-> nextWeek, bake |-> bakes]

\* The shape of the stages in the tests of stage_checks.rs: subnets, then the
\* unassigned nodes, then subnets that wait for the next week.
ThreeStages == << Stage(<<s1>>, FALSE, FALSE, TRUE), Stage(<<>>, TRUE, FALSE, FALSE),
                  Stage(<<s2>>, FALSE, TRUE, TRUE) >>

\* The unassigned nodes wait for the next week, and with them the stage behind them.
WaitingStages == << Stage(<<s1>>, FALSE, FALSE, TRUE), Stage(<<>>, TRUE, TRUE, FALSE),
                    Stage(<<s2>>, FALSE, FALSE, TRUE) >>

\* Two subnets in the last stage.
PairStages == << Stage(<<s1>>, FALSE, FALSE, TRUE), Stage(<<s2, s3>>, FALSE, TRUE, FALSE) >>
=============================================================================
