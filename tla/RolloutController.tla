-------------------------- MODULE RolloutController --------------------------
(***************************************************************************)
(* The rollout controller (rollout-controller/src): a stateless loop that  *)
(* takes a snapshot of the registry, fetches the release index, asks the   *)
(* metrics how long the subnets have run what they run, lists the          *)
(* proposals and then places the proposals of the first stage that is not  *)
(* over.  Everything it read may have changed when it acts.                *)
(*                                                                         *)
(* Abstractions.  Bake times are over or not.  A skipped day is a pause of *)
(* the index.  A proposal is the unit it upgrades and the version.         *)
(***************************************************************************)
EXTENDS Naturals, Sequences, FiniteSetsExt

CONSTANTS
    Subnet,          \* the subnets
    Unassigned,      \* the unassigned nodes, upgraded together
    Version,         \* GuestOS versions
    Releases,        \* releases from the oldest on: sequences of [version, subnets]
    Stages,          \* sequence of [subnets, unassigned, nextWeek, bake]
    FirstPublished,  \* the releases in the index at the start
    FirstElected,    \* the versions elected at the start
    OperatorStarts,  \* whether someone else upgrades subnets, too
    ReplicasLag,     \* whether replicas run a version later than the registry has it
    MayFail,         \* whether queries, pulls and ic-admin may fail
    MayReject,       \* whether proposals are rejected, or fail once they are adopted
    MayPause,        \* whether the index is paused
    MayForget,       \* whether a version can be gone for longer than the metrics remember
    MaxOpen          \* bound on open proposals of one unit and version

Unit     == Subnet \cup {Unassigned}
Proposal == Unit \X Version
Release  == DOMAIN Releases
VersionsIn == [r \in Release |-> {Releases[r][i].version : i \in DOMAIN Releases[r]}]

ASSUME UnitAssumption    == Unassigned \notin Subnet
ASSUME ReleaseAssumption == /\ Releases \in Seq(Seq([version : Version, subnets : SUBSET Subnet]))
                            /\ Releases # <<>>
                            /\ \A r \in Release : Releases[r] # <<>>
ASSUME StageAssumption   == Stages \in Seq([subnets : Seq(Subnet), unassigned : BOOLEAN,
                                           nextWeek : BOOLEAN, bake : BOOLEAN])
ASSUME PublishAssumption == FirstPublished \in Release /\ FirstElected \subseteq Version
ASSUME SwitchAssumption  == /\ {OperatorStarts, ReplicasLag, MayFail, MayReject, MayPause, MayForget} \subseteq BOOLEAN
                            /\ MaxOpen \in Nat

VARIABLES
    version,   \* Unit -> the version in the registry
    replicas,  \* Subnet -> the version its replicas report
    bake,      \* Subnet -> how long ago the metrics saw its last old version
    age,       \* Release -> since when the metrics have seen it run
    index,     \* the release index: number of releases, and whether it is paused
    elected,   \* versions elected in the registry
    open,      \* Proposal -> how many open ones there are
    failed,    \* proposals that were adopted and whose execution failed
    checkout,  \* the controller's copy of the index
    pc,        \* where its loop is
    seen,      \* what this iteration has read so far
    todo       \* PlaceProposal actions left to execute: position in the stage -> Proposal

external == <<version, replicas, bake, age, index, elected, open, failed>>
vars     == <<external, checkout, pc, seen, todo>>

-----------------------------------------------------------------------------
Bake  == {"unknown", "young", "baked"}
Age   == {"none", "thisWeek", "weekPassed"}
Index == [published : Release, pause : BOOLEAN]
PC    == {"sync", "fetch", "bake", "start", "subnets", "unassigned", "execute", "stopped", "dead"}
Seen  == [version : [Unit -> Version], elected : SUBSET Version, bake : [Subnet -> Bake],
          desired : Release, listed : SUBSET Proposal]

\* The version of a release for a unit: find_or_first.
VersionFor == [r \in Release |-> [u \in Unit |->
    LET named == {i \in DOMAIN Releases[r] : u \in Releases[r][i].subnets}
    IN  Releases[r][IF named = {} THEN 1 ELSE Min(named)].version]]

NothingSeen == [version |-> [u \in Unit |-> VersionFor[1][u]], elected |-> {},
                bake |-> [s \in Subnet |-> "unknown"], desired |-> 1, listed |-> {}]

\* The type invariant.
TypeOK == /\ version \in [Unit -> Version] /\ replicas \in [Subnet -> Version]
          /\ bake \in [Subnet -> Bake] /\ age \in [Release -> Age]
          /\ index \in Index /\ checkout \in Index
          /\ elected \subseteq Version /\ failed \subseteq Proposal
          /\ open \in [Proposal -> Nat]
          /\ pc \in PC /\ seen \in Seen
          /\ DOMAIN todo \subseteq Nat /\ todo \in [DOMAIN todo -> Proposal]

Init == /\ version = [u \in Unit |-> VersionFor[1][u]]
        /\ replicas = [s \in Subnet |-> VersionFor[1][s]]
        /\ bake = [s \in Subnet |-> "baked"]
        /\ age = [r \in Release |-> IF r = 1 THEN "weekPassed" ELSE "none"]
        /\ index = [published |-> FirstPublished, pause |-> FALSE]
        /\ elected = FirstElected
        /\ open = [p \in Proposal |-> 0]
        /\ failed = {}
        /\ checkout = index
        /\ pc = "sync"
        /\ seen = NothingSeen
        /\ todo = <<>>

-----------------------------------------------------------------------------
(* desired_rollout_release_version, over what this iteration has read.      *)

ReleasesWith(v) == {r \in 1..checkout.published : v \in VersionsIn[r]}
Active == {Max(ReleasesWith(seen.version[s])) : s \in Subnet}

\* A subnet runs a version that the index does not have, or no release is
\* active, or more than two are.
Panics == \/ \E s \in Subnet : ReleasesWith(seen.version[s]) = {}
          \/ Cardinality(Active) \notin {1, 2}

\* A deviation the properties must notice (so are the definitions below that
\* carry the name of the one they stand in for): the oldest active release.
DesiredOldest == Min(Active)

\* While one release is active the next one is desired, if there is one.
DesiredRelease == IF Cardinality(Active) = 1 /\ Max(Active) < checkout.published
                  THEN Max(Active) + 1
                  ELSE Max(Active)

Desired(u) == VersionFor[seen.desired][u]

-----------------------------------------------------------------------------
(* check_stage and check_stages.                                            *)

UnitsOf(stage) == IF stage.unassigned THEN <<Unassigned>> ELSE stage.subnets

UpgradedAtOnce(u, i) == "noop"

Upgraded(u, i) ==
    CASE u = Unassigned                            -> "noop"
      [] seen.bake[u] = "unknown"                  -> "error"
      [] seen.bake[u] = "young" /\ Stages[i].bake  -> "baking"
      [] OTHER                                     -> "noop"

\* What check_stage says about one unit of stage i.
Verdict(u, i, listed) ==
    IF seen.version[u] = Desired(u)            THEN Upgraded(u, i)
    ELSE IF <<u, Desired(u)>> \in listed       THEN "pending"
    ELSE "place"

Verdicts(i, listed) == {Verdict(u, i, listed) : u \in Range(UnitsOf(Stages[i]))}

WaitsForStart(i) == Stages[i].nextWeek /\ age[seen.desired] = "none"

Waits(i) == Stages[i].nextWeek /\ age[seen.desired] # "weekPassed"

\* A stage is over when nothing is left to place, or when it only waits.
UnfinishedToPlace(listed)  == {i \in DOMAIN Stages : Waits(i) \/ "place" \in Verdicts(i, listed)}

\* The stages that are not over: the first of them decides what is done.
Unfinished(listed) == {i \in DOMAIN Stages : Waits(i) \/ Verdicts(i, listed) \ {"noop"} # {}}

PlacesOf(i, listed) ==
    {k \in DOMAIN UnitsOf(Stages[i]) : Verdict(UnitsOf(Stages[i])[k], i, listed) = "place"}

ToPlaceSwapped(i, listed) ==
    [k \in PlacesOf(i, listed) |-> LET u == UnitsOf(Stages[i])[k] IN <<Desired(u), u>>]

ToPlace(i, listed) ==
    [k \in PlacesOf(i, listed) |-> LET u == UnitsOf(Stages[i])[k] IN <<u, Desired(u)>>]

-----------------------------------------------------------------------------
(* One iteration of the loop in main().                                     *)

\* sync_wrap and get_elected_guestos_versions: one snapshot of the registry.
Sync == /\ pc = "sync"
        /\ pc' = "fetch"
        /\ seen' = [NothingSeen EXCEPT !.version = version, !.elected = elected]
        /\ UNCHANGED <<external, checkout, todo>>

\* fetch(): the exit code of git pull is not looked at, so the old copy of the
\* index may be read again.
Fetch == /\ pc = "fetch"
         /\ pc' = "bake"
         /\ checkout' \in IF MayFail THEN {index, checkout} ELSE {index}
         /\ UNCHANGED <<external, seen, todo>>

\* should_proceed, which makes calculate_progress return no actions and main()
\* leave the loop; then the query for the bake times.
QueryBake == /\ pc = "bake"
             /\ IF checkout.pause
                THEN pc' = "stopped" /\ seen' = NothingSeen
                ELSE pc' = "start" /\ seen' = [seen EXCEPT !.bake = bake]
             /\ UNCHANGED <<external, checkout, todo>>

\* The desired release, and since when it runs: an error if it never did.
QueryStart == /\ pc = "start"
              /\ IF Panics THEN pc' = "dead" /\ seen' = NothingSeen
                 ELSE IF age[DesiredRelease] = "none" THEN pc' = "sync" /\ seen' = NothingSeen
                 ELSE pc' = "subnets" /\ seen' = [seen EXCEPT !.desired = DesiredRelease]
              /\ UNCHANGED <<external, checkout, todo>>

ListedFailed(units) == {p \in units \X Version : p \in failed}

\* Proposals of every status are fetched; the listing drops the rejected ones and
\* its readers the executed ones: the open ones are left, and those that failed.
Listed(units) == {p \in units \X Version : open[p] > 0 \/ p \in failed}

ListSubnetProposals ==
    /\ pc = "subnets"
    /\ pc' = "unassigned"
    /\ seen' = [seen EXCEPT !.listed = Listed(Subnet)]
    /\ UNCHANGED <<external, checkout, todo>>

\* The second listing; check_stages; and main() looks at the actions: none end
\* the program, an error or actions without a proposal start the loop over.
Stop == pc' = "stopped" /\ todo' = <<>> /\ seen' = NothingSeen

\* Ends the program whenever the first stage that is not over has nothing to place.
ActOnPlacesOnly(i, listed) ==
    IF DOMAIN ToPlace(i, listed) = {} THEN Stop
    ELSE /\ todo' = ToPlace(i, listed)
         /\ pc' = "execute"
         /\ seen' = [NothingSeen EXCEPT !.elected = seen.elected]

ActOn(i, listed) ==
    IF Waits(i) /\ Stages[i].subnets = <<>> THEN Stop
    ELSE LET places == IF Waits(i) \/ "error" \in Verdicts(i, listed)
                       THEN <<>> ELSE ToPlace(i, listed)
         IN  /\ todo' = places
             /\ pc' = IF DOMAIN places = {} THEN "sync" ELSE "execute"
             /\ seen' = IF DOMAIN places = {} THEN NothingSeen
                        ELSE [NothingSeen EXCEPT !.elected = seen.elected]

CheckStages ==
    /\ pc = "unassigned"
    /\ LET listed     == seen.listed \cup Listed({Unassigned})
           unfinished == Unfinished(listed)
       IN  \/ unfinished = {} /\ Stop
           \/ \E i \in unfinished : (\A j \in unfinished : i <= j) /\ ActOn(i, listed)
    /\ UNCHANGED <<external, checkout>>

-----------------------------------------------------------------------------
(* ActionExecutor::execute: the first error ends the iteration.             *)

Leave(rest) == /\ todo' = rest
               /\ pc' = IF DOMAIN rest = {} THEN "sync" ELSE "execute"
               /\ seen' = IF DOMAIN rest = {} THEN NothingSeen ELSE seen

\* The actions are executed in the order of the stage.
Current == todo[Min(DOMAIN todo)]
Rest    == [k \in DOMAIN todo \ {Min(DOMAIN todo)} |-> todo[k]]

IsElected == Current[2] \in seen.elected

Submit(p) == open[p] < MaxOpen /\ open' = [open EXCEPT ![p] = @ + 1]

restOfWorld == <<version, replicas, bake, age, index, elected, failed>>

Place == /\ pc = "execute"
         /\ IsElected
         /\ Submit(Current)
         /\ Leave(Rest)
         /\ UNCHANGED <<restOfWorld, checkout>>

\* ic-admin submits the proposal but ends with an error, or the process dies.
PlaceUnnoticed == /\ MayFail
                  /\ pc = "execute"
                  /\ IsElected
                  /\ Submit(Current)
                  /\ Leave(<<>>)
                  /\ UNCHANGED <<restOfWorld, checkout>>

\* The version is not elected, or ic-admin fails.
PlaceFails == /\ pc = "execute"
              /\ MayFail \/ ~IsElected
              /\ Leave(<<>>)
              /\ UNCHANGED <<external, checkout>>

\* A query or a fetch fails, or the process is restarted.
StartOver == /\ \/ pc = "dead"
                \/ MayFail /\ pc \in {"fetch", "bake", "start", "subnets", "unassigned"}
             /\ Leave(<<>>)
             /\ UNCHANGED <<external, checkout>>

ControllerStep == \/ Sync \/ Fetch \/ QueryBake \/ QueryStart \/ ListSubnetProposals
                  \/ CheckStages \/ Place \/ PlaceUnnoticed \/ PlaceFails \/ StartOver

-----------------------------------------------------------------------------
(* The rest of the world, as the controller's code assumes it: governance,  *)
(* the subnets and their metrics, and the people who edit the index.        *)

controller == <<checkout, pc, seen, todo>>

\* The first time a version of a release is seen to run.
Started(v) == [r \in Release |-> IF v \in VersionsIn[r] /\ age[r] = "none" THEN "thisWeek" ELSE age[r]]

\* The replicas of a subnet run the version of the registry, the old one is gone.
Switch(s, v) == /\ replicas' = [replicas EXCEPT ![s] = v]
                /\ bake' = IF replicas[s] = v THEN bake ELSE [bake EXCEPT ![s] = "young"]
                /\ age' = Started(v)

Deploy(u, v) == /\ version' = [version EXCEPT ![u] = v]
                /\ IF u = Unassigned \/ ReplicasLag
                   THEN UNCHANGED <<replicas, bake, age>>
                   ELSE Switch(u, v)

RunNewVersion(s) == /\ replicas[s] # version[s]
                    /\ Switch(s, version[s])
                    /\ UNCHANGED <<version, index, elected, open, failed, controller>>

ExecuteProposal(p) == /\ open[p] > 0
                      /\ open' = [open EXCEPT ![p] = @ - 1]
                      /\ Deploy(p[1], p[2])
                      /\ UNCHANGED <<index, elected, failed, controller>>

RejectProposal(p) == /\ MayReject
                     /\ open[p] > 0
                     /\ open' = [open EXCEPT ![p] = @ - 1]
                     /\ UNCHANGED <<restOfWorld, controller>>

FailProposal(p) == /\ MayReject
                   /\ open[p] > 0
                   /\ open' = [open EXCEPT ![p] = @ - 1]
                   /\ failed' = failed \cup {p}
                   /\ UNCHANGED <<version, replicas, bake, age, index, elected, controller>>

\* Someone else upgrades a subnet to a newer release than it is on.
UpgradeByOperator(s, v) ==
    /\ OperatorStarts
    /\ v \in elected
    /\ \E r \in 1..index.published : v \in VersionsIn[r] /\ \A q \in r..Len(Releases) : version[s] \notin VersionsIn[q]
    /\ Deploy(s, v)
    /\ UNCHANGED <<index, elected, open, failed, controller>>

BakeTimePasses(s) == /\ bake[s] = "young"
                     /\ bake' = [bake EXCEPT ![s] = "baked"]
                     /\ UNCHANGED <<version, replicas, age, index, elected, open, failed, controller>>

Forget(s) == /\ MayForget
             /\ bake[s] = "baked"
             /\ bake' = [bake EXCEPT ![s] = "unknown"]
             /\ UNCHANGED <<version, replicas, age, index, elected, open, failed, controller>>

WeekPasses(r) == /\ age[r] = "thisWeek"
                 /\ age' = [age EXCEPT ![r] = "weekPassed"]
                 /\ UNCHANGED <<version, replicas, bake, index, elected, open, failed, controller>>

Elect(v) == /\ \E r \in 1..index.published : v \in VersionsIn[r]
            /\ v \notin elected
            /\ elected' = elected \cup {v}
            /\ UNCHANGED <<version, replicas, bake, age, index, open, failed, controller>>

EditIndex == /\ \/ index.published < Len(Releases) /\ index' = [index EXCEPT !.published = @ + 1]
                \/ MayPause /\ index' = [index EXCEPT !.pause = ~@]
             /\ UNCHANGED <<version, replicas, bake, age, elected, open, failed, controller>>

WorldStep == \/ \E p \in Proposal : ExecuteProposal(p) \/ RejectProposal(p) \/ FailProposal(p)
             \/ \E s \in Subnet : RunNewVersion(s) \/ BakeTimePasses(s) \/ Forget(s)
             \/ \E s \in Subnet, v \in Version : UpgradeByOperator(s, v)
             \/ \E r \in Release : WeekPasses(r)
             \/ \E v \in Version : Elect(v)
             \/ EditIndex

Next == ControllerStep \/ WorldStep

Spec == Init /\ [][Next]_vars

(***************************************************************************)
(* Fairness.  The loop runs on, proposals are executed, elected versions   *)
(* and new replicas come, and time passes.  Nobody promises that the       *)
(* operator, the editors of the index or governance does anything else.    *)
(* It is to be used with MayFail = FALSE: once the services the controller *)
(* calls have recovered.                                                   *)
(***************************************************************************)
Fairness == /\ WF_vars(ControllerStep)
            /\ WF_vars(\E p \in Proposal : ExecuteProposal(p))
            /\ WF_vars(\E s \in Subnet : RunNewVersion(s))
            /\ WF_vars(\E s \in Subnet : BakeTimePasses(s))
            /\ WF_vars(\E r \in Release : WeekPasses(r))
            /\ WF_vars(\E v \in Version : Elect(v))

FairSpec == Spec /\ Fairness

-----------------------------------------------------------------------------
(* Properties. *)

Newest == Len(Releases)
UnitsOfStage(i) == Range(UnitsOf(Stages[i]))
ReleaseOfProposal(p) == Max({r \in Release : p[2] \in VersionsIn[r]})
Placed(p) == open'[p] > open[p]

\* However queries fail, ic-admin reports errors for proposals it submitted and
\* the process restarts, there is never a second open proposal for the same
\* upgrade (get_open_proposal_for_subnet, stage_checks.rs:183).
OneOpenProposal == \A p \in Proposal : open[p] <= 1

\* No stage that waits for the next week, and none behind it, gets a proposal in
\* the week in which its release was started (stage_checks.rs:34).
WeekRespected ==
    [][\A p \in Proposal : Placed(p) =>
         \A j \in DOMAIN Stages :
           p[1] \in UnitsOfStage(j) /\ (\E i \in 1..j : Stages[i].nextWeek)
             => age[ReleaseOfProposal(p)] = "weekPassed"]_vars

\* A proposal is placed only for a unit that is not on its version ("If subnet
\* is not on desired version and there is no open proposal submit it",
\* stage_checks.rs:194).  Fails: the proposals are listed after the registry was
\* read, what is executed in between is proposed again (calculation/mod.rs:116).
PlacedOnlyIfNeeded == [][\A p \in Proposal : Placed(p) => version[p[1]] # p[2]]_vars

\* When a proposal of a stage is placed, the subnets of the stages before it have
\* run their new version for the bake time (stage_checks.rs:154).
BakedBeforeNextStage ==
    [][\A p \in Proposal : Placed(p) =>
         \A j \in DOMAIN Stages : p[1] \in UnitsOfStage(j) =>
           \A i \in 1..(j - 1) : \A s \in UnitsOfStage(i) \cap Subnet :
             /\ replicas[s] = VersionFor[ReleaseOfProposal(p)][s]
             /\ Stages[i].bake => bake[s] # "young"]_vars

\* A unit has the newest release of the index the program read, or is further.
Reached(u) == \/ version[u] = VersionFor[checkout.published][u]
              \/ \E r \in (checkout.published + 1)..Newest : version[u] \in VersionsIn[r]

\* Where "Rollout completed" may be said: behind the last stage, and before a stage
\* that waits and has no subnets, which gives no actions either.
MayEndBefore(n) == n > Len(Stages) \/ (Waits(n) /\ Stages[n].subnets = <<>>)

\* The program ends with "Rollout completed" (main.rs:116) only when the index it read
\* says pause, or when every unit of every stage up to such a place is upgraded:
\* whatever is pending, rejected, failed, baking, stale or lagging is no end.
StopsOnlyWhenCompleted ==
    [][pc # "stopped" /\ pc' = "stopped" =>
         \/ checkout.pause
         \/ \E n \in 1..(Len(Stages) + 1) :
              MayEndBefore(n) /\ \A i \in 1..(n - 1) : \A u \in UnitsOfStage(i) : Reached(u)]_vars

\* A release that was started reaches every unit of every stage.
RolloutCompletes ==
    age[Newest] # "none" ~> \A i \in DOMAIN Stages : \A u \in UnitsOfStage(i) :
                              version[u] = VersionFor[Newest][u]

\* An upgrade whose proposal failed is proposed again: "If subnet is not on desired
\* version and there is no open proposal submit it" (stage_checks.rs:194).  A rejected
\* proposal is (lib.rs:39); one that failed is listed for ever.
MissingIsProposed ==
    \A s \in Subnet :
      <<s, VersionFor[Newest][s]>> \in failed ~> \/ open[<<s, VersionFor[Newest][s]>>] > 0
                                                \/ version[s] = VersionFor[Newest][s]

\* The newest release is rolled out as StagedRollout says.
Status == [u \in Unit |-> IF version[u] = VersionFor[Newest][u] THEN "done"
                          ELSE IF open[<<u, VersionFor[Newest][u]>>] > 0 THEN "proposed"
                          ELSE "behind"]

Staged == INSTANCE StagedRollout WITH
             stages <- [i \in DOMAIN Stages |-> UnitsOfStage(i)], status <- Status
RolloutSpec == Staged!Spec
=============================================================================
