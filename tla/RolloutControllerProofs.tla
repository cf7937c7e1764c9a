----------------------- MODULE RolloutControllerProofs -----------------------
(***************************************************************************)
(* Theorems about RolloutController for any subnets, versions, releases    *)
(* and stages, whatever may fail, be rejected, paused or forgotten.        *)
(***************************************************************************)
EXTENDS RolloutController, LeastAndGreatest

-----------------------------------------------------------------------------
(* Types.  There is something to place exactly while actions are executed.  *)

Busy == pc = "execute" <=> DOMAIN todo # {}

Typed == TypeOK /\ Busy

\* A proposal is rejected, or adopted and not executed.
TurnedDown(p) == RejectProposal(p) \/ FailProposal(p)

\* The two halves of the type invariant.
WorldTyped == /\ version \in [Unit -> Version] /\ replicas \in [Subnet -> Version]
              /\ bake \in [Subnet -> Bake] /\ age \in [Release -> Age]
              /\ index \in Index
              /\ elected \subseteq Version /\ failed \subseteq Proposal
              /\ open \in [Proposal -> Nat]

ControlTyped == /\ checkout \in Index /\ pc \in PC /\ seen \in Seen
                /\ DOMAIN todo \subseteq Nat /\ todo \in [DOMAIN todo -> Proposal]
                /\ Busy

LEMMA Halves == WorldTyped' /\ ControlTyped' => Typed'
  BY DEF Typed, TypeOK, WorldTyped, ControlTyped

LEMMA ElementType ==
    ASSUME NEW S, NEW q \in Seq(S)
    PROVE  /\ Len(q) \in Nat /\ DOMAIN q = 1..Len(q)
           /\ \A i \in DOMAIN q : q[i] \in S
  OBVIOUS

\* A release is a non-empty sequence of versions, each for some subnets.
LEMMA ReleaseType ==
    ASSUME NEW r \in Release
    PROVE  /\ r \in Nat /\ Release = 1..Len(Releases) /\ Len(Releases) \in Nat
           /\ 1 \in Release
           /\ 1 \in DOMAIN Releases[r] /\ DOMAIN Releases[r] \subseteq Nat
           /\ \A i \in DOMAIN Releases[r] : /\ Releases[r][i].version \in Version
                                            /\ Releases[r][i].subnets \subseteq Subnet
<1>1. Release = 1..Len(Releases) /\ Len(Releases) \in Nat /\ 1 \in Release
  BY ReleaseAssumption DEF Release
<1>2. /\ Releases[r] \in Seq([version : Version, subnets : SUBSET Subnet])
      /\ Releases[r] # <<>>
  BY <1>1, ReleaseAssumption DEF Release
<1>3. 1 \in DOMAIN Releases[r] /\ DOMAIN Releases[r] \subseteq Nat
  BY <1>2
<1>4. ASSUME NEW i \in DOMAIN Releases[r]
      PROVE  Releases[r][i].version \in Version /\ Releases[r][i].subnets \subseteq Subnet
  <2>1. Releases[r][i] \in [version : Version, subnets : SUBSET Subnet]
    BY <1>2, ElementType
  <2>. QED
    BY <2>1
<1>. QED
  BY <1>1, <1>3, <1>4

\* The version of a release for a unit is one of the versions of the release.
LEMMA VersionForType ==
    ASSUME NEW r \in Release, NEW u \in Unit
    PROVE  VersionFor[r][u] \in Version /\ VersionFor[r][u] \in VersionsIn[r]
<1>. DEFINE named == {i \in DOMAIN Releases[r] : u \in Releases[r][i].subnets}
            at == IF named = {} THEN 1 ELSE Min(named)
<1>1. named \in SUBSET Nat /\ named \subseteq DOMAIN Releases[r] /\ 1 \in DOMAIN Releases[r]
  BY ReleaseType
<1>2. at \in DOMAIN Releases[r]
  <2>. HIDE DEF named
  <2>1. CASE named = {}
    BY <1>1, <2>1
  <2>2. CASE named # {}
    <3>1. Min(named) \in named
      BY <1>1, <2>2, MinType
    <3>. QED
      BY <1>1, <2>2, <3>1
  <2>. QED
    BY <2>1, <2>2
<1>3. VersionFor[r][u] = Releases[r][at].version
  BY DEF VersionFor
<1>4. VersionsIn[r] = {Releases[r][i].version : i \in DOMAIN Releases[r]}
  BY DEF VersionsIn
<1>. HIDE DEF at
<1>. QED
  BY <1>2, <1>3, <1>4, ReleaseType

LEMMA NothingSeenType == NothingSeen \in Seen
<1>1. 1 \in Release
  BY ReleaseAssumption DEF Release
<1>2. [u \in Unit |-> VersionFor[1][u]] \in [Unit -> Version]
  BY <1>1, VersionForType
<1>. QED
  BY <1>1, <1>2 DEF NothingSeen, Seen, Bake

\* Stages and the units in them.
LEMMA StageType ==
    ASSUME NEW i \in DOMAIN Stages
    PROVE  /\ DOMAIN Stages \subseteq Nat /\ i \in Nat
           /\ 1..i \subseteq DOMAIN Stages
           /\ Stages[i].subnets \in Seq(Subnet)
           /\ DOMAIN UnitsOf(Stages[i]) \subseteq Nat
           /\ \A k \in DOMAIN UnitsOf(Stages[i]) : UnitsOf(Stages[i])[k] \in Unit
<1>1. Stages[i] \in [subnets : Seq(Subnet), unassigned : BOOLEAN, nextWeek : BOOLEAN, bake : BOOLEAN]
  BY StageAssumption, ElementType
<1>2. DOMAIN Stages = 1..Len(Stages) /\ Len(Stages) \in Nat
  BY StageAssumption, ElementType
<1>3. Stages[i].subnets \in Seq(Subnet)
  BY <1>1
<1>4. CASE Stages[i].unassigned
  <2>1. UnitsOf(Stages[i]) = <<Unassigned>>
    BY <1>4 DEF UnitsOf
  <2>. QED
    BY <1>2, <1>3, <2>1 DEF Unit
<1>5. CASE ~Stages[i].unassigned
  <2>1. UnitsOf(Stages[i]) = Stages[i].subnets
    BY <1>5 DEF UnitsOf
  <2>. QED
    BY <1>2, <1>3, <2>1 DEF Unit
<1>. QED
  BY <1>4, <1>5

\* The release that is desired while no more than two are active is one.
LEMMA DesiredReleaseType ==
    ASSUME Typed, ~Panics
    PROVE  DesiredRelease \in Release
<1>1. /\ checkout.published \in Nat /\ checkout.published \in Release
      /\ 1..checkout.published \subseteq Release
  BY ReleaseType DEF Typed, TypeOK, Index
<1>2. \A s \in Subnet : ReleasesWith(seen.version[s]) # {}
  BY DEF Panics
<1>3. ASSUME NEW s \in Subnet
      PROVE  Max(ReleasesWith(seen.version[s])) \in 1..checkout.published
  <2>1. ReleasesWith(seen.version[s]) \in SUBSET (1..checkout.published)
    BY DEF ReleasesWith
  <2>2. Max(ReleasesWith(seen.version[s])) \in ReleasesWith(seen.version[s])
    BY <1>1, <1>2, <2>1, MaxType
  <2>. QED
    BY <2>1, <2>2
<1>4. Active \in SUBSET (1..checkout.published) /\ Active # {}
  <2>1. Active \in SUBSET (1..checkout.published)
    BY <1>3 DEF Active
  <2>2. Cardinality(Active) \in {1, 2}
    BY DEF Panics
  <2>. QED
    BY <2>1, <2>2, FS_EmptySet
<1>5. Max(Active) \in 1..checkout.published
  <2>1. Max(Active) \in Active
    BY <1>1, <1>4, MaxType
  <2>. QED
    BY <1>4, <2>1
<1>6. DesiredRelease \in 1..checkout.published
  <2>1. CASE Cardinality(Active) = 1 /\ Max(Active) < checkout.published
    <3>1. DesiredRelease = Max(Active) + 1
      BY <2>1 DEF DesiredRelease
    <3>. QED
      BY <1>1, <1>5, <2>1, <3>1
  <2>2. CASE ~(Cardinality(Active) = 1 /\ Max(Active) < checkout.published)
    BY <1>5, <2>2 DEF DesiredRelease
  <2>. QED
    BY <2>1, <2>2
<1>. QED
  BY <1>1, <1>6

-----------------------------------------------------------------------------
(* Preservation of the types, action by action. *)

\* What check_stages says of a unit is one of four words, and the proposals of a
\* stage are proposals.
LEMMA ToPlaceType ==
    ASSUME TypeOK, NEW i \in DOMAIN Stages, NEW listed
    PROVE  /\ DOMAIN ToPlace(i, listed) = PlacesOf(i, listed)
           /\ PlacesOf(i, listed) \subseteq Nat
           /\ PlacesOf(i, listed) \subseteq DOMAIN UnitsOf(Stages[i])
           /\ \A k \in PlacesOf(i, listed) :
                /\ ToPlace(i, listed)[k] = <<UnitsOf(Stages[i])[k], Desired(UnitsOf(Stages[i])[k])>>
                /\ ToPlace(i, listed)[k] \in Proposal
           /\ ToPlace(i, listed) \in [PlacesOf(i, listed) -> Proposal]
<1>1. PlacesOf(i, listed) \subseteq DOMAIN UnitsOf(Stages[i])
  BY DEF PlacesOf
<1>2. \A k \in PlacesOf(i, listed) : UnitsOf(Stages[i])[k] \in Unit
  BY <1>1, StageType
<1>3. \A u \in Unit : Desired(u) \in Version
  <2>1. seen.desired \in Release
    BY DEF TypeOK, Seen
  <2>. QED
    BY <2>1, VersionForType DEF Desired
<1>4. \A k \in PlacesOf(i, listed) :
         <<UnitsOf(Stages[i])[k], Desired(UnitsOf(Stages[i])[k])>> \in Proposal
  BY <1>2, <1>3 DEF Proposal
<1>. QED
  BY <1>1, <1>4, StageType DEF ToPlace

LEMMA InitTyped == Init => Typed
<1>. SUFFICES ASSUME Init
              PROVE  Typed
  OBVIOUS
<1>1. 1 \in Release /\ FirstPublished \in Release /\ FirstElected \subseteq Version
  BY ReleaseAssumption, PublishAssumption DEF Release
<1>2. /\ version \in [Unit -> Version]
      /\ replicas \in [Subnet -> Version]
  <2>1. \A u \in Unit : VersionFor[1][u] \in Version
    BY <1>1, VersionForType
  <2>2. \A s \in Subnet : VersionFor[1][s] \in Version
    BY <2>1 DEF Unit
  <2>. QED
    BY <2>1, <2>2 DEF Init
<1>3. bake \in [Subnet -> Bake] /\ age \in [Release -> Age] /\ open \in [Proposal -> Nat]
  BY DEF Init, Bake, Age
<1>4. index \in Index /\ checkout \in Index
  BY <1>1 DEF Init, Index
<1>5. DOMAIN todo = {} /\ todo \in [DOMAIN todo -> Proposal]
  BY DEF Init
<1>6. elected \subseteq Version /\ failed \subseteq Proposal /\ pc = "sync" /\ pc \in PC
  BY <1>1 DEF Init, PC
<1>. QED
  BY <1>2, <1>3, <1>4, <1>5, <1>6, NothingSeenType DEF Init, Typed, TypeOK, Busy

LEMMA LeaveTyped ==
    ASSUME Typed, NEW rest, DOMAIN rest \subseteq Nat, rest \in [DOMAIN rest -> Proposal],
           Leave(rest), UNCHANGED checkout
    PROVE  ControlTyped'
<1>1. pc' \in PC /\ seen' \in Seen /\ todo' = rest
  BY NothingSeenType DEF Leave, PC, Typed, TypeOK
<1>2. Busy'
  BY DEF Leave, Busy
<1>. QED
  BY <1>1, <1>2 DEF ControlTyped, Typed, TypeOK

\* The first position is one, and what is behind it is typed like the whole.
LEMMA TodoType ==
    ASSUME Typed, pc = "execute"
    PROVE  /\ Min(DOMAIN todo) \in DOMAIN todo
           /\ Current \in Proposal
           /\ DOMAIN Rest = DOMAIN todo \ {Min(DOMAIN todo)}
           /\ \A k \in DOMAIN Rest : Rest[k] = todo[k]
           /\ DOMAIN Rest \subseteq Nat /\ Rest \in [DOMAIN Rest -> Proposal]
<1>1. DOMAIN todo # {} /\ DOMAIN todo \in SUBSET Nat
  BY DEF Typed, TypeOK, Busy
<1>2. Min(DOMAIN todo) \in DOMAIN todo
  BY <1>1, MinType
<1>3. \A k \in DOMAIN todo : todo[k] \in Proposal
  BY DEF Typed, TypeOK
<1>. QED
  BY <1>1, <1>2, <1>3 DEF Current, Rest

LEMMA NoTodoType ==
    ASSUME NEW rest, rest = <<>>
    PROVE  DOMAIN rest = {} /\ DOMAIN rest \subseteq Nat /\ rest \in [DOMAIN rest -> Proposal]
  OBVIOUS

LEMMA SubmitTyped ==
    ASSUME Typed, NEW p \in Proposal, Submit(p), UNCHANGED restOfWorld
    PROVE  WorldTyped'
<1>1. open' \in [Proposal -> Nat]
  BY DEF Submit, Typed, TypeOK
<1>. QED
  BY <1>1 DEF WorldTyped, Typed, TypeOK, restOfWorld

LEMMA CheckStagesTyped ==
    ASSUME Typed, CheckStages
    PROVE  ControlTyped'
<1>. DEFINE listed == seen.listed \cup Listed({Unassigned})
<1>0. checkout' \in Index
  BY DEF CheckStages, Typed, TypeOK
<1>1. CASE Stop
  BY <1>0, <1>1, NothingSeenType, NoTodoType DEF Stop, ControlTyped, Busy, PC
<1>2. ASSUME NEW i \in DOMAIN Stages, ~Stop, ActOn(i, listed)
      PROVE  ControlTyped'
  <2>1. PICK places : /\ places = <<>> \/ places = ToPlace(i, listed)
                      /\ todo' = places
                      /\ pc' = IF DOMAIN places = {} THEN "sync" ELSE "execute"
                      /\ seen' = IF DOMAIN places = {} THEN NothingSeen
                                 ELSE [NothingSeen EXCEPT !.elected = seen.elected]
    <3>. HIDE DEF listed
    <3>. QED
      BY <1>2 DEF ActOn
  <2>2. DOMAIN places \subseteq Nat /\ places \in [DOMAIN places -> Proposal]
    <3>1. CASE places = <<>>
      BY <3>1, NoTodoType
    <3>2. CASE places = ToPlace(i, listed)
      <4>. HIDE DEF listed
      <4>1. DOMAIN places = PlacesOf(i, listed)
        BY <3>2, ToPlaceType DEF Typed
      <4>. QED
        BY <3>2, <4>1, ToPlaceType DEF Typed
    <3>. QED
      BY <2>1, <3>1, <3>2
  <2>3. seen' \in Seen
    <3>1. seen.elected \subseteq Version
      BY DEF Typed, TypeOK, Seen
    <3>2. [NothingSeen EXCEPT !.elected = seen.elected] \in Seen
      BY <3>1, NothingSeenType DEF Seen
    <3>. QED
      BY <2>1, <3>2, NothingSeenType
  <2>4. pc' \in PC /\ Busy'
    BY <2>1 DEF PC, Busy
  <2>. QED
    BY <1>0, <2>1, <2>2, <2>3, <2>4 DEF ControlTyped
<1>3. \/ Stop
      \/ \E i \in DOMAIN Stages : ActOn(i, listed)
  BY DEF CheckStages, Unfinished
<1>. QED
  BY <1>1, <1>2, <1>3

LEMMA ControllerStepTyped ==
    ASSUME Typed, ControllerStep
    PROVE  Typed'
<1>1. ASSUME UNCHANGED external
      PROVE  WorldTyped'
  BY <1>1 DEF Typed, TypeOK, external, WorldTyped
<1>2. CASE Sync
  <2>1. [NothingSeen EXCEPT !.version = version, !.elected = elected] \in Seen
    BY NothingSeenType DEF Seen, Typed, TypeOK
  <2>2. ControlTyped'
    BY <1>2, <2>1 DEF Sync, ControlTyped, Typed, TypeOK, Busy, PC
  <2>. QED
    BY <1>1, <1>2, <2>2, Halves DEF Sync
<1>3. CASE Fetch
  <2>1. checkout' \in Index
    BY <1>3 DEF Fetch, Typed, TypeOK
  <2>2. ControlTyped'
    BY <1>3, <2>1 DEF Fetch, ControlTyped, Typed, TypeOK, Busy, PC
  <2>. QED
    BY <1>1, <1>3, <2>2, Halves DEF Fetch
<1>4. CASE QueryBake
  <2>1. [seen EXCEPT !.bake = bake] \in Seen
    BY DEF Seen, Typed, TypeOK
  <2>2. ControlTyped'
    BY <1>4, <2>1, NothingSeenType DEF QueryBake, ControlTyped, Typed, TypeOK, Busy, PC
  <2>. QED
    BY <1>1, <1>4, <2>2, Halves DEF QueryBake
<1>5. CASE QueryStart
  <2>1. ~Panics => [seen EXCEPT !.desired = DesiredRelease] \in Seen
    BY DesiredReleaseType DEF Seen, Typed, TypeOK
  <2>2. ControlTyped'
    BY <1>5, <2>1, NothingSeenType DEF QueryStart, ControlTyped, Typed, TypeOK, Busy, PC
  <2>. QED
    BY <1>1, <1>5, <2>2, Halves DEF QueryStart
<1>6. CASE ListSubnetProposals
  <2>1. Listed(Subnet) \subseteq Proposal
    BY DEF Listed, Proposal, Unit
  <2>2. [seen EXCEPT !.listed = Listed(Subnet)] \in Seen
    BY <2>1 DEF Seen, Typed, TypeOK
  <2>3. ControlTyped'
    BY <1>6, <2>2 DEF ListSubnetProposals, ControlTyped, Typed, TypeOK, Busy, PC
  <2>. QED
    BY <1>1, <1>6, <2>3, Halves DEF ListSubnetProposals
<1>7. CASE CheckStages
  BY <1>1, <1>7, CheckStagesTyped, Halves DEF CheckStages
<1>8. CASE Place
  <2>1. pc = "execute" /\ Submit(Current) /\ Leave(Rest) /\ UNCHANGED <<restOfWorld, checkout>>
    BY <1>8 DEF Place
  <2>2. ControlTyped'
    BY <2>1, TodoType, LeaveTyped
  <2>3. WorldTyped'
    BY <2>1, TodoType, SubmitTyped
  <2>. QED
    BY <2>2, <2>3, Halves
<1>9. CASE PlaceUnnoticed
  <2>1. pc = "execute" /\ Submit(Current) /\ Leave(<<>>) /\ UNCHANGED <<restOfWorld, checkout>>
    BY <1>9 DEF PlaceUnnoticed
  <2>2. ControlTyped'
    BY <2>1, NoTodoType, LeaveTyped
  <2>3. WorldTyped'
    BY <2>1, TodoType, SubmitTyped
  <2>. QED
    BY <2>2, <2>3, Halves
<1>10. CASE PlaceFails \/ StartOver
  <2>1. Leave(<<>>) /\ UNCHANGED <<external, checkout>>
    BY <1>10 DEF PlaceFails, StartOver
  <2>2. ControlTyped'
    BY <2>1, NoTodoType, LeaveTyped
  <2>. QED
    BY <1>1, <2>1, <2>2, Halves
<1>. QED
  BY <1>2, <1>3, <1>4, <1>5, <1>6, <1>7, <1>8, <1>9, <1>10 DEF ControllerStep

\* The rest of the world.
LEMMA SwitchTyped ==
    ASSUME Typed, NEW s \in Subnet, NEW v \in Version, Switch(s, v)
    PROVE  replicas' \in [Subnet -> Version] /\ bake' \in [Subnet -> Bake] /\ age' \in [Release -> Age]
  BY DEF Switch, Started, Typed, TypeOK, Bake, Age

LEMMA DeployTyped ==
    ASSUME Typed, NEW u \in Unit, NEW v \in Version, Deploy(u, v)
    PROVE  /\ version' \in [Unit -> Version] /\ replicas' \in [Subnet -> Version]
           /\ bake' \in [Subnet -> Bake] /\ age' \in [Release -> Age]
<1>1. version' \in [Unit -> Version]
  BY DEF Deploy, Typed, TypeOK
<1>2. CASE u = Unassigned \/ ReplicasLag
  BY <1>1, <1>2 DEF Deploy, Typed, TypeOK
<1>3. CASE ~(u = Unassigned \/ ReplicasLag)
  <2>1. u \in Subnet /\ Switch(u, v)
    BY <1>3 DEF Unit, Deploy
  <2>. QED
    BY <1>1, <2>1, SwitchTyped
<1>. QED
  BY <1>2, <1>3

LEMMA WorldStepTyped ==
    ASSUME Typed, WorldStep
    PROVE  Typed'
<1>1. ASSUME UNCHANGED controller
      PROVE  ControlTyped'
  BY <1>1 DEF controller, ControlTyped, Typed, TypeOK, Busy
<1>2. ASSUME NEW p \in Proposal, ExecuteProposal(p)
      PROVE  Typed'
  <2>1. p[1] \in Unit /\ p[2] \in Version
    BY DEF Proposal
  <2>2. open' \in [Proposal -> Nat]
    BY <1>2 DEF ExecuteProposal, Typed, TypeOK
  <2>3. Deploy(p[1], p[2]) /\ UNCHANGED <<index, elected, failed, controller>>
    BY <1>2 DEF ExecuteProposal
  <2>4. WorldTyped'
    BY <2>1, <2>2, <2>3, DeployTyped DEF WorldTyped, Typed, TypeOK
  <2>. QED
    BY <1>1, <2>3, <2>4, Halves
<1>3. ASSUME NEW p \in Proposal, TurnedDown(p)
      PROVE  Typed'
  <2>1. open' \in [Proposal -> Nat] /\ failed' \subseteq Proposal
    BY <1>3 DEF TurnedDown, RejectProposal, FailProposal, restOfWorld, Typed, TypeOK
  <2>2. WorldTyped'
    BY <1>3, <2>1 DEF TurnedDown, RejectProposal, FailProposal, restOfWorld, WorldTyped, Typed, TypeOK
  <2>. QED
    BY <1>1, <1>3, <2>2, Halves DEF TurnedDown, RejectProposal, FailProposal, restOfWorld
<1>4. ASSUME NEW s \in Subnet, RunNewVersion(s)
      PROVE  Typed'
  <2>1. version[s] \in Version
    BY DEF Typed, TypeOK, Unit
  <2>2. WorldTyped'
    BY <1>4, <2>1, SwitchTyped DEF RunNewVersion, WorldTyped, Typed, TypeOK
  <2>. QED
    BY <1>1, <1>4, <2>2, Halves DEF RunNewVersion
<1>5. ASSUME NEW s \in Subnet, BakeTimePasses(s) \/ Forget(s)
      PROVE  Typed'
  <2>1. WorldTyped'
    BY <1>5 DEF BakeTimePasses, Forget, WorldTyped, Typed, TypeOK, Bake
  <2>. QED
    BY <1>1, <1>5, <2>1, Halves DEF BakeTimePasses, Forget
<1>6. ASSUME NEW s \in Subnet, NEW v \in Version, UpgradeByOperator(s, v)
      PROVE  Typed'
  <2>1. Deploy(s, v) /\ UNCHANGED <<index, elected, open, failed, controller>> /\ s \in Unit
    BY <1>6 DEF UpgradeByOperator, Unit
  <2>2. WorldTyped'
    BY <2>1, DeployTyped DEF WorldTyped, Typed, TypeOK
  <2>. QED
    BY <1>1, <2>1, <2>2, Halves
<1>7. ASSUME NEW r \in Release, WeekPasses(r)
      PROVE  Typed'
  <2>1. WorldTyped'
    BY <1>7 DEF WeekPasses, WorldTyped, Typed, TypeOK, Age
  <2>. QED
    BY <1>1, <1>7, <2>1, Halves DEF WeekPasses
<1>8. ASSUME NEW v \in Version, Elect(v)
      PROVE  Typed'
  <2>1. WorldTyped'
    BY <1>8 DEF Elect, WorldTyped, Typed, TypeOK
  <2>. QED
    BY <1>1, <1>8, <2>1, Halves DEF Elect
<1>9. CASE EditIndex
  <2>1. index' \in Index
    <3>1. index \in Index /\ index.published \in Nat /\ Release = 1..Len(Releases) /\ Len(Releases) \in Nat
      BY ReleaseType DEF Typed, TypeOK, Index
    <3>2. CASE index.published < Len(Releases) /\ index' = [index EXCEPT !.published = @ + 1]
      <4>1. index.published + 1 \in Release
        BY <3>1, <3>2 DEF Index
      <4>. QED
        BY <3>1, <3>2, <4>1 DEF Index
    <3>3. CASE index' = [index EXCEPT !.pause = ~@]
      BY <3>1, <3>3 DEF Index
    <3>. QED
      BY <1>9, <3>2, <3>3 DEF EditIndex
  <2>2. WorldTyped'
    BY <1>9, <2>1 DEF EditIndex, WorldTyped, Typed, TypeOK
  <2>. QED
    BY <1>1, <1>9, <2>2, Halves DEF EditIndex
<1>. QED
  BY <1>2, <1>3, <1>4, <1>5, <1>6, <1>7, <1>8, <1>9 DEF WorldStep, TurnedDown

LEMMA NextTyped == Typed /\ [Next]_vars => Typed'
<1>1. ASSUME Typed, UNCHANGED vars
      PROVE  Typed'
  BY <1>1 DEF Typed, TypeOK, Busy, vars, external
<1>. QED
  BY <1>1, ControllerStepTyped, WorldStepTyped DEF Next

\* Every variable has its type, in every state of every behaviour.
THEOREM TypeCorrect == Spec => []TypeOK
<1>1. Init => Typed
  BY InitTyped
<1>2. Typed /\ [Next]_vars => Typed'
  BY NextTyped
<1>3. Typed => TypeOK
  BY DEF Typed
<1>. QED
  BY <1>1, <1>2, <1>3, PTL DEF Spec

-----------------------------------------------------------------------------
(* One open proposal.  Two listings and the registry are read at different  *)
(* times.  What saves the controller is that only its own steps, which come *)
(* later, make a proposal that was not open when the units were listed.     *)

\* A stage names a subnet once: the code would propose the second one, too.
SubnetsOnce == \A i \in DOMAIN Stages : \A j, k \in DOMAIN Stages[i].subnets :
                 Stages[i].subnets[j] = Stages[i].subnets[k] => j = k

AtMostOne == \A p \in Proposal : open[p] \in {0, 1}

FreshListing == pc = "unassigned" =>
                  \A s \in Subnet, v \in Version : <<s, v>> \notin seen.listed => open[<<s, v>>] = 0

FreshTodo == \A k \in DOMAIN todo : open[todo[k]] = 0

DistinctTodo == \A j, k \in DOMAIN todo : todo[j] = todo[k] => j = k

FreshInv == Typed /\ AtMostOne /\ FreshListing /\ FreshTodo /\ DistinctTodo

\* Nobody but the controller opens a proposal.
LEMMA WorldOpensNothing ==
    ASSUME Typed, WorldStep
    PROVE  UNCHANGED controller /\ \A p \in Proposal : open'[p] <= open[p]
<1>1. \A p \in Proposal : open[p] \in Nat
  BY DEF Typed, TypeOK
<1>2. ASSUME NEW p \in Proposal, ExecuteProposal(p) \/ TurnedDown(p)
      PROVE  UNCHANGED controller /\ \A q \in Proposal : open'[q] <= open[q]
  <2>1. open' = [open EXCEPT ![p] = @ - 1] /\ UNCHANGED controller
    BY <1>2 DEF ExecuteProposal, TurnedDown, RejectProposal, FailProposal, restOfWorld
  <2>. QED
    BY <1>1, <2>1 DEF Typed, TypeOK
<1>3. ASSUME UNCHANGED <<open, controller>>
      PROVE  UNCHANGED controller /\ \A q \in Proposal : open'[q] <= open[q]
  BY <1>1, <1>3
<1>4. ASSUME NEW s \in Subnet, RunNewVersion(s) \/ BakeTimePasses(s) \/ Forget(s)
      PROVE  UNCHANGED <<open, controller>>
  BY <1>4 DEF RunNewVersion, BakeTimePasses, Forget
<1>5. ASSUME NEW s \in Subnet, NEW v \in Version, UpgradeByOperator(s, v)
      PROVE  UNCHANGED <<open, controller>>
  BY <1>5 DEF UpgradeByOperator
<1>6. ASSUME NEW r \in Release, WeekPasses(r)
      PROVE  UNCHANGED <<open, controller>>
  BY <1>6 DEF WeekPasses
<1>7. ASSUME NEW v \in Version, Elect(v)
      PROVE  UNCHANGED <<open, controller>>
  BY <1>7 DEF Elect
<1>8. ASSUME EditIndex
      PROVE  UNCHANGED <<open, controller>>
  BY <1>8 DEF EditIndex
<1>. QED
  BY <1>2, <1>3, <1>4, <1>5, <1>6, <1>7, <1>8 DEF WorldStep, TurnedDown

LEMMA WorldKeepsFreshInv ==
    ASSUME FreshInv, WorldStep
    PROVE  FreshInv'
<1>1. Typed'
  BY WorldStepTyped DEF FreshInv
<1>2. UNCHANGED <<pc, seen, todo>> /\ \A p \in Proposal : open'[p] <= open[p]
  BY WorldOpensNothing DEF FreshInv, controller
<1>3. \A p \in Proposal : open'[p] \in Nat /\ open[p] \in Nat
  BY <1>1 DEF FreshInv, Typed, TypeOK
<1>4. \A p \in Proposal : open[p] = 0 => open'[p] = 0
  BY <1>2, <1>3
<1>5. AtMostOne'
  BY <1>2, <1>3 DEF AtMostOne, FreshInv
<1>6. FreshListing'
  <2>1. \A s \in Subnet, v \in Version : <<s, v>> \in Proposal
    BY DEF Proposal, Unit
  <2>. QED
    BY <1>2, <1>4, <2>1 DEF FreshListing, FreshInv
<1>7. FreshTodo' /\ DistinctTodo'
  <2>1. \A k \in DOMAIN todo : todo[k] \in Proposal
    BY DEF FreshInv, Typed, TypeOK
  <2>. QED
    BY <1>2, <1>4, <2>1 DEF FreshTodo, DistinctTodo, FreshInv
<1>. QED
  BY <1>1, <1>5, <1>6, <1>7 DEF FreshInv

\* What check_stages places was not open when it was listed, and is not open now.
LEMMA PlacesAreFresh ==
    ASSUME SubnetsOnce, FreshInv, pc = "unassigned", NEW i \in DOMAIN Stages
    PROVE  LET places == ToPlace(i, seen.listed \cup Listed({Unassigned}))
           IN  /\ \A k \in DOMAIN places : open[places[k]] = 0
               /\ \A j, k \in DOMAIN places : places[j] = places[k] => j = k
<1>. DEFINE listed == seen.listed \cup Listed({Unassigned})
            places == ToPlace(i, listed)
            unit(k) == UnitsOf(Stages[i])[k]
<1>1. /\ DOMAIN places = PlacesOf(i, listed)
      /\ PlacesOf(i, listed) \subseteq DOMAIN UnitsOf(Stages[i])
      /\ \A k \in PlacesOf(i, listed) : places[k] = <<unit(k), Desired(unit(k))>> /\ places[k] \in Proposal
  BY ToPlaceType DEF FreshInv, Typed
<1>2. ASSUME NEW k \in DOMAIN places
      PROVE  open[places[k]] = 0
  <2>1. places[k] \notin listed
    <3>1. Verdict(unit(k), i, listed) = "place"
      BY <1>1 DEF PlacesOf
    <3>2. <<unit(k), Desired(unit(k))>> \notin listed
      <4>. HIDE DEF listed
      <4>. QED
        BY <3>1 DEF Verdict, Upgraded
    <3>. QED
      BY <1>1, <3>2
  <2>2. PICK u \in Unit, v \in Version : places[k] = <<u, v>>
    <3>. HIDE DEF places
    <3>1. places[k] \in Proposal
      BY <1>1
    <3>. QED
      BY <3>1 DEF Proposal
  <2>3. CASE u \in Subnet
    <3>1. <<u, v>> \notin seen.listed
      BY <2>1, <2>2
    <3>. QED
      BY <2>2, <2>3, <3>1 DEF FreshInv, FreshListing
  <2>4. CASE u \notin Subnet
    <3>1. <<u, v>> \in {Unassigned} \X Version /\ <<u, v>> \in Proposal
      BY <2>4 DEF Unit, Proposal
    <3>2. ~(open[<<u, v>>] > 0)
      BY <2>1, <2>2, <3>1 DEF Listed
    <3>3. open[<<u, v>>] \in {0, 1}
      BY <3>1 DEF FreshInv, AtMostOne
    <3>. QED
      BY <2>2, <3>2, <3>3
  <2>. QED
    BY <2>3, <2>4
<1>3. ASSUME NEW j \in DOMAIN places, NEW k \in DOMAIN places, places[j] = places[k]
      PROVE  j = k
  <2>1. unit(j) = unit(k) /\ j \in DOMAIN UnitsOf(Stages[i]) /\ k \in DOMAIN UnitsOf(Stages[i])
    <3>. HIDE DEF places
    <3>1. j \in PlacesOf(i, listed) /\ k \in PlacesOf(i, listed)
      BY <1>1
    <3>2. <<unit(j), Desired(unit(j))>> = <<unit(k), Desired(unit(k))>>
      BY <1>1, <1>3, <3>1
    <3>. QED
      BY <1>1, <3>1, <3>2
  <2>2. CASE Stages[i].unassigned
    <3>1. DOMAIN UnitsOf(Stages[i]) = {1}
      BY <2>2 DEF UnitsOf
    <3>. QED
      BY <2>1, <3>1
  <2>3. CASE ~Stages[i].unassigned
    <3>1. UnitsOf(Stages[i]) = Stages[i].subnets
      BY <2>3 DEF UnitsOf
    <3>. QED
      BY <2>1, <3>1 DEF SubnetsOnce
  <2>. QED
    BY <2>2, <2>3
<1>. QED
  BY <1>2, <1>3

\* What CheckStages leaves to be done is nothing, or the proposals of the first
\* stage that is not over and does not wait.
LEMMA CheckStagesPlaces ==
    ASSUME Typed, CheckStages
    PROVE  LET listed == seen.listed \cup Listed({Unassigned})
           IN  /\ pc = "unassigned" /\ pc' # "unassigned" /\ UNCHANGED <<external, checkout>>
               /\ \/ DOMAIN todo' = {}
                  \/ \E i \in Unfinished(listed) : /\ \A j \in Unfinished(listed) : i <= j
                                                   /\ ~Waits(i)
                                                   /\ todo' = ToPlace(i, listed)
<1>. DEFINE listed == seen.listed \cup Listed({Unassigned})
<1>1. pc = "unassigned" /\ UNCHANGED <<external, checkout>>
  BY DEF CheckStages
<1>2. \/ Stop
      \/ \E i \in Unfinished(listed) : (\A j \in Unfinished(listed) : i <= j) /\ ActOn(i, listed)
  BY DEF CheckStages
<1>. HIDE DEF listed
<1>3. CASE Stop
  BY <1>1, <1>3, NoTodoType DEF Stop, listed
<1>4. ASSUME NEW i \in Unfinished(listed), \A j \in Unfinished(listed) : i <= j, ActOn(i, listed), ~Stop
      PROVE  /\ pc' # "unassigned"
             /\ DOMAIN todo' = {} \/ (~Waits(i) /\ todo' = ToPlace(i, listed))
  BY <1>4, NoTodoType DEF ActOn
<1>5. pc' # "unassigned" /\ (\/ DOMAIN todo' = {}
                            \/ \E i \in Unfinished(listed) : /\ \A j \in Unfinished(listed) : i <= j
                                                             /\ ~Waits(i)
                                                             /\ todo' = ToPlace(i, listed))
  BY <1>2, <1>3, <1>4 DEF Stop
<1>. QED
  BY <1>1, <1>5 DEF listed

\* The steps that end in a state without anything left to place.
LEMMA Idling ==
    ASSUME Typed, ControllerStep
    PROVE  \/ /\ Sync \/ Fetch \/ QueryBake \/ QueryStart \/ ListSubnetProposals
              /\ DOMAIN todo = {} /\ DOMAIN todo' = {} /\ UNCHANGED external
              /\ pc' = "unassigned" <=> ListSubnetProposals
           \/ CheckStages
           \/ Place
           \/ PlaceUnnoticed /\ DOMAIN todo' = {} /\ pc' = "sync"
           \/ (PlaceFails \/ StartOver) /\ DOMAIN todo' = {} /\ pc' = "sync" /\ UNCHANGED external
<1>1. pc # "execute" => DOMAIN todo = {}
  BY DEF Typed, Busy
<1>2. CASE Sync \/ Fetch \/ QueryBake \/ QueryStart \/ ListSubnetProposals
  BY <1>1, <1>2 DEF Sync, Fetch, QueryBake, QueryStart, ListSubnetProposals
<1>3. CASE PlaceUnnoticed
  BY <1>3, NoTodoType DEF PlaceUnnoticed, Leave
<1>4. CASE PlaceFails \/ StartOver
  BY <1>4, NoTodoType DEF PlaceFails, StartOver, Leave
<1>. QED
  BY <1>2, <1>3, <1>4 DEF ControllerStep

\* Every unit and version keep their number of open proposals but the current
\* one, which gets one more.
LEMMA SubmitOpens ==
    ASSUME Typed, pc = "execute", Submit(Current)
    PROVE  /\ open'[Current] = open[Current] + 1
           /\ \A p \in Proposal : p # Current => open'[p] = open[p]
<1>1. Current \in Proposal
  BY TodoType
<1>. HIDE DEF Current
<1>. QED
  BY <1>1 DEF Submit, Typed, TypeOK

LEMMA SubmitKeepsAtMostOne ==
    ASSUME FreshInv, pc = "execute", Submit(Current)
    PROVE  AtMostOne'
<1>1. Current \in Proposal /\ Min(DOMAIN todo) \in DOMAIN todo
  BY TodoType DEF FreshInv
<1>2. open[Current] = 0
  BY <1>1 DEF Current, FreshInv, FreshTodo
<1>3. \A p \in Proposal : open'[p] = open[p] \/ (p = Current /\ open'[p] = open[p] + 1)
  BY SubmitOpens DEF FreshInv
<1>. QED
  BY <1>2, <1>3 DEF AtMostOne, FreshInv

LEMMA PlaceKeepsFreshInv ==
    ASSUME FreshInv, Place
    PROVE  FreshInv'
<1>1. Typed'
  BY ControllerStepTyped DEF FreshInv, ControllerStep
<1>2. pc = "execute" /\ Submit(Current) /\ Leave(Rest)
  BY DEF Place
<1>3. AtMostOne'
  BY <1>2, SubmitKeepsAtMostOne
<1>4. FreshListing'
  BY <1>2 DEF Leave, FreshListing
<1>5. /\ DOMAIN todo' \subseteq DOMAIN todo
      /\ \A k \in DOMAIN todo' : todo'[k] = todo[k] /\ todo[k] # Current
  <2>1. /\ todo' = Rest
        /\ Min(DOMAIN todo) \in DOMAIN todo
        /\ DOMAIN Rest = DOMAIN todo \ {Min(DOMAIN todo)}
        /\ \A k \in DOMAIN Rest : Rest[k] = todo[k]
    BY <1>2, TodoType DEF Leave, FreshInv
  <2>2. Current = todo[Min(DOMAIN todo)] /\ DistinctTodo
    BY DEF Current, FreshInv
  <2>. QED
    BY <2>1, <2>2 DEF DistinctTodo
<1>6. FreshTodo'
  <2>1. \A k \in DOMAIN todo : todo[k] \in Proposal /\ open[todo[k]] = 0
    BY DEF FreshInv, FreshTodo, Typed, TypeOK
  <2>2. \A p \in Proposal : p # Current => open'[p] = open[p]
    BY <1>2, SubmitOpens DEF FreshInv
  <2>. QED
    BY <1>5, <2>1, <2>2 DEF FreshTodo
<1>7. DistinctTodo'
  BY <1>5 DEF DistinctTodo, FreshInv
<1>. QED
  BY <1>1, <1>3, <1>4, <1>6, <1>7 DEF FreshInv

LEMMA ControllerKeepsFreshInv ==
    ASSUME SubnetsOnce, FreshInv, ControllerStep
    PROVE  FreshInv'
<1>1. Typed' /\ Typed
  BY ControllerStepTyped DEF FreshInv
<1>2. UNCHANGED external => AtMostOne'
  BY DEF external, AtMostOne, FreshInv
<1>3. ASSUME DOMAIN todo' = {}
      PROVE  FreshTodo' /\ DistinctTodo'
  BY <1>3 DEF FreshTodo, DistinctTodo
<1>4. pc' # "unassigned" => FreshListing'
  BY DEF FreshListing
<1>5. CASE ListSubnetProposals /\ DOMAIN todo' = {} /\ UNCHANGED external
  <2>1. seen'.listed = Listed(Subnet) /\ open' = open
    BY <1>1, <1>5 DEF ListSubnetProposals, Typed, TypeOK, Seen, external
  <2>2. FreshListing'
    <3>1. ASSUME NEW s \in Subnet, NEW v \in Version, <<s, v>> \notin seen'.listed
          PROVE  open'[<<s, v>>] = 0
      <4>1. <<s, v>> \in Proposal /\ <<s, v>> \in Subnet \X Version
        BY DEF Proposal, Unit
      <4>2. ~(open[<<s, v>>] > 0)
        BY <2>1, <3>1, <4>1 DEF Listed
      <4>3. open[<<s, v>>] \in {0, 1}
        BY <4>1 DEF FreshInv, AtMostOne
      <4>. QED
        BY <2>1, <4>2, <4>3
    <3>. QED
      BY <3>1 DEF FreshListing
  <2>. QED
    BY <1>1, <1>2, <1>3, <1>5, <2>2 DEF FreshInv
<1>6. CASE UNCHANGED external /\ DOMAIN todo' = {} /\ pc' # "unassigned"
  BY <1>1, <1>2, <1>3, <1>4, <1>6 DEF FreshInv
<1>7. CASE CheckStages
  <2>. DEFINE listed == seen.listed \cup Listed({Unassigned})
  <2>1. /\ pc = "unassigned" /\ pc' # "unassigned" /\ UNCHANGED external
        /\ \/ DOMAIN todo' = {}
           \/ \E i \in Unfinished(listed) : todo' = ToPlace(i, listed)
    BY <1>1, <1>7, CheckStagesPlaces
  <2>2. ASSUME NEW i \in Unfinished(listed), todo' = ToPlace(i, listed)
        PROVE  FreshTodo' /\ DistinctTodo'
    <3>1. i \in DOMAIN Stages /\ open' = open
      BY <2>1 DEF Unfinished, external
    <3>2. /\ \A k \in DOMAIN todo' : open'[todo'[k]] = 0
          /\ \A j, k \in DOMAIN todo' : todo'[j] = todo'[k] => j = k
      BY <2>1, <2>2, <3>1, PlacesAreFresh
    <3>. QED
      BY <3>2 DEF FreshTodo, DistinctTodo
  <2>. QED
    BY <1>1, <1>2, <1>3, <1>4, <2>1, <2>2 DEF FreshInv
<1>8. CASE Place
  BY <1>8, PlaceKeepsFreshInv
<1>9. CASE PlaceUnnoticed /\ DOMAIN todo' = {} /\ pc' = "sync"
  <2>1. AtMostOne'
    BY <1>9, SubmitKeepsAtMostOne DEF PlaceUnnoticed
  <2>. QED
    BY <1>1, <1>3, <1>4, <1>9, <2>1 DEF FreshInv
<1>. QED
  BY <1>1, <1>5, <1>6, <1>7, <1>8, <1>9, Idling

LEMMA InitFreshInv == Init => FreshInv
<1>. SUFFICES ASSUME Init
              PROVE  FreshInv
  OBVIOUS
<1>1. Typed
  BY InitTyped
<1>2. pc = "sync" /\ DOMAIN todo = {} /\ AtMostOne
  BY DEF Init, AtMostOne
<1>. QED
  BY <1>1, <1>2 DEF FreshInv, FreshListing, FreshTodo, DistinctTodo

LEMMA NextKeepsFreshInv ==
    ASSUME SubnetsOnce
    PROVE  FreshInv /\ [Next]_vars => FreshInv'
<1>1. ASSUME FreshInv, UNCHANGED vars
      PROVE  FreshInv'
  <2>1. Typed'
    BY <1>1, NextTyped DEF FreshInv
  <2>2. UNCHANGED <<open, pc, seen, todo>>
    BY <1>1 DEF vars, external
  <2>. QED
    BY <1>1, <2>1, <2>2 DEF FreshInv, AtMostOne, FreshListing, FreshTodo, DistinctTodo
<1>. QED
  BY <1>1, ControllerKeepsFreshInv, WorldKeepsFreshInv DEF Next

\* If no stage names a subnet twice, there is never a second open proposal for one
\* upgrade, however the listings, what happens meanwhile, errors of ic-admin and
\* restarts of the controller follow each other.
THEOREM NeverTwoOpen ==
    ASSUME SubnetsOnce
    PROVE  Spec => []OneOpenProposal
<1>1. Init => FreshInv
  BY InitFreshInv
<1>2. FreshInv /\ [Next]_vars => FreshInv'
  BY NextKeepsFreshInv
<1>3. FreshInv => OneOpenProposal
  BY DEF FreshInv, AtMostOne, OneOpenProposal
<1>. QED
  BY <1>1, <1>2, <1>3, PTL DEF Spec

-----------------------------------------------------------------------------
(* The week.  The proposals of an iteration are of the desired release and  *)
(* for the units of the first stage that is not over, so no stage up to it  *)
(* waits for a release whose week has not passed, and it stays passed.      *)

\* No unit is in two stages.
OneStageEach == \A i, j \in DOMAIN Stages : UnitsOfStage(i) \cap UnitsOfStage(j) # {} => i = j

\* No version is in two releases.
OneReleaseEach == \A q, r \in Release : VersionsIn[q] \cap VersionsIn[r] # {} => q = r

Due(u, r) == \A j \in DOMAIN Stages :
               u \in UnitsOfStage(j) /\ (\E i \in 1..j : Stages[i].nextWeek)
                 => age[r] = "weekPassed"

DueTodo == \A k \in DOMAIN todo :
             \E r \in Release : todo[k][2] \in VersionsIn[r] /\ Due(todo[k][1], r)

WeekInv == Typed /\ DueTodo

\* The release a version belongs to.
LEMMA ReleaseOfProposalIs ==
    ASSUME OneReleaseEach, NEW p \in Proposal, NEW r \in Release, p[2] \in VersionsIn[r]
    PROVE  ReleaseOfProposal(p) = r
<1>. DEFINE rs == {q \in Release : p[2] \in VersionsIn[q]}
<1>1. rs = {r}
  <2>1. \A q \in rs : q = r
    BY DEF OneReleaseEach
  <2>. QED
    BY <2>1
<1>2. Len(Releases) \in Nat /\ {r} \in SUBSET (1..Len(Releases))
  BY ReleaseType
<1>3. Max({r}) = r
  <2>1. Max({r}) \in {r}
    BY <1>2, MaxType
  <2>. QED
    BY <2>1
<1>4. ReleaseOfProposal(p) = Max(rs)
  BY DEF ReleaseOfProposal
<1>. HIDE DEF rs
<1>. QED
  BY <1>1, <1>3, <1>4

\* A week that has passed stays passed.
LEMMA WeekStaysPassed ==
    ASSUME Typed, [Next]_vars, NEW r \in Release, age[r] = "weekPassed"
    PROVE  age'[r] = "weekPassed"
<1>1. UNCHANGED age => age'[r] = "weekPassed"
  OBVIOUS
<1>2. ASSUME NEW s \in Subnet, NEW v \in Version, Switch(s, v)
      PROVE  age'[r] = "weekPassed"
  BY <1>2 DEF Switch, Started
<1>3. ASSUME NEW u \in Unit, NEW v \in Version, Deploy(u, v)
      PROVE  age'[r] = "weekPassed"
  <2>1. u \in Subnet \/ u = Unassigned
    BY DEF Unit
  <2>. QED
    BY <1>2, <1>3, <2>1 DEF Deploy
<1>4. CASE UNCHANGED vars
  BY <1>1, <1>4 DEF vars, external
<1>5. CASE ControllerStep
  BY <1>1, <1>5 DEF ControllerStep, Sync, Fetch, QueryBake, QueryStart, ListSubnetProposals, CheckStages,
                    Place, PlaceUnnoticed, PlaceFails, StartOver, external, restOfWorld
<1>6. CASE WorldStep
  <2>1. ASSUME NEW p \in Proposal, ExecuteProposal(p)
        PROVE  age'[r] = "weekPassed"
    <3>1. p[1] \in Unit /\ p[2] \in Version /\ Deploy(p[1], p[2])
      BY <2>1 DEF ExecuteProposal, Proposal
    <3>. QED
      BY <1>3, <3>1
  <2>2. ASSUME NEW s \in Subnet, RunNewVersion(s)
        PROVE  age'[r] = "weekPassed"
    <3>1. version[s] \in Version /\ Switch(s, version[s])
      BY <2>2 DEF RunNewVersion, Typed, TypeOK, Unit
    <3>. QED
      BY <1>2, <3>1
  <2>3. ASSUME NEW s \in Subnet, NEW v \in Version, UpgradeByOperator(s, v)
        PROVE  age'[r] = "weekPassed"
    <3>1. s \in Unit /\ Deploy(s, v)
      BY <2>3 DEF UpgradeByOperator, Unit
    <3>. QED
      BY <1>3, <3>1
  <2>4. ASSUME NEW q \in Release, WeekPasses(q)
        PROVE  age'[r] = "weekPassed"
    BY <2>4 DEF WeekPasses, Typed, TypeOK
  <2>5. ASSUME NEW p \in Proposal, TurnedDown(p)
        PROVE  UNCHANGED age
    BY <2>5 DEF TurnedDown, RejectProposal, FailProposal, restOfWorld
  <2>6. ASSUME NEW s \in Subnet, BakeTimePasses(s) \/ Forget(s)
        PROVE  UNCHANGED age
    BY <2>6 DEF BakeTimePasses, Forget
  <2>7. (\E v \in Version : Elect(v)) \/ EditIndex => UNCHANGED age
    BY DEF Elect, EditIndex
  <2>. QED
    BY <1>1, <1>6, <2>1, <2>2, <2>3, <2>4, <2>5, <2>6, <2>7 DEF WorldStep, TurnedDown
<1>. QED
  BY <1>4, <1>5, <1>6 DEF Next

\* What was due stays due.
LEMMA DueStays ==
    ASSUME WeekInv, [Next]_vars, DOMAIN todo' \subseteq DOMAIN todo,
           \A k \in DOMAIN todo' : todo'[k] = todo[k]
    PROVE  DueTodo'
<1>1. ASSUME NEW k \in DOMAIN todo'
      PROVE  \E r \in Release : todo'[k][2] \in VersionsIn[r] /\ Due(todo[k][1], r)'
  <2>1. PICK r \in Release : todo[k][2] \in VersionsIn[r] /\ Due(todo[k][1], r)
    BY DEF WeekInv, DueTodo
  <2>2. age[r] = "weekPassed" => age'[r] = "weekPassed"
    BY WeekStaysPassed DEF WeekInv
  <2>3. todo'[k] = todo[k]
    OBVIOUS
  <2>4. Due(todo[k][1], r)'
    BY <2>1, <2>2, <2>3 DEF Due
  <2>. QED
    BY <2>1, <2>3, <2>4
<1>. QED
  BY <1>1 DEF DueTodo

\* The proposals of the first stage that is not over are due.
LEMMA PlacesAreDue ==
    ASSUME OneStageEach, Typed, NEW listed, NEW i \in Unfinished(listed),
           \A j \in Unfinished(listed) : i <= j, ~Waits(i),
           NEW k \in DOMAIN ToPlace(i, listed)
    PROVE  /\ seen.desired \in Release
           /\ ToPlace(i, listed)[k][2] \in VersionsIn[seen.desired]
           /\ Due(ToPlace(i, listed)[k][1], seen.desired)
<1>. DEFINE u == UnitsOf(Stages[i])[k]
<1>1. i \in DOMAIN Stages
  BY DEF Unfinished
<1>2. /\ k \in DOMAIN UnitsOf(Stages[i])
      /\ ToPlace(i, listed)[k] = <<u, Desired(u)>>
  BY <1>1, ToPlaceType DEF Typed
<1>3. u \in Unit /\ u \in UnitsOfStage(i)
  BY <1>1, <1>2, StageType DEF UnitsOfStage, Range
<1>4. seen.desired \in Release
  BY DEF Typed, TypeOK, Seen
<1>. HIDE DEF u
<1>5. Desired(u) \in VersionsIn[seen.desired]
  BY <1>3, <1>4, VersionForType DEF Desired
<1>6. ASSUME NEW j \in DOMAIN Stages, u \in UnitsOfStage(j), NEW m \in 1..j, Stages[m].nextWeek
      PROVE  age[seen.desired] = "weekPassed"
  <2>1. j = i
    BY <1>1, <1>3, <1>6 DEF OneStageEach
  <2>2. m \in DOMAIN Stages /\ m \in Nat /\ i \in Nat /\ m <= i
    BY <1>1, <2>1, StageType
  <2>3. ~Waits(m)
    <3>1. CASE m = i
      BY <3>1
    <3>2. CASE m # i
      <4>1. m \notin Unfinished(listed)
        BY <2>2, <3>2
      <4>. QED
        BY <2>2, <4>1 DEF Unfinished
    <3>. QED
      BY <3>1, <3>2
  <2>. QED
    BY <1>6, <2>3 DEF Waits
<1>7. Due(u, seen.desired)
  BY <1>6 DEF Due
<1>8. ToPlace(i, listed)[k][1] = u /\ ToPlace(i, listed)[k][2] = Desired(u)
  BY <1>2
<1>. QED
  BY <1>4, <1>5, <1>7, <1>8

LEMMA NextKeepsWeekInv ==
    ASSUME OneStageEach
    PROVE  WeekInv /\ [Next]_vars => WeekInv'
<1>. SUFFICES ASSUME WeekInv, [Next]_vars
              PROVE  WeekInv'
  OBVIOUS
<1>1. Typed' /\ Typed
  BY NextTyped DEF WeekInv
<1>2. CASE DOMAIN todo' = {}
  BY <1>1, <1>2 DEF WeekInv, DueTodo
<1>3. CASE UNCHANGED todo
  <2>1. DueTodo'
    BY <1>3, DueStays
  <2>. QED
    BY <1>1, <2>1 DEF WeekInv
<1>4. CASE Place
  <2>1. /\ todo' = Rest
        /\ DOMAIN Rest = DOMAIN todo \ {Min(DOMAIN todo)}
        /\ \A k \in DOMAIN Rest : Rest[k] = todo[k]
    BY <1>1, <1>4, TodoType DEF Place, Leave
  <2>2. DueTodo'
    <3>1. DOMAIN todo' \subseteq DOMAIN todo /\ \A k \in DOMAIN todo' : todo'[k] = todo[k]
      BY <2>1
    <3>. QED
      BY <3>1, DueStays
  <2>. QED
    BY <1>1, <2>2 DEF WeekInv
<1>5. CASE CheckStages /\ DOMAIN todo' # {}
  <2>. DEFINE listed == seen.listed \cup Listed({Unassigned})
  <2>1. /\ UNCHANGED age
        /\ \E i \in Unfinished(listed) : /\ \A j \in Unfinished(listed) : i <= j
                                         /\ ~Waits(i)
                                         /\ todo' = ToPlace(i, listed)
    BY <1>1, <1>5, CheckStagesPlaces DEF external
  <2>. HIDE DEF listed
  <2>2. PICK i \in Unfinished(listed) : /\ \A j \in Unfinished(listed) : i <= j
                                       /\ ~Waits(i)
                                       /\ todo' = ToPlace(i, listed)
    BY <2>1
  <2>3. ASSUME NEW k \in DOMAIN todo'
        PROVE  \E r \in Release : todo'[k][2] \in VersionsIn[r] /\ Due(todo[k][1], r)'
    <3>1. /\ seen.desired \in Release
          /\ todo'[k][2] \in VersionsIn[seen.desired]
          /\ Due(todo'[k][1], seen.desired)
      BY <1>1, <2>2, PlacesAreDue
    <3>2. \A r \in Release : Due(todo'[k][1], r) => Due(todo[k][1], r)'
      BY <2>1 DEF Due
    <3>. QED
      BY <3>1, <3>2
  <2>. QED
    BY <1>1, <2>3 DEF WeekInv, DueTodo
<1>6. CASE ControllerStep
  BY <1>1, <1>2, <1>4, <1>5, <1>6, Idling
<1>7. CASE WorldStep
  BY <1>1, <1>3, <1>7, WorldOpensNothing DEF controller
<1>8. CASE UNCHANGED vars
  BY <1>3, <1>8 DEF vars
<1>. QED
  BY <1>6, <1>7, <1>8 DEF Next

\* Only the current proposal is placed, and it is due.
LEMMA PlacedIsCurrent ==
    ASSUME Typed, [Next]_vars, NEW p \in Proposal, Placed(p)
    PROVE  pc = "execute" /\ p = Current
<1>1. open[p] \in Nat /\ open'[p] > open[p]
  BY DEF Placed, Typed, TypeOK
<1>2. ~UNCHANGED open
  BY <1>1
<1>3. ~WorldStep
  <2>1. WorldStep => open'[p] <= open[p]
    BY WorldOpensNothing
  <2>2. open'[p] \in Nat
    BY NextTyped DEF Typed, TypeOK
  <2>. QED
    BY <1>1, <2>1, <2>2
<1>4. ControllerStep
  BY <1>2, <1>3 DEF Next, vars, external
<1>5. Place \/ PlaceUnnoticed
  BY <1>2, <1>4 DEF ControllerStep, Sync, Fetch, QueryBake, QueryStart, ListSubnetProposals,
                    CheckStages, PlaceFails, StartOver, external
<1>6. pc = "execute" /\ Submit(Current)
  BY <1>5 DEF Place, PlaceUnnoticed
<1>7. p # Current => open'[p] = open[p]
  BY <1>6, SubmitOpens
<1>. QED
  BY <1>1, <1>6, <1>7

\* If no unit is in two stages and no version in two releases, a stage that waits
\* for the next week, and every stage behind it, gets its proposals only after the
\* week in which their release was started.
THEOREM NoProposalInTheWrongWeek ==
    ASSUME OneStageEach, OneReleaseEach
    PROVE  Spec => WeekRespected
<1>1. Init => WeekInv
  <2>1. Init => Typed /\ DOMAIN todo = {}
    BY InitTyped DEF Init
  <2>. QED
    BY <2>1 DEF WeekInv, DueTodo
<1>2. WeekInv /\ [Next]_vars => WeekInv'
  BY NextKeepsWeekInv
<1>3. WeekInv /\ [Next]_vars =>
        [\A p \in Proposal : Placed(p) =>
           \A j \in DOMAIN Stages :
             p[1] \in UnitsOfStage(j) /\ (\E i \in 1..j : Stages[i].nextWeek)
               => age[ReleaseOfProposal(p)] = "weekPassed"]_vars
  <2>1. ASSUME WeekInv, [Next]_vars, NEW p \in Proposal, Placed(p)
        PROVE  \A j \in DOMAIN Stages :
                 p[1] \in UnitsOfStage(j) /\ (\E i \in 1..j : Stages[i].nextWeek)
                   => age[ReleaseOfProposal(p)] = "weekPassed"
    <3>1. pc = "execute" /\ p = Current /\ Typed
      BY <2>1, PlacedIsCurrent DEF WeekInv
    <3>2. Min(DOMAIN todo) \in DOMAIN todo /\ p = todo[Min(DOMAIN todo)]
      BY <3>1, TodoType DEF Current
    <3>3. PICK r \in Release : p[2] \in VersionsIn[r] /\ Due(p[1], r)
      BY <2>1, <3>2 DEF WeekInv, DueTodo
    <3>4. ReleaseOfProposal(p) = r
      BY <3>3, ReleaseOfProposalIs
    <3>. QED
      BY <3>3, <3>4 DEF Due
  <2>. QED
    BY <2>1
<1>. QED
  BY <1>1, <1>2, <1>3, PTL DEF Spec, WeekRespected

-----------------------------------------------------------------------------
(* From one release to the next.  With two releases nothing goes back: what *)
(* is proposed, started by an operator or executed is the newer release.    *)

TwoReleasesOnly == Len(Releases) = 2

New(u) == VersionFor[2][u]

\* Versions of the units: each is the old one, or one of the new release.
OnOldOrNew(vs) == \A u \in Unit : vs[u] = VersionFor[1][u] \/ vs[u] \in VersionsIn[2]

\* Some subnet has started the new release.
Started2(vs) == \E s \in Subnet : vs[s] \in VersionsIn[2]

WorldInv == /\ OnOldOrNew(version)
            /\ \A p \in Proposal : open[p] > 0 => p[2] = New(p[1]) /\ age[2] # "none"
            /\ age[2] # "none" => Started2(version)
            /\ version[Unassigned] \in VersionsIn[2] => age[2] # "none"

\* The snapshot is an earlier state of the registry.
SnapshotInv == /\ OnOldOrNew(seen.version)
               /\ \A u \in Unit : seen.version[u] = New(u) => version[u] = New(u)
               /\ seen.version[Unassigned] \in VersionsIn[2] => Started2(seen.version)

\* The old release is desired only if the snapshot has nothing else.
DesiredInv == pc \in {"subnets", "unassigned"} =>
                IF seen.desired = 1 THEN ~Started2(seen.version)
                                    ELSE seen.desired = 2 /\ age[2] # "none"

\* What is still to be placed upgrades a unit of a stage all earlier ones of which are done.
ToBePlaced(p) == /\ p[2] = New(p[1])
                 /\ \E i \in DOMAIN Stages : /\ p[1] \in UnitsOfStage(i)
                                             /\ \A j \in 1..(i - 1) : \A t \in UnitsOfStage(j) : version[t] = New(t)

TodoInv == \A k \in DOMAIN todo : ToBePlaced(todo[k]) /\ age[2] # "none"

RefInv == Typed /\ WorldInv /\ SnapshotInv /\ DesiredInv /\ TodoInv

LEMMA TwoReleasesType ==
    ASSUME TwoReleasesOnly, OneReleaseEach
    PROVE  /\ Release = {1, 2} /\ VersionsIn[1] \cap VersionsIn[2] = {}
           /\ \A u \in Unit : /\ New(u) \in VersionsIn[2] /\ New(u) \in Version
                              /\ VersionFor[1][u] \in VersionsIn[1]
                              /\ VersionFor[1][u] \notin VersionsIn[2]
                              /\ VersionFor[1][u] # New(u)
<1>1. Release = 1..2
  BY ReleaseAssumption DEF TwoReleasesOnly, Release
<1>2. Release = {1, 2}
  BY <1>1
<1>3. VersionsIn[1] \cap VersionsIn[2] = {}
  BY <1>2 DEF OneReleaseEach
<1>4. \A u \in Unit : /\ VersionFor[1][u] \in VersionsIn[1]
                     /\ VersionFor[2][u] \in VersionsIn[2] /\ VersionFor[2][u] \in Version
  BY <1>2, VersionForType
<1>. QED
  BY <1>2, <1>3, <1>4 DEF New

LEMMA NothingSeenIsOld ==
    ASSUME TwoReleasesOnly, OneReleaseEach, NEW vs, vs = [u \in Unit |-> VersionFor[1][u]]
    PROVE  /\ OnOldOrNew(vs)
           /\ \A u \in Unit : vs[u] # New(u)
           /\ vs[Unassigned] \notin VersionsIn[2]
           /\ ~Started2(vs)
<1>1. Unassigned \in Unit /\ \A s \in Subnet : s \in Unit
  BY DEF Unit
<1>. QED
  BY <1>1, TwoReleasesType DEF OnOldOrNew, Started2

\* Versions only become newer, and the release has been seen for ever.
Onward == /\ \A u \in Unit : version[u] = New(u) => version'[u] = New(u)
          /\ age[2] # "none" => age'[2] # "none"

\* A unit gets a version of the new release.
LEMMA DeployNew ==
    ASSUME TwoReleasesOnly, OneReleaseEach, Typed, WorldInv,
           NEW u \in Unit, NEW v \in Version, v \in VersionsIn[2], Deploy(u, v),
           version[u] = New(u) => v = New(u),
           u = Unassigned => age[2] # "none"
    PROVE  /\ Onward /\ OnOldOrNew(version)'
           /\ age'[2] # "none" => Started2(version)'
           /\ version'[Unassigned] \in VersionsIn[2] => age'[2] # "none"
<1>1. version' = [version EXCEPT ![u] = v] /\ version \in [Unit -> Version]
  BY DEF Deploy, Typed, TypeOK
<1>2. \A t \in Unit : version'[t] = IF t = u THEN v ELSE version[t]
  BY <1>1
<1>3. age[2] # "none" => age'[2] # "none"
  <2>1. CASE u = Unassigned \/ ReplicasLag
    BY <2>1 DEF Deploy
  <2>2. CASE ~(u = Unassigned \/ ReplicasLag)
    <3>1. age' = Started(v) /\ 2 \in Release
      BY <2>2, TwoReleasesType DEF Deploy, Switch
    <3>. QED
      BY <3>1 DEF Started
  <2>. QED
    BY <2>1, <2>2
<1>4. OnOldOrNew(version)'
  BY <1>2 DEF OnOldOrNew, WorldInv
<1>5. Started2(version)' \/ (u = Unassigned /\ ~Started2(version))
  <2>1. CASE u \in Subnet
    BY <1>2, <2>1 DEF Started2
  <2>2. CASE u = Unassigned /\ Started2(version)
    BY <1>2, <2>2 DEF Started2, Unit
  <2>. QED
    BY <2>1, <2>2 DEF Unit
<1>6. age'[2] # "none" => Started2(version)'
  <2>1. u = Unassigned => Started2(version)
    BY DEF WorldInv
  <2>. QED
    BY <1>5, <2>1
<1>7. version'[Unassigned] \in VersionsIn[2] => age'[2] # "none"
  <2>1. Unassigned \in Unit
    BY DEF Unit
  <2>. QED
    BY <1>2, <1>3, <2>1 DEF WorldInv
<1>. QED
  BY <1>2, <1>3, <1>4, <1>6, <1>7 DEF Onward

LEMMA ExecuteOnward ==
    ASSUME TwoReleasesOnly, OneReleaseEach, Typed, WorldInv,
           NEW p \in Proposal, ExecuteProposal(p)
    PROVE  WorldInv' /\ Onward
<1>1. p[1] \in Unit /\ p[2] \in Version /\ p[2] = New(p[1]) /\ age[2] # "none" /\ Deploy(p[1], p[2])
  BY DEF ExecuteProposal, Proposal, WorldInv
<1>2. p[2] \in VersionsIn[2]
  BY <1>1, TwoReleasesType
<1>3. /\ Onward /\ OnOldOrNew(version)'
      /\ age'[2] # "none" => Started2(version)'
      /\ version'[Unassigned] \in VersionsIn[2] => age'[2] # "none"
  BY <1>1, <1>2, DeployNew
<1>4. \A q \in Proposal : open'[q] > 0 => open[q] > 0
  BY DEF ExecuteProposal, Typed, TypeOK
<1>. QED
  BY <1>1, <1>3, <1>4 DEF WorldInv, Onward

LEMMA OperatorOnward ==
    ASSUME TwoReleasesOnly, OneReleaseEach, Typed, WorldInv,
           NEW s \in Subnet, NEW v \in Version, UpgradeByOperator(s, v)
    PROVE  WorldInv' /\ Onward /\ version[s] \notin VersionsIn[2]
<1>1. PICK r \in 1..index.published :
        v \in VersionsIn[r] /\ \A q \in r..Len(Releases) : version[s] \notin VersionsIn[q]
  BY DEF UpgradeByOperator
<1>2. r \in {1, 2}
  <2>1. index.published \in Release
    BY DEF Typed, TypeOK, Index
  <2>. QED
    BY <1>1, <2>1, TwoReleasesType
<1>3. version[s] \notin VersionsIn[2]
  BY <1>1, <1>2 DEF TwoReleasesOnly
<1>4. s \in Unit /\ s # Unassigned
  BY UnitAssumption DEF Unit
<1>5. v \in VersionsIn[2]
  <2>1. version[s] = VersionFor[1][s]
    BY <1>3, <1>4 DEF WorldInv, OnOldOrNew
  <2>2. version[s] \in VersionsIn[1]
    BY <1>4, <2>1, TwoReleasesType
  <2>3. r # 1
    BY <1>1, <2>2 DEF TwoReleasesOnly
  <2>. QED
    BY <1>1, <1>2, <2>3
<1>6. version[s] # New(s)
  BY <1>3, <1>4, TwoReleasesType
<1>7. Deploy(s, v) /\ UNCHANGED open
  BY DEF UpgradeByOperator
<1>8. /\ Onward /\ OnOldOrNew(version)'
      /\ age'[2] # "none" => Started2(version)'
      /\ version'[Unassigned] \in VersionsIn[2] => age'[2] # "none"
  BY <1>4, <1>5, <1>6, <1>7, DeployNew
<1>. QED
  BY <1>3, <1>7, <1>8 DEF WorldInv, Onward

LEMMA RunOnward ==
    ASSUME TwoReleasesOnly, OneReleaseEach, Typed, WorldInv, NEW s \in Subnet, RunNewVersion(s)
    PROVE  WorldInv' /\ Onward
<1>1. age' = Started(version[s]) /\ UNCHANGED <<version, open>> /\ 2 \in Release
  BY TwoReleasesType DEF RunNewVersion, Switch
<1>2. age'[2] = IF version[s] \in VersionsIn[2] /\ age[2] = "none" THEN "thisWeek" ELSE age[2]
  BY <1>1 DEF Started
<1>3. Onward
  BY <1>1, <1>2 DEF Onward
<1>4. age'[2] # "none" => Started2(version)
  BY <1>2 DEF WorldInv, Started2
<1>. QED
  BY <1>1, <1>3, <1>4 DEF WorldInv, Onward, OnOldOrNew, Started2

LEMMA WorldOnward ==
    ASSUME TwoReleasesOnly, OneReleaseEach, Typed, WorldInv, WorldStep
    PROVE  WorldInv' /\ Onward
<1>1. ASSUME UNCHANGED <<version, open>>, (age[2] # "none") = (age'[2] # "none")
      PROVE  WorldInv' /\ Onward
  BY <1>1 DEF WorldInv, Onward, OnOldOrNew, Started2
<1>2. ASSUME NEW p \in Proposal, TurnedDown(p)
      PROVE  WorldInv' /\ Onward
  <2>1. UNCHANGED <<version, age>>
    BY <1>2 DEF TurnedDown, RejectProposal, FailProposal, restOfWorld
  <2>2. \A q \in Proposal : open'[q] > 0 => open[q] > 0
    BY <1>2 DEF TurnedDown, RejectProposal, FailProposal, restOfWorld, Typed, TypeOK
  <2>. QED
    BY <2>1, <2>2 DEF WorldInv, Onward, OnOldOrNew, Started2
<1>3. ASSUME NEW r \in Release, WeekPasses(r)
      PROVE  WorldInv' /\ Onward
  <2>1. (age[2] # "none") = (age'[2] # "none")
    BY <1>3, TwoReleasesType DEF WeekPasses, Typed, TypeOK
  <2>. QED
    BY <1>1, <1>3, <2>1 DEF WeekPasses
<1>4. ASSUME NEW s \in Subnet, BakeTimePasses(s) \/ Forget(s)
      PROVE  WorldInv' /\ Onward
  BY <1>1, <1>4 DEF BakeTimePasses, Forget
<1>5. ASSUME (\E v \in Version : Elect(v)) \/ EditIndex
      PROVE  WorldInv' /\ Onward
  BY <1>1, <1>5 DEF Elect, EditIndex
<1>. QED
  BY <1>2, <1>3, <1>4, <1>5, ExecuteOnward, OperatorOnward, RunOnward DEF WorldStep, TurnedDown

LEMMA WorldKeepsRefInv ==
    ASSUME TwoReleasesOnly, OneReleaseEach, RefInv, WorldStep
    PROVE  RefInv'
<1>1. Typed' /\ WorldInv' /\ Onward /\ UNCHANGED <<pc, seen, todo>>
  BY WorldStepTyped, WorldOnward, WorldOpensNothing DEF RefInv, controller
<1>2. SnapshotInv'
  BY <1>1 DEF SnapshotInv, RefInv, Onward, OnOldOrNew, Started2
<1>3. DesiredInv'
  BY <1>1 DEF DesiredInv, RefInv, Onward, Started2
<1>4. TodoInv'
  <2>1. ASSUME NEW p, ToBePlaced(p)
        PROVE  ToBePlaced(p)'
    <3>1. PICK i \in DOMAIN Stages :
             /\ p[1] \in UnitsOfStage(i)
             /\ \A j \in 1..(i - 1) : \A t \in UnitsOfStage(j) : version[t] = New(t)
      BY <2>1 DEF ToBePlaced
    <3>2. ASSUME NEW j \in 1..(i - 1), NEW t \in UnitsOfStage(j)
          PROVE  version'[t] = New(t)
      <4>1. j \in DOMAIN Stages
        BY StageType
      <4>2. t \in Unit
        BY <4>1, StageType DEF UnitsOfStage, Range
      <4>. QED
        BY <1>1, <3>1, <4>2 DEF Onward
    <3>. QED
      BY <2>1, <3>1, <3>2 DEF ToBePlaced
  <2>. QED
    BY <1>1, <2>1 DEF TodoInv, RefInv, Onward
<1>. QED
  BY <1>1, <1>2, <1>3, <1>4 DEF RefInv

\* If only subnets on the old release are seen, then the old release is desired
\* only because the new one is not in the index; nobody has started it.
LEMMA OldDesired ==
    ASSUME TwoReleasesOnly, OneReleaseEach, Typed, ~Panics, DesiredRelease = 1
    PROVE  ~Started2(seen.version)
<1>. SUFFICES ASSUME NEW s \in Subnet, seen.version[s] \in VersionsIn[2]
              PROVE  FALSE
  BY DEF Started2
<1>1. checkout.published \in Nat /\ checkout.published \in {1, 2}
  BY TwoReleasesType DEF Typed, TypeOK, Index
<1>. DEFINE rs == ReleasesWith(seen.version[s])
<1>2. rs \in SUBSET (1..checkout.published) /\ rs # {}
  BY DEF ReleasesWith, Panics
<1>3. 1 \notin rs
  BY TwoReleasesType DEF ReleasesWith
<1>. HIDE DEF rs
<1>4. Max(rs) \in rs
  BY <1>1, <1>2, MaxType
<1>5. Max(rs) = 2 /\ checkout.published = 2
  BY <1>1, <1>2, <1>3, <1>4
<1>6. Max(rs) \in Active
  BY DEF Active, rs
<1>7. Active \in SUBSET (1..checkout.published)
  <2>1. ASSUME NEW t \in Subnet
        PROVE  Max(ReleasesWith(seen.version[t])) \in 1..checkout.published
    <3>1. ReleasesWith(seen.version[t]) \in SUBSET (1..checkout.published) /\ ReleasesWith(seen.version[t]) # {}
      BY DEF ReleasesWith, Panics
    <3>2. Max(ReleasesWith(seen.version[t])) \in ReleasesWith(seen.version[t])
      BY <1>1, <3>1, MaxType
    <3>. QED
      BY <3>1, <3>2
  <2>. QED
    BY <2>1 DEF Active
<1>8. Max(Active) \in Active /\ Max(Active) >= 2
  <2>1. Max(Active) \in Active /\ \A y \in Active : y <= Max(Active)
    BY <1>1, <1>6, <1>7, MaxType
  <2>2. 2 \in Active
    BY <1>5, <1>6
  <2>3. Max(Active) \in Nat
    BY <1>7, <2>1
  <2>. QED
    BY <2>1, <2>2, <2>3
<1>9. Max(Active) = 2
  <2>1. Max(Active) \in 1..checkout.published
    BY <1>7, <1>8
  <2>2. Max(Active) \in 1..2
    BY <1>5, <2>1
  <2>. QED
    BY <1>8, <2>2
<1>. QED
  BY <1>5, <1>9 DEF DesiredRelease

LEMMA QueryStartDesired ==
    ASSUME TwoReleasesOnly, OneReleaseEach, RefInv, QueryStart, pc' = "subnets"
    PROVE  /\ seen'.version = seen.version /\ UNCHANGED age
           /\ IF seen'.desired = 1 THEN ~Started2(seen.version)
                                   ELSE seen'.desired = 2 /\ age[2] # "none"
<1>1. /\ ~Panics /\ age[DesiredRelease] # "none" /\ UNCHANGED age
      /\ seen' = [seen EXCEPT !.desired = DesiredRelease]
  BY DEF QueryStart, external
<1>2. seen \in Seen
  BY DEF RefInv, Typed, TypeOK
<1>3. seen'.version = seen.version /\ seen'.desired = DesiredRelease
  BY <1>1, <1>2 DEF Seen
<1>4. DesiredRelease \in {1, 2}
  BY <1>1, DesiredReleaseType, TwoReleasesType DEF RefInv
<1>5. DesiredRelease = 1 => ~Started2(seen.version)
  BY <1>1, OldDesired DEF RefInv
<1>. QED
  BY <1>1, <1>3, <1>4, <1>5

\* An iteration that forgets its snapshot.
LEMMA ForgottenSnapshot ==
    ASSUME TwoReleasesOnly, OneReleaseEach,
           seen'.version = NothingSeen.version
    PROVE  SnapshotInv'
<1>1. NothingSeen.version = [u \in Unit |-> VersionFor[1][u]]
  BY DEF NothingSeen
<1>. QED
  BY <1>1, NothingSeenIsOld DEF SnapshotInv, OnOldOrNew, Started2

LEMMA SameSnapshot ==
    ASSUME RefInv, UNCHANGED version, seen'.version = seen.version
    PROVE  SnapshotInv'
  BY DEF SnapshotInv, RefInv, OnOldOrNew, Started2

LEMMA NewSnapshot ==
    ASSUME RefInv, UNCHANGED version, seen'.version = version
    PROVE  SnapshotInv'
  BY DEF SnapshotInv, RefInv, WorldInv, OnOldOrNew, Started2

\* What the snapshot of an iteration becomes in a step of the controller.
LEMMA SnapshotKept ==
    ASSUME TwoReleasesOnly, OneReleaseEach, RefInv, ControllerStep
    PROVE  SnapshotInv' /\ DesiredInv'
<1>1. UNCHANGED <<version, age>>
  BY DEF ControllerStep, Sync, Fetch, QueryBake, QueryStart, ListSubnetProposals, CheckStages,
         Place, PlaceUnnoticed, PlaceFails, StartOver, external, restOfWorld
<1>2. seen \in Seen /\ NothingSeen \in Seen
  BY NothingSeenType DEF RefInv, Typed, TypeOK
<1>3. CASE Sync
  <2>1. seen'.version = version /\ pc' = "fetch"
    BY <1>2, <1>3 DEF Sync, Seen
  <2>. QED
    BY <1>1, <2>1, NewSnapshot DEF DesiredInv
<1>4. CASE Fetch
  <2>1. seen' = seen /\ pc' = "bake"
    BY <1>4 DEF Fetch
  <2>. QED
    BY <1>1, <2>1, SameSnapshot DEF DesiredInv
<1>5. CASE QueryBake
  <2>1. pc' \in {"start", "stopped"} /\ (seen' = NothingSeen \/ seen' = [seen EXCEPT !.bake = bake])
    BY <1>5 DEF QueryBake
  <2>2. seen'.version = NothingSeen.version \/ seen'.version = seen.version
    BY <1>2, <2>1 DEF Seen
  <2>. QED
    BY <1>1, <2>1, <2>2, SameSnapshot, ForgottenSnapshot DEF DesiredInv
<1>6. CASE QueryStart
  <2>1. CASE pc' = "subnets"
    BY <1>1, <1>6, <2>1, QueryStartDesired, SameSnapshot DEF DesiredInv, Started2
  <2>2. CASE pc' # "subnets"
    <3>1. pc' \in {"dead", "sync"} /\ seen' = NothingSeen
      BY <1>6, <2>2 DEF QueryStart
    <3>. QED
      BY <3>1, ForgottenSnapshot DEF DesiredInv
  <2>. QED
    BY <2>1, <2>2
<1>7. CASE ListSubnetProposals
  <2>1. pc = "subnets" /\ seen' = [seen EXCEPT !.listed = Listed(Subnet)]
    BY <1>7 DEF ListSubnetProposals
  <2>2. seen'.version = seen.version /\ seen'.desired = seen.desired
    BY <1>2, <2>1 DEF Seen
  <2>3. DesiredInv'
    BY <1>1, <2>1, <2>2 DEF DesiredInv, RefInv, Started2
  <2>. QED
    BY <1>1, <2>2, <2>3, SameSnapshot
<1>8. CASE CheckStages
  <2>1. /\ pc' \in {"stopped", "sync", "execute"}
        /\ seen' = NothingSeen \/ seen' = [NothingSeen EXCEPT !.elected = seen.elected]
    BY <1>8 DEF CheckStages, Stop, ActOn
  <2>2. seen'.version = NothingSeen.version
    BY <1>2, <2>1 DEF Seen
  <2>. QED
    BY <2>1, <2>2, ForgottenSnapshot DEF DesiredInv
<1>9. CASE Place \/ PlaceUnnoticed \/ PlaceFails \/ StartOver
  <2>1. pc' \in {"sync", "execute"} /\ (seen' = NothingSeen \/ seen' = seen)
    BY <1>9 DEF Place, PlaceUnnoticed, PlaceFails, StartOver, Leave
  <2>. QED
    BY <1>1, <2>1, SameSnapshot, ForgottenSnapshot DEF DesiredInv
<1>. QED
  BY <1>3, <1>4, <1>5, <1>6, <1>7, <1>8, <1>9 DEF ControllerStep

\* The first stage that is not over has a proposal to place only if the new release
\* is desired, and then every unit of the stages before it is done.
LEMMA PlacesInOrder ==
    ASSUME TwoReleasesOnly, OneReleaseEach, RefInv, pc = "unassigned",
           NEW listed, NEW i \in Unfinished(listed),
           \A j \in Unfinished(listed) : i <= j,
           NEW k \in DOMAIN ToPlace(i, listed)
    PROVE  ToBePlaced(ToPlace(i, listed)[k]) /\ age[2] # "none"
<1>. DEFINE u == UnitsOf(Stages[i])[k]
<1>1. i \in DOMAIN Stages /\ Typed
  BY DEF Unfinished, RefInv
<1>2. /\ k \in DOMAIN UnitsOf(Stages[i])
      /\ ToPlace(i, listed)[k] = <<u, Desired(u)>>
      /\ Verdict(u, i, listed) = "place"
  BY <1>1, ToPlaceType DEF Typed, PlacesOf
<1>3. u \in Unit /\ u \in UnitsOfStage(i)
  BY <1>1, <1>2, StageType DEF UnitsOfStage, Range
<1>. HIDE DEF u
<1>4. seen.version[u] # Desired(u)
  BY <1>2 DEF Verdict, Upgraded
<1>5. seen.desired = 2 /\ age[2] # "none"
  <2>1. ASSUME seen.desired = 1
        PROVE  FALSE
    <3>1. ~Started2(seen.version)
      BY <2>1 DEF RefInv, DesiredInv
    <3>2. seen.version[u] \notin VersionsIn[2]
      BY <1>3, <3>1 DEF RefInv, SnapshotInv, Started2, Unit
    <3>3. seen.version[u] = VersionFor[1][u]
      BY <1>3, <3>2 DEF RefInv, SnapshotInv, OnOldOrNew
    <3>. QED
      BY <1>4, <2>1, <3>3 DEF Desired
  <2>. QED
    BY <2>1 DEF RefInv, DesiredInv
<1>6. ASSUME NEW j \in 1..(i - 1), NEW t \in UnitsOfStage(j)
      PROVE  version[t] = New(t)
  <2>1. j \in DOMAIN Stages /\ j \in Nat /\ i \in Nat /\ j < i
    BY <1>1, StageType
  <2>2. j \notin Unfinished(listed)
    BY <2>1
  <2>3. Verdict(t, j, listed) = "noop"
    <3>1. Verdict(t, j, listed) \in Verdicts(j, listed)
      BY DEF Verdicts, UnitsOfStage
    <3>. QED
      BY <2>1, <2>2, <3>1 DEF Unfinished
  <2>4. seen.version[t] = Desired(t)
    BY <2>3 DEF Verdict
  <2>5. t \in Unit
    BY <2>1, StageType DEF UnitsOfStage, Range
  <2>. QED
    BY <1>5, <2>4, <2>5 DEF RefInv, SnapshotInv, Desired, New
<1>7. Desired(u) = New(u)
  BY <1>5 DEF Desired, New
<1>8. ToPlace(i, listed)[k][1] = u /\ ToPlace(i, listed)[k][2] = New(u)
  BY <1>2, <1>7
<1>. QED
  BY <1>1, <1>3, <1>5, <1>6, <1>8 DEF ToBePlaced

LEMMA ControllerKeepsRefInv ==
    ASSUME TwoReleasesOnly, OneReleaseEach, RefInv, ControllerStep
    PROVE  RefInv'
<1>1. Typed' /\ Typed
  BY ControllerStepTyped DEF RefInv
<1>2. SnapshotInv' /\ DesiredInv'
  BY SnapshotKept
<1>3. UNCHANGED external => WorldInv'
  BY DEF external, WorldInv, RefInv, OnOldOrNew, Started2
<1>4. DOMAIN todo' = {} => TodoInv'
  BY DEF TodoInv
<1>5. ASSUME UNCHANGED <<version, age>>, NEW p, ToBePlaced(p)
      PROVE  ToBePlaced(p)'
  BY <1>5 DEF ToBePlaced
<1>6. CASE CheckStages
  <2>. DEFINE listed == seen.listed \cup Listed({Unassigned})
  <2>1. /\ pc = "unassigned" /\ UNCHANGED external
        /\ \/ DOMAIN todo' = {}
           \/ \E i \in Unfinished(listed) : /\ \A j \in Unfinished(listed) : i <= j
                                            /\ todo' = ToPlace(i, listed)
    BY <1>1, <1>6, CheckStagesPlaces
  <2>. HIDE DEF listed
  <2>2. ASSUME NEW i \in Unfinished(listed), \A j \in Unfinished(listed) : i <= j, todo' = ToPlace(i, listed)
        PROVE  TodoInv'
    <3>1. \A k \in DOMAIN todo' : ToBePlaced(ToPlace(i, listed)[k]) /\ age[2] # "none"
      BY <2>1, <2>2, PlacesInOrder
    <3>2. UNCHANGED <<version, age>>
      BY <2>1 DEF external
    <3>. QED
      BY <2>2, <3>1, <3>2 DEF TodoInv, ToBePlaced
  <2>. QED
    BY <1>1, <1>2, <1>3, <1>4, <2>1, <2>2 DEF RefInv
<1>7. CASE Place \/ PlaceUnnoticed
  <2>1. pc = "execute" /\ Submit(Current) /\ UNCHANGED <<version, age>>
    BY <1>7 DEF Place, PlaceUnnoticed, restOfWorld
  <2>2. Min(DOMAIN todo) \in DOMAIN todo /\ Current = todo[Min(DOMAIN todo)]
    BY <1>1, <2>1, TodoType DEF Current
  <2>3. Current[2] = New(Current[1]) /\ age[2] # "none"
    BY <2>2 DEF RefInv, TodoInv, ToBePlaced
  <2>4. \A p \in Proposal : open'[p] > 0 => open[p] > 0 \/ p = Current
    BY <1>1, <2>1, SubmitOpens
  <2>5. WorldInv'
    <3>1. \A p \in Proposal : open'[p] > 0 => p[2] = New(p[1]) /\ age[2] # "none"
      BY <2>3, <2>4 DEF RefInv, WorldInv
    <3>. QED
      BY <2>1, <3>1 DEF RefInv, WorldInv, OnOldOrNew, Started2
  <2>6. TodoInv'
    <3>1. todo' = Rest \/ DOMAIN todo' = {}
      BY <1>7, NoTodoType DEF Place, PlaceUnnoticed, Leave
    <3>2. DOMAIN todo' \subseteq DOMAIN todo /\ \A k \in DOMAIN todo' : todo'[k] = todo[k]
      BY <1>1, <2>1, <3>1, TodoType
    <3>. QED
      BY <1>5, <2>1, <3>2 DEF TodoInv, RefInv
  <2>. QED
    BY <1>1, <1>2, <2>5, <2>6 DEF RefInv
<1>8. CASE DOMAIN todo' = {} /\ UNCHANGED external
  BY <1>1, <1>2, <1>3, <1>4, <1>8 DEF RefInv
<1>. QED
  BY <1>1, <1>6, <1>7, <1>8, Idling

LEMMA InitRefInv ==
    ASSUME TwoReleasesOnly, OneReleaseEach
    PROVE  Init => RefInv
<1>. SUFFICES ASSUME Init
              PROVE  RefInv
  OBVIOUS
<1>1. Typed /\ pc = "sync" /\ DOMAIN todo = {}
  BY InitTyped DEF Init
<1>2. /\ version = [u \in Unit |-> VersionFor[1][u]]
      /\ seen.version = [u \in Unit |-> VersionFor[1][u]]
  BY DEF Init, NothingSeen
<1>3. age[2] = "none" /\ \A p \in Proposal : open[p] = 0
  BY TwoReleasesType DEF Init
<1>4. WorldInv
  BY <1>2, <1>3, NothingSeenIsOld DEF WorldInv
<1>5. SnapshotInv
  BY <1>2, NothingSeenIsOld DEF SnapshotInv
<1>. QED
  BY <1>1, <1>4, <1>5 DEF RefInv, DesiredInv, TodoInv

LEMMA NextKeepsRefInv ==
    ASSUME TwoReleasesOnly, OneReleaseEach
    PROVE  RefInv /\ [Next]_vars => RefInv'
<1>1. ASSUME RefInv, UNCHANGED vars
      PROVE  RefInv'
  <2>1. Typed'
    BY <1>1, NextTyped DEF RefInv
  <2>2. UNCHANGED <<version, age, open, pc, seen, todo>>
    BY <1>1 DEF vars, external
  <2>. QED
    BY <1>1, <2>1, <2>2 DEF RefInv, WorldInv, SnapshotInv, DesiredInv, TodoInv, ToBePlaced,
                             OnOldOrNew, Started2
<1>. QED
  BY <1>1, ControllerKeepsRefInv, WorldKeepsRefInv DEF Next

-----------------------------------------------------------------------------
(* The rollout of the newer release is a StagedRollout. *)

\* A status that differs for one unit.
LEMMA BecomeStatus ==
    ASSUME NEW u \in Unit, NEW x, Status'[u] = x,
           \A t \in Unit : t # u => Status'[t] = Status[t]
    PROVE  Staged!Become(u, x)
<1>1. Status' = [t \in Unit |-> Status'[t]] /\ Status = [t \in Unit |-> Status[t]]
  BY DEF Status
<1>2. Status' = [t \in Unit |-> IF t = u THEN x ELSE Status[t]]
  BY <1>1
<1>3. [Status EXCEPT ![u] = x] = [t \in Unit |-> IF t = u THEN x ELSE Status[t]]
  BY <1>1
<1>. QED
  BY <1>2, <1>3 DEF Staged!Become

LEMMA SameStatus ==
    ASSUME \A t \in Unit : Status'[t] = Status[t]
    PROVE  UNCHANGED Status
<1>1. Status' = [t \in Unit |-> Status'[t]] /\ Status = [t \in Unit |-> Status[t]]
  BY DEF Status
<1>. QED
  BY <1>1

\* The status of a unit when the newest release is the second one.
LEMMA StatusOf ==
    ASSUME TwoReleasesOnly, NEW u \in Unit
    PROVE  /\ Status[u] = IF version[u] = New(u) THEN "done"
                          ELSE IF open[<<u, New(u)>>] > 0 THEN "proposed" ELSE "behind"
           /\ Status'[u] = IF version'[u] = New(u) THEN "done"
                          ELSE IF open'[<<u, New(u)>>] > 0 THEN "proposed" ELSE "behind"
  BY DEF Status, New, Newest, TwoReleasesOnly

\* Steps that are steps of the rollout, or change nothing in it.
LEMMA StagedStep ==
    ASSUME NEW u \in Unit,
           \A t \in Unit : t # u => Status'[t] = Status[t],
           \/ Status'[u] = Status[u]
           \/ Status[u] = "proposed" /\ Status'[u] = "behind"
           \/ Status[u] # "done" /\ Status'[u] = "done"
           \/ /\ Status[u] = "behind" /\ Status'[u] = "proposed"
              /\ \E i \in DOMAIN Stages : /\ u \in UnitsOfStage(i)
                                          /\ \A j \in 1..(i - 1) : \A t \in UnitsOfStage(j) : Status[t] = "done"
    PROVE  [Staged!Next]_Status
<1>1. CASE Status'[u] = Status[u]
  BY <1>1, SameStatus
<1>2. CASE Status[u] = "proposed" /\ Status'[u] = "behind"
  <2>1. Staged!TurnDown(u)
    BY <1>2, BecomeStatus DEF Staged!TurnDown
  <2>. QED
    BY <2>1 DEF Staged!Next
<1>3. CASE Status[u] # "done" /\ Status'[u] = "done"
  <2>1. Staged!Complete(u)
    BY <1>3, BecomeStatus DEF Staged!Complete
  <2>. QED
    BY <2>1 DEF Staged!Next
<1>4. ASSUME Status[u] = "behind", Status'[u] = "proposed",
             NEW i \in DOMAIN Stages, u \in UnitsOfStage(i),
             \A j \in 1..(i - 1) : \A t \in UnitsOfStage(j) : Status[t] = "done"
      PROVE  [Staged!Next]_Status
  <2>. DEFINE stages == [j \in DOMAIN Stages |-> UnitsOfStage(j)]
  <2>1. u \in stages[i] /\ i \in DOMAIN stages
    BY <1>4
  <2>2. \A j \in 1..(i - 1) : \A t \in stages[j] : Status[t] = "done"
    <3>1. \A j \in 1..(i - 1) : j \in DOMAIN Stages
      BY StageType
    <3>. QED
      BY <1>4, <3>1
  <2>3. Staged!Become(u, "proposed")
    BY <1>4, BecomeStatus
  <2>4. Staged!Propose(u, i)
    BY <1>4, <2>1, <2>2, <2>3 DEF Staged!Propose
  <2>. QED
    BY <2>1, <2>4 DEF Staged!Next
<1>. QED
  BY <1>1, <1>2, <1>3, <1>4

\* The current proposal is of the newer release, and comes in its turn.
LEMMA PlaceStages ==
    ASSUME TwoReleasesOnly, OneReleaseEach, RefInv, Place \/ PlaceUnnoticed
    PROVE  [Staged!Next]_Status
<1>1. pc = "execute" /\ Submit(Current) /\ UNCHANGED version /\ Typed
  BY DEF Place, PlaceUnnoticed, restOfWorld, RefInv
<1>2. Current \in Proposal /\ ToBePlaced(Current)
  <2>1. Min(DOMAIN todo) \in DOMAIN todo /\ Current = todo[Min(DOMAIN todo)] /\ Current \in Proposal
    BY <1>1, TodoType DEF Current
  <2>. QED
    BY <2>1 DEF RefInv, TodoInv
<1>3. PICK u \in Unit : Current = <<u, New(u)>>
  <2>. HIDE DEF Current
  <2>1. Current[2] = New(Current[1])
    BY <1>2 DEF ToBePlaced
  <2>. QED
    BY <1>2, <2>1 DEF Proposal
<1>4. \A t \in Unit : <<t, New(t)>> \in Proposal
  BY TwoReleasesType DEF Proposal
<1>5. \A t \in Unit : t # u => Status'[t] = Status[t]
  <2>1. ASSUME NEW t \in Unit, t # u
        PROVE  Status'[t] = Status[t]
    <3>1. <<t, New(t)>> # Current
      BY <1>3, <2>1
    <3>2. open'[<<t, New(t)>>] = open[<<t, New(t)>>]
      BY <1>1, <1>4, <3>1, SubmitOpens
    <3>. QED
      BY <1>1, <3>2, StatusOf
  <2>. QED
    BY <2>1
<1>6. open[<<u, New(u)>>] \in Nat /\ open'[<<u, New(u)>>] = open[<<u, New(u)>>] + 1
  BY <1>1, <1>3, <1>4, SubmitOpens DEF Typed, TypeOK
<1>7. Status'[u] = Status[u] \/ (Status[u] = "behind" /\ Status'[u] = "proposed")
  BY <1>1, <1>6, StatusOf
<1>8. \E i \in DOMAIN Stages : /\ u \in UnitsOfStage(i)
                              /\ \A j \in 1..(i - 1) : \A t \in UnitsOfStage(j) : Status[t] = "done"
  <2>1. Current[1] = u
    BY <1>3
  <2>2. PICK i \in DOMAIN Stages :
           /\ u \in UnitsOfStage(i)
           /\ \A j \in 1..(i - 1) : \A t \in UnitsOfStage(j) : version[t] = New(t)
    BY <1>2, <2>1 DEF ToBePlaced
  <2>3. ASSUME NEW j \in 1..(i - 1), NEW t \in UnitsOfStage(j)
        PROVE  Status[t] = "done"
    <3>1. j \in DOMAIN Stages
      BY StageType
    <3>2. t \in Unit
      BY <3>1, StageType DEF UnitsOfStage, Range
    <3>. QED
      BY <2>2, <3>2, StatusOf
  <2>. QED
    BY <2>2, <2>3
<1>. QED
  BY <1>5, <1>7, <1>8, StagedStep

LEMMA WorldStages ==
    ASSUME TwoReleasesOnly, OneReleaseEach, RefInv, WorldStep
    PROVE  [Staged!Next]_Status
<1>1. Typed /\ WorldInv /\ \A t \in Unit : <<t, New(t)>> \in Proposal
  BY TwoReleasesType DEF RefInv, Proposal
<1>2. ASSUME UNCHANGED <<version, open>>
      PROVE  [Staged!Next]_Status
  BY <1>2, SameStatus, StatusOf
<1>3. ASSUME NEW p \in Proposal, ExecuteProposal(p)
      PROVE  [Staged!Next]_Status
  <2>1. open[p] > 0 /\ open' = [open EXCEPT ![p] = @ - 1] /\ version' = [version EXCEPT ![p[1]] = p[2]]
    BY <1>3 DEF ExecuteProposal, Deploy
  <2>2. PICK u \in Unit : p = <<u, New(u)>>
    <3>1. p[2] = New(p[1])
      BY <1>1, <2>1 DEF WorldInv
    <3>. QED
      BY <3>1 DEF Proposal
  <2>3. version \in [Unit -> Version] /\ open \in [Proposal -> Nat]
    BY <1>1 DEF Typed, TypeOK
  <2>4. version'[u] = New(u)
    BY <2>1, <2>2, <2>3
  <2>5. ASSUME NEW t \in Unit, t # u
        PROVE  Status'[t] = Status[t]
    <3>1. <<t, New(t)>> # p
      BY <2>2, <2>5
    <3>2. version'[t] = version[t] /\ open'[<<t, New(t)>>] = open[<<t, New(t)>>]
      BY <1>1, <2>1, <2>2, <2>3, <2>5, <3>1
    <3>. QED
      BY <3>2, StatusOf
  <2>6. Status'[u] = "done"
    BY <2>4, StatusOf
  <2>. QED
    BY <2>5, <2>6, StagedStep
<1>4. ASSUME NEW p \in Proposal, TurnedDown(p)
      PROVE  [Staged!Next]_Status
  <2>1. open[p] > 0 /\ open' = [open EXCEPT ![p] = @ - 1] /\ UNCHANGED version
    BY <1>4 DEF TurnedDown, RejectProposal, FailProposal, restOfWorld
  <2>2. PICK u \in Unit : p = <<u, New(u)>>
    <3>1. p[2] = New(p[1])
      BY <1>1, <2>1 DEF WorldInv
    <3>. QED
      BY <3>1 DEF Proposal
  <2>3. open \in [Proposal -> Nat]
    BY <1>1 DEF Typed, TypeOK
  <2>4. ASSUME NEW t \in Unit, t # u
        PROVE  Status'[t] = Status[t]
    <3>1. <<t, New(t)>> # p
      BY <2>2, <2>4
    <3>2. open'[<<t, New(t)>>] = open[<<t, New(t)>>]
      BY <1>1, <2>1, <2>3, <3>1
    <3>. QED
      BY <2>1, <3>2, StatusOf
  <2>5. Status'[u] = Status[u] \/ (Status[u] = "proposed" /\ Status'[u] = "behind")
    BY <2>1, <2>2, StatusOf
  <2>. QED
    BY <2>4, <2>5, StagedStep
<1>5. ASSUME NEW s \in Subnet, NEW v \in Version, UpgradeByOperator(s, v)
      PROVE  [Staged!Next]_Status
  <2>1. version' = [version EXCEPT ![s] = v] /\ UNCHANGED open /\ s \in Unit
    BY <1>5 DEF UpgradeByOperator, Deploy, Unit
  <2>2. version \in [Unit -> Version]
    BY <1>1 DEF Typed, TypeOK
  <2>3. version[s] # New(s)
    BY <1>1, <1>5, <2>1, OperatorOnward, TwoReleasesType
  <2>4. \A t \in Unit : t # s => Status'[t] = Status[t]
    BY <2>1, <2>2, StatusOf
  <2>5. Status'[s] = Status[s] \/ (Status[s] # "done" /\ Status'[s] = "done")
    BY <2>1, <2>3, StatusOf
  <2>. QED
    BY <2>1, <2>4, <2>5, StagedStep
<1>6. ASSUME NEW s \in Subnet, RunNewVersion(s) \/ BakeTimePasses(s) \/ Forget(s)
      PROVE  [Staged!Next]_Status
  BY <1>2, <1>6 DEF RunNewVersion, BakeTimePasses, Forget
<1>7. ASSUME \/ \E r \in Release : WeekPasses(r)
             \/ \E v \in Version : Elect(v)
             \/ EditIndex
      PROVE  [Staged!Next]_Status
  BY <1>2, <1>7 DEF WeekPasses, Elect, EditIndex
<1>. QED
  BY <1>3, <1>4, <1>5, <1>6, <1>7 DEF WorldStep, TurnedDown

LEMMA NextStages ==
    ASSUME TwoReleasesOnly, OneReleaseEach
    PROVE  RefInv /\ [Next]_vars => [Staged!Next]_Status
<1>1. ASSUME UNCHANGED <<version, open>>
      PROVE  [Staged!Next]_Status
  BY <1>1, SameStatus, StatusOf
<1>2. ASSUME RefInv, ControllerStep
      PROVE  [Staged!Next]_Status
  <2>1. CASE Place \/ PlaceUnnoticed
    BY <1>2, <2>1, PlaceStages
  <2>2. CASE ~(Place \/ PlaceUnnoticed)
    <3>1. UNCHANGED <<version, open>>
      BY <1>2, <2>2 DEF ControllerStep, Sync, Fetch, QueryBake, QueryStart, ListSubnetProposals,
                        CheckStages, PlaceFails, StartOver, external
    <3>. QED
      BY <1>1, <3>1
  <2>. QED
    BY <2>1, <2>2
<1>3. UNCHANGED vars => UNCHANGED <<version, open>>
  BY DEF vars, external
<1>. QED
  BY <1>1, <1>2, <1>3, WorldStages DEF Next

LEMMA InitStages ==
    ASSUME TwoReleasesOnly, OneReleaseEach
    PROVE  Init => Staged!Init
<1>1. ASSUME Init
      PROVE  Status = [u \in Unit |-> "behind"]
  <2>1. \A u \in Unit : version[u] # New(u)
    BY <1>1, NothingSeenIsOld DEF Init
  <2>2. \A u \in Unit : open[<<u, New(u)>>] = 0
    <3>1. \A u \in Unit : <<u, New(u)>> \in Proposal
      BY TwoReleasesType DEF Proposal
    <3>. QED
      BY <1>1, <3>1 DEF Init
  <2>3. ASSUME NEW u \in Unit
        PROVE  Status[u] = "behind"
    <3>1. version[u] # New(u) /\ ~(open[<<u, New(u)>>] > 0)
      BY <2>1, <2>2
    <3>. QED
      BY <3>1, StatusOf
  <2>4. Status = [u \in Unit |-> Status[u]]
    BY DEF Status
  <2>. QED
    BY <2>3, <2>4
<1>. QED
  BY <1>1 DEF Staged!Init

\* From one release to the next the controller implements StagedRollout: a unit is
\* proposed only when every unit of the stages before it runs the new release, and
\* nothing goes back; for any subnets, stages and feature builds, stale copies of the
\* index, stale snapshots and listings, failures of the
\* services, proposals that are rejected or fail, and restarts.
THEOREM RolloutIsStaged ==
    ASSUME TwoReleasesOnly, OneReleaseEach
    PROVE  Spec => RolloutSpec
<1>1. Init => RefInv /\ Staged!Init
  BY InitRefInv, InitStages
<1>2. RefInv /\ [Next]_vars => RefInv'
  BY NextKeepsRefInv
<1>3. RefInv /\ [Next]_vars => [Staged!Next]_Status
  BY NextStages
<1>. QED
  BY <1>1, <1>2, <1>3, PTL DEF Spec, RolloutSpec, Staged!Spec

-----------------------------------------------------------------------------
(* Baked before the next stage.  If the replicas ran what the registry said  *)
(* when the metrics were read, a subnet that was seen on its new version and *)
(* baked stays so, however the replicas lag before and after.                *)

ReplicasFollow == \A s \in Subnet : replicas[s] = version[s]

\* The metrics are read while no replicas lag behind the registry.
MetricsAreUpToDate == [][QueryBake => ReplicasFollow]_vars

\* A subnet whose replicas run its new version, too.
Runs(s) == version[s] = New(s) /\ replicas[s] = New(s)

\* A subnet that was seen on its new version runs it; if it was baked it is not young again.
BakeRead == pc \in {"start", "subnets", "unassigned"} =>
              \A s \in Subnet : seen.version[s] = New(s) =>
                Runs(s) /\ (seen.bake[s] = "baked" => bake[s] # "young")

\* Upgraded and, where the stage waits for that, baked.
Settled(j) == \A s \in UnitsOfStage(j) \cap Subnet : Runs(s) /\ (Stages[j].bake => bake[s] # "young")

BakedBefore(u) == \E i \in DOMAIN Stages : u \in UnitsOfStage(i) /\ \A j \in 1..(i - 1) : Settled(j)

TodoBaked == \A k \in DOMAIN todo : BakedBefore(todo[k][1])

BakeInv == RefInv /\ BakeRead /\ TodoBaked

\* A subnet that runs its new version goes on to, and its bake time does not start anew.
RunOn == \A s \in Subnet : Runs(s) => Runs(s)' /\ (bake[s] # "young" => bake'[s] # "young")

LEMMA DeployRunsOn ==
    ASSUME Typed, Onward, NEW u \in Unit, NEW v \in Version, Deploy(u, v)
    PROVE  RunOn
<1>1. /\ version' = [version EXCEPT ![u] = v] /\ version \in [Unit -> Version]
      /\ replicas \in [Subnet -> Version] /\ bake \in [Subnet -> Bake]
  BY DEF Deploy, Typed, TypeOK
<1>2. \A s \in Subnet : s \in Unit
  BY DEF Unit
<1>3. \A s \in Subnet : Runs(s) => version'[s] = New(s)
  BY <1>2 DEF Runs, Onward
<1>4. CASE u = Unassigned \/ ReplicasLag
  <2>1. UNCHANGED <<replicas, bake>>
    BY <1>4 DEF Deploy
  <2>. QED
    BY <1>3, <2>1 DEF RunOn, Runs, New
<1>5. CASE ~(u = Unassigned \/ ReplicasLag)
  <2>1. u \in Subnet /\ Switch(u, v)
    BY <1>5 DEF Deploy, Unit
  <2>2. /\ replicas' = [replicas EXCEPT ![u] = v]
        /\ bake' = IF replicas[u] = v THEN bake ELSE [bake EXCEPT ![u] = "young"]
    BY <2>1 DEF Switch
  <2>3. ASSUME NEW s \in Subnet, Runs(s)
        PROVE  replicas'[s] = New(s) /\ (bake[s] # "young" => bake'[s] # "young")
    <3>1. CASE s = u
      <4>1. v = New(s) /\ replicas[s] = New(s)
        BY <1>1, <1>2, <1>3, <2>3, <3>1 DEF Runs
      <4>. QED
        BY <1>1, <2>2, <3>1, <4>1
    <3>2. CASE s # u
      <4>1. replicas[s] = New(s)
        BY <2>3 DEF Runs
      <4>2. replicas'[s] = replicas[s] /\ bake'[s] = bake[s]
        BY <1>1, <2>2, <3>2
      <4>. QED
        BY <4>1, <4>2
    <3>. QED
      BY <3>1, <3>2
  <2>. QED
    BY <1>3, <2>3 DEF RunOn, Runs, New
<1>. QED
  BY <1>4, <1>5

LEMMA WorldRunsOn ==
    ASSUME Typed, Onward, WorldStep
    PROVE  RunOn
<1>1. ASSUME NEW p \in Proposal, ExecuteProposal(p)
      PROVE  RunOn
  <2>1. p[1] \in Unit /\ p[2] \in Version /\ Deploy(p[1], p[2])
    BY <1>1 DEF ExecuteProposal, Proposal
  <2>. QED
    BY <2>1, DeployRunsOn
<1>2. ASSUME NEW s \in Subnet, NEW v \in Version, UpgradeByOperator(s, v)
      PROVE  RunOn
  <2>1. s \in Unit /\ Deploy(s, v)
    BY <1>2 DEF UpgradeByOperator, Unit
  <2>. QED
    BY <2>1, DeployRunsOn
<1>3. ASSUME NEW s \in Subnet, RunNewVersion(s)
      PROVE  RunOn
  <2>1. /\ replicas[s] # version[s] /\ UNCHANGED version
        /\ replicas' = [replicas EXCEPT ![s] = version[s]]
        /\ bake' = [bake EXCEPT ![s] = "young"]
    BY <1>3 DEF RunNewVersion, Switch
  <2>2. replicas \in [Subnet -> Version] /\ bake \in [Subnet -> Bake]
    BY DEF Typed, TypeOK
  <2>3. ASSUME NEW t \in Subnet, Runs(t)
        PROVE  /\ version'[t] = New(t) /\ replicas'[t] = New(t)
               /\ bake[t] # "young" => bake'[t] # "young"
    <3>1. version[t] = New(t) /\ replicas[t] = New(t)
      BY <2>3 DEF Runs
    <3>2. t # s
      BY <2>1, <3>1
    <3>. QED
      BY <2>1, <2>2, <3>1, <3>2
  <2>. QED
    BY <2>3 DEF RunOn, Runs, New
<1>4. ASSUME UNCHANGED <<version, replicas>>, UNCHANGED bake
      PROVE  RunOn
  BY <1>4 DEF RunOn, Runs, New
<1>5. ASSUME NEW s \in Subnet, BakeTimePasses(s) \/ Forget(s)
      PROVE  RunOn
  <2>1. UNCHANGED <<version, replicas>> /\ bake \in [Subnet -> Bake]
    BY <1>5 DEF BakeTimePasses, Forget, Typed, TypeOK
  <2>2. \E b \in {"baked", "unknown"} : bake' = [bake EXCEPT ![s] = b]
    BY <1>5 DEF BakeTimePasses, Forget
  <2>. QED
    BY <2>1, <2>2 DEF RunOn, Runs, New
<1>6. ASSUME NEW p \in Proposal, TurnedDown(p)
      PROVE  RunOn
  BY <1>4, <1>6 DEF TurnedDown, RejectProposal, FailProposal, restOfWorld
<1>7. ASSUME (\E r \in Release : WeekPasses(r)) \/ (\E v \in Version : Elect(v)) \/ EditIndex
      PROVE  RunOn
  BY <1>4, <1>7 DEF WeekPasses, Elect, EditIndex
<1>. QED
  BY <1>1, <1>2, <1>3, <1>5, <1>6, <1>7 DEF WorldStep, TurnedDown

\* What is settled stays settled.
LEMMA SettledStays ==
    ASSUME RunOn, NEW j \in DOMAIN Stages, Settled(j)
    PROVE  Settled(j)'
<1>1. ASSUME NEW s \in UnitsOfStage(j) \cap Subnet
      PROVE  Runs(s)' /\ (Stages[j].bake => bake'[s] # "young")
  BY DEF Settled, RunOn
<1>. QED
  BY <1>1 DEF Settled, UnitsOfStage

LEMMA StaysBakedBefore ==
    ASSUME RunOn, NEW u, BakedBefore(u)
    PROVE  BakedBefore(u)'
<1>1. PICK i \in DOMAIN Stages : u \in UnitsOfStage(i) /\ \A j \in 1..(i - 1) : Settled(j)
  BY DEF BakedBefore
<1>2. \A j \in 1..(i - 1) : j \in DOMAIN Stages
  BY StageType
<1>3. \A j \in 1..(i - 1) : Settled(j)'
  BY <1>1, <1>2, SettledStays
<1>. QED
  BY <1>1, <1>3 DEF BakedBefore

LEMMA TodoStaysBaked ==
    ASSUME TodoBaked, RunOn, DOMAIN todo' \subseteq DOMAIN todo,
           \A k \in DOMAIN todo' : todo'[k] = todo[k]
    PROVE  TodoBaked'
  BY StaysBakedBefore DEF TodoBaked

\* What a query reads in the iteration is forgotten with the position in it.
LEMMA BakeReadKept ==
    ASSUME TwoReleasesOnly, OneReleaseEach, BakeInv, ControllerStep, QueryBake => ReplicasFollow
    PROVE  BakeRead'
<1>1. UNCHANGED <<version, replicas, bake>>
  BY DEF ControllerStep, Sync, Fetch, QueryBake, QueryStart, ListSubnetProposals, CheckStages,
         Place, PlaceUnnoticed, PlaceFails, StartOver, external, restOfWorld
<1>2. seen \in Seen
  BY DEF BakeInv, RefInv, Typed, TypeOK
<1>3. CASE QueryBake
  <2>1. pc' \in {"start", "subnets", "unassigned"} => seen' = [seen EXCEPT !.bake = bake]
    BY <1>3 DEF QueryBake
  <2>2. pc' \in {"start", "subnets", "unassigned"} => seen'.bake = bake /\ seen'.version = seen.version
    BY <1>2, <2>1 DEF Seen
  <2>3. ASSUME NEW s \in Subnet, seen.version[s] = New(s)
        PROVE  Runs(s)
    <3>1. s \in Unit /\ SnapshotInv
      BY DEF Unit, BakeInv, RefInv
    <3>2. version[s] = New(s)
      BY <2>3, <3>1 DEF SnapshotInv
    <3>. QED
      BY <1>3, <3>2 DEF ReplicasFollow, Runs
  <2>. QED
    BY <1>1, <2>2, <2>3 DEF BakeRead, Runs, New
<1>4. CASE QueryStart
  <2>1. pc' \in {"start", "subnets", "unassigned"} =>
          pc = "start" /\ seen' = [seen EXCEPT !.desired = DesiredRelease]
    BY <1>4 DEF QueryStart
  <2>2. pc' \in {"start", "subnets", "unassigned"} =>
          pc = "start" /\ seen'.bake = seen.bake /\ seen'.version = seen.version
    BY <1>2, <2>1 DEF Seen
  <2>. QED
    BY <1>1, <2>2 DEF BakeRead, BakeInv, Runs, New
<1>5. CASE ListSubnetProposals
  <2>1. pc = "subnets" /\ seen' = [seen EXCEPT !.listed = Listed(Subnet)]
    BY <1>5 DEF ListSubnetProposals
  <2>2. seen'.bake = seen.bake /\ seen'.version = seen.version
    BY <1>2, <2>1 DEF Seen
  <2>. QED
    BY <1>1, <2>1, <2>2 DEF BakeRead, BakeInv, Runs, New
<1>6. CASE Sync \/ Fetch \/ CheckStages \/ Place \/ PlaceUnnoticed \/ PlaceFails \/ StartOver
  <2>1. pc' \in {"fetch", "bake", "stopped", "sync", "execute"}
    BY <1>6 DEF Sync, Fetch, CheckStages, Stop, ActOn, Place, PlaceUnnoticed, PlaceFails, StartOver, Leave
  <2>. QED
    BY <2>1 DEF BakeRead
<1>. QED
  BY <1>3, <1>4, <1>5, <1>6 DEF ControllerStep

\* The stages before the first one that is not over are upgraded and baked.
LEMMA PlacesAreBaked ==
    ASSUME TwoReleasesOnly, OneReleaseEach, BakeInv, pc = "unassigned",
           NEW listed, NEW i \in Unfinished(listed),
           \A j \in Unfinished(listed) : i <= j,
           NEW k \in DOMAIN ToPlace(i, listed)
    PROVE  BakedBefore(ToPlace(i, listed)[k][1])
<1>. DEFINE u == UnitsOf(Stages[i])[k]
<1>1. i \in DOMAIN Stages /\ TypeOK /\ RefInv
  BY DEF Unfinished, BakeInv, RefInv, Typed
<1>2. k \in DOMAIN UnitsOf(Stages[i]) /\ ToPlace(i, listed)[k] = <<u, Desired(u)>>
  BY <1>1, ToPlaceType DEF PlacesOf
<1>3. u \in Unit /\ u \in UnitsOfStage(i)
  BY <1>1, <1>2, StageType DEF UnitsOfStage, Range
<1>. HIDE DEF u
<1>4. seen.desired = 2
  <2>1. ToBePlaced(ToPlace(i, listed)[k])
    BY <1>1, PlacesInOrder
  <2>2. Desired(u) = New(u)
    BY <1>2, <2>1 DEF ToBePlaced
  <2>3. seen.desired \in {1, 2}
    BY <1>1, TwoReleasesType DEF TypeOK, Seen
  <2>4. seen.desired = 1 => Desired(u) # New(u)
    BY <1>3, TwoReleasesType DEF Desired
  <2>. QED
    BY <2>2, <2>3, <2>4
<1>5. ASSUME NEW j \in 1..(i - 1), NEW s \in UnitsOfStage(j) \cap Subnet
      PROVE  Runs(s) /\ (Stages[j].bake => bake[s] # "young")
  <2>1. j \in DOMAIN Stages /\ j \in Nat /\ i \in Nat /\ j < i
    BY <1>1, StageType
  <2>2. j \notin Unfinished(listed)
    BY <2>1
  <2>3. Verdict(s, j, listed) = "noop"
    <3>1. Verdict(s, j, listed) \in Verdicts(j, listed)
      BY DEF Verdicts, UnitsOfStage
    <3>. QED
      BY <2>1, <2>2, <3>1 DEF Unfinished
  <2>4. seen.version[s] = Desired(s) /\ Upgraded(s, j) = "noop"
    BY <2>3 DEF Verdict
  <2>5. s \in Unit /\ s # Unassigned
    BY UnitAssumption DEF Unit
  <2>6. seen.version[s] = New(s)
    BY <1>4, <2>4 DEF Desired, New
  <2>7. seen.bake[s] \in Bake
    BY <1>1 DEF TypeOK, Seen
  <2>8. Stages[j].bake => seen.bake[s] = "baked"
    <3>1. seen.bake[s] = "unknown" => Upgraded(s, j) = "error"
      BY <2>5 DEF Upgraded
    <3>2. seen.bake[s] = "young" /\ Stages[j].bake => Upgraded(s, j) = "baking"
      BY <2>5 DEF Upgraded
    <3>. QED
      BY <2>4, <2>7, <3>1, <3>2 DEF Bake
  <2>. QED
    BY <2>6, <2>8 DEF BakeInv, BakeRead
<1>6. ToPlace(i, listed)[k][1] = u
  BY <1>2
<1>. QED
  BY <1>1, <1>3, <1>5, <1>6 DEF BakedBefore, Settled

LEMMA NextKeepsBakeInv ==
    ASSUME TwoReleasesOnly, OneReleaseEach
    PROVE  BakeInv /\ [Next]_vars /\ [QueryBake => ReplicasFollow]_vars => BakeInv'
<1>. SUFFICES ASSUME BakeInv, [Next]_vars, [QueryBake => ReplicasFollow]_vars
              PROVE  BakeRead' /\ TodoBaked'
  BY NextKeepsRefInv DEF BakeInv
<1>0. Typed /\ RefInv /\ SnapshotInv /\ WorldInv /\ TodoBaked
  BY DEF BakeInv, RefInv
<1>1. CASE WorldStep
  <2>1. RunOn /\ Onward
    BY <1>0, <1>1, WorldRunsOn, WorldOnward
  <2>2. UNCHANGED <<pc, seen, todo>>
    BY <1>0, <1>1, WorldOpensNothing DEF controller
  <2>3. BakeRead'
    BY <2>1, <2>2 DEF BakeRead, BakeInv, RunOn, New
  <2>4. TodoBaked'
    BY <1>0, <2>1, <2>2, TodoStaysBaked
  <2>. QED
    BY <2>3, <2>4
<1>2. UNCHANGED <<version, replicas, bake>> => RunOn
  BY DEF RunOn, Runs, New
<1>3. CASE UNCHANGED vars
  <2>1. UNCHANGED <<version, replicas, bake, pc, seen, todo>>
    BY <1>3 DEF vars, external
  <2>2. TodoBaked'
    BY <1>0, <1>2, <2>1, TodoStaysBaked
  <2>3. BakeRead'
    BY <2>1 DEF BakeInv, BakeRead, Runs, New
  <2>. QED
    BY <2>2, <2>3
<1>4. CASE ControllerStep /\ ~UNCHANGED vars
  <2>1. UNCHANGED <<version, replicas, bake>>
    BY <1>4 DEF ControllerStep, Sync, Fetch, QueryBake, QueryStart, ListSubnetProposals, CheckStages,
           Place, PlaceUnnoticed, PlaceFails, StartOver, external, restOfWorld
  <2>2. QueryBake => ReplicasFollow
    BY <1>4
  <2>3. RunOn /\ BakeRead'
    BY <1>2, <1>4, <2>1, <2>2, BakeReadKept
  <2>4. DOMAIN todo' = {} => TodoBaked'
    BY DEF TodoBaked
  <2>5. CASE CheckStages
    <3>. DEFINE listed == seen.listed \cup Listed({Unassigned})
    <3>1. /\ pc = "unassigned"
          /\ \/ DOMAIN todo' = {}
             \/ \E i \in Unfinished(listed) : /\ \A j \in Unfinished(listed) : i <= j
                                              /\ todo' = ToPlace(i, listed)
      BY <1>0, <2>5, CheckStagesPlaces
    <3>. HIDE DEF listed
    <3>2. ASSUME NEW i \in Unfinished(listed), \A j \in Unfinished(listed) : i <= j, todo' = ToPlace(i, listed)
          PROVE  TodoBaked'
      <4>1. \A k \in DOMAIN todo' : BakedBefore(ToPlace(i, listed)[k][1])
        BY <3>1, <3>2, PlacesAreBaked
      <4>2. ASSUME NEW k \in DOMAIN todo'
            PROVE  BakedBefore(todo[k][1])'
        <5>1. PICK u : u = todo'[k][1] /\ BakedBefore(u)
          BY <3>2, <4>1
        <5>2. BakedBefore(u)'
          BY <2>3, <5>1, StaysBakedBefore
        <5>. QED
          BY <5>1, <5>2
      <4>. QED
        BY <4>2 DEF TodoBaked
    <3>. QED
      BY <2>3, <2>4, <3>1, <3>2
  <2>6. CASE Place
    <3>1. pc = "execute" /\ todo' = Rest
      BY <2>6 DEF Place, Leave
    <3>2. DOMAIN todo' \subseteq DOMAIN todo /\ \A k \in DOMAIN todo' : todo'[k] = todo[k]
      BY <1>0, <3>1, TodoType
    <3>. QED
      BY <1>0, <2>3, <3>2, TodoStaysBaked
  <2>. QED
    BY <1>0, <1>4, <2>3, <2>4, <2>5, <2>6, Idling
<1>. QED
  BY <1>1, <1>3, <1>4 DEF Next

\* If no replicas lag behind the registry when the metrics are read, a proposal of a
\* stage is placed only when the subnets of the stages before it run their new version
\* and, where the stage asks for it, have run it for the bake time; however old the
\* snapshot, the metrics and the listings are by then, and however the replicas lag at
\* any other time.  With a lag at that moment the promise is broken (README).
THEOREM NothingBeforeTheBake ==
    ASSUME TwoReleasesOnly, OneReleaseEach, OneStageEach
    PROVE  Spec /\ MetricsAreUpToDate => BakedBeforeNextStage
<1>1. Init => BakeInv
  <2>. SUFFICES ASSUME Init
                PROVE  BakeInv
    OBVIOUS
  <2>1. RefInv /\ pc = "sync" /\ DOMAIN todo = {}
    BY InitRefInv DEF Init
  <2>. QED
    BY <2>1 DEF BakeInv, BakeRead, TodoBaked
<1>2. BakeInv /\ [Next]_vars /\ [QueryBake => ReplicasFollow]_vars => BakeInv'
  BY NextKeepsBakeInv
<1>3. ASSUME BakeInv, [Next]_vars, NEW p \in Proposal, Placed(p)
      PROVE  \A j \in DOMAIN Stages : p[1] \in UnitsOfStage(j) =>
               \A i \in 1..(j - 1) : \A s \in UnitsOfStage(i) \cap Subnet :
                 /\ replicas[s] = VersionFor[ReleaseOfProposal(p)][s]
                 /\ Stages[i].bake => bake[s] # "young"
  <2>1. RefInv /\ Typed /\ pc = "execute" /\ p = Current
    BY <1>3, PlacedIsCurrent DEF BakeInv, RefInv
  <2>2. Min(DOMAIN todo) \in DOMAIN todo /\ p = todo[Min(DOMAIN todo)]
    BY <2>1, TodoType DEF Current
  <2>3. ToBePlaced(p) /\ BakedBefore(p[1])
    BY <1>3, <2>1, <2>2 DEF BakeInv, RefInv, TodoInv, TodoBaked
  <2>4. ReleaseOfProposal(p) = 2
    <3>1. p[1] \in Unit /\ p[2] \in VersionsIn[2] /\ 2 \in Release
      BY <2>3, TwoReleasesType DEF ToBePlaced, Proposal
    <3>. QED
      BY <3>1, ReleaseOfProposalIs
  <2>5. ASSUME NEW j \in DOMAIN Stages, p[1] \in UnitsOfStage(j), NEW i \in 1..(j - 1),
               NEW s \in UnitsOfStage(i) \cap Subnet
        PROVE  replicas[s] = VersionFor[2][s] /\ (Stages[i].bake => bake[s] # "young")
    <3>1. PICK j2 \in DOMAIN Stages : p[1] \in UnitsOfStage(j2) /\ \A h \in 1..(j2 - 1) : Settled(h)
      BY <2>3 DEF BakedBefore
    <3>2. j2 = j
      BY <2>5, <3>1 DEF OneStageEach
    <3>3. Settled(i)
      BY <3>1, <3>2
    <3>. QED
      BY <3>3 DEF Settled, Runs, New
  <2>. QED
    BY <2>4, <2>5
<1>4. BakeInv /\ [Next]_vars =>
        [\A p \in Proposal : Placed(p) =>
           \A j \in DOMAIN Stages : p[1] \in UnitsOfStage(j) =>
             \A i \in 1..(j - 1) : \A s \in UnitsOfStage(i) \cap Subnet :
               /\ replicas[s] = VersionFor[ReleaseOfProposal(p)][s]
               /\ Stages[i].bake => bake[s] # "young"]_vars
  BY <1>3
<1>. QED
  BY <1>1, <1>2, <1>4, PTL DEF Spec, BakedBeforeNextStage, MetricsAreUpToDate

-----------------------------------------------------------------------------
(* The end of the program.  Where both releases are in the index it read,   *)
(* the newer one is the one that is desired.                                 *)

NewDesired == pc \in {"subnets", "unassigned"} /\ checkout.published = 2 => seen.desired = 2

StopInv == RefInv /\ NewDesired

\* With both releases in the index the newer one is desired.
LEMMA NewerIsDesired ==
    ASSUME TwoReleasesOnly, Typed, ~Panics, checkout.published = 2
    PROVE  DesiredRelease = 2
<1>1. ASSUME NEW s \in Subnet
      PROVE  Max(ReleasesWith(seen.version[s])) \in {1, 2}
  <2>1. ReleasesWith(seen.version[s]) \in SUBSET (1..2) /\ ReleasesWith(seen.version[s]) # {}
    BY DEF ReleasesWith, Panics
  <2>2. Max(ReleasesWith(seen.version[s])) \in ReleasesWith(seen.version[s])
    BY <2>1, MaxType
  <2>. QED
    BY <2>1, <2>2
<1>2. Active \in SUBSET (1..2)
  BY <1>1 DEF Active
<1>3. Active # {}
  <2>1. Cardinality(Active) # 0
    BY DEF Panics
  <2>. QED
    BY <2>1, FS_EmptySet
<1>4. Max(Active) \in Active /\ Max(Active) \in 1..2 /\ \A y \in Active : y <= Max(Active)
  <2>1. Max(Active) \in Active /\ \A y \in Active : y <= Max(Active)
    BY <1>2, <1>3, MaxType
  <2>. QED
    BY <1>2, <2>1
<1>5. CASE Max(Active) = 2
  BY <1>5 DEF DesiredRelease
<1>6. CASE Max(Active) = 1
  <2>1. Active = {1}
    <3>1. \A y \in Active : y \in 1..2 /\ y <= 1
      BY <1>2, <1>4, <1>6
    <3>2. \A y \in Active : y = 1
      BY <3>1
    <3>. QED
      BY <1>3, <3>2
  <2>2. Cardinality(Active) = 1
    BY <2>1, FS_Singleton
  <2>. QED
    BY <1>6, <2>2 DEF DesiredRelease
<1>. QED
  BY <1>4, <1>5, <1>6

LEMMA DesiredStaysNew ==
    ASSUME TwoReleasesOnly, StopInv, ControllerStep
    PROVE  NewDesired'
<1>1. Typed /\ seen \in Seen
  BY DEF StopInv, RefInv, Typed, TypeOK
<1>2. CASE QueryStart
  <2>1. pc' \in {"subnets", "unassigned"} =>
          ~Panics /\ UNCHANGED checkout /\ seen' = [seen EXCEPT !.desired = DesiredRelease]
    BY <1>2 DEF QueryStart
  <2>2. pc' \in {"subnets", "unassigned"} =>
          ~Panics /\ UNCHANGED checkout /\ seen'.desired = DesiredRelease
    BY <1>1, <2>1 DEF Seen
  <2>. QED
    BY <1>1, <2>2, NewerIsDesired DEF NewDesired
<1>3. CASE ListSubnetProposals
  <2>1. pc = "subnets" /\ UNCHANGED checkout /\ seen' = [seen EXCEPT !.listed = Listed(Subnet)]
    BY <1>3 DEF ListSubnetProposals
  <2>2. seen'.desired = seen.desired
    BY <1>1, <2>1 DEF Seen
  <2>. QED
    BY <2>1, <2>2 DEF NewDesired, StopInv
<1>4. CASE Sync \/ Fetch \/ QueryBake \/ CheckStages \/ Place \/ PlaceUnnoticed \/ PlaceFails \/ StartOver
  <2>1. pc' \in {"fetch", "bake", "start", "stopped", "sync", "execute"}
    BY <1>4 DEF Sync, Fetch, QueryBake, CheckStages, Stop, ActOn, Place, PlaceUnnoticed, PlaceFails,
                StartOver, Leave
  <2>. QED
    BY <2>1 DEF NewDesired
<1>. QED
  BY <1>2, <1>3, <1>4 DEF ControllerStep

\* The controller stops only at a pause, or where no earlier stage has anything left.
LEMMA StopsBehindTheDone ==
    ASSUME TwoReleasesOnly, OneReleaseEach, StopInv, ControllerStep,
           pc # "stopped", pc' = "stopped", ~checkout.pause
    PROVE  \E n \in 1..(Len(Stages) + 1) :
             MayEndBefore(n) /\ \A i \in 1..(n - 1) : \A u \in UnitsOfStage(i) : Reached(u)
<1>1. QueryBake \/ CheckStages
  BY DEF ControllerStep, Sync, Fetch, QueryStart, ListSubnetProposals, Place, PlaceUnnoticed,
         PlaceFails, StartOver, Leave
<1>2. ~QueryBake
  BY DEF QueryBake
<1>. DEFINE listed == seen.listed \cup Listed({Unassigned})
<1>3. /\ pc = "unassigned"
      /\ \/ Unfinished(listed) = {}
         \/ \E i \in Unfinished(listed) : (\A j \in Unfinished(listed) : i <= j) /\ ActOn(i, listed)
  BY <1>1, <1>2 DEF CheckStages
<1>. HIDE DEF listed
<1>4. /\ Len(Stages) \in Nat /\ DOMAIN Stages = 1..Len(Stages)
      /\ Newest = 2 /\ checkout.published \in {1, 2} /\ seen.desired \in {1, 2}
  <2>1. checkout.published \in Release /\ seen.desired \in Release
    BY DEF StopInv, RefInv, Typed, TypeOK, Index, Seen
  <2>2. Len(Stages) \in Nat /\ DOMAIN Stages = 1..Len(Stages)
    BY StageAssumption, ElementType
  <2>. QED
    BY <2>1, <2>2, TwoReleasesType DEF Newest, TwoReleasesOnly
<1>5. ASSUME NEW i \in DOMAIN Stages, i \notin Unfinished(listed), NEW u \in UnitsOfStage(i)
      PROVE  Reached(u)
  <2>1. Verdict(u, i, listed) = "noop"
    <3>1. Verdict(u, i, listed) \in Verdicts(i, listed)
      BY DEF Verdicts, UnitsOfStage
    <3>. QED
      BY <1>5, <3>1 DEF Unfinished
  <2>2. seen.version[u] = Desired(u)
    BY <2>1 DEF Verdict
  <2>3. u \in Unit
    BY StageType DEF UnitsOfStage, Range
  <2>4. CASE checkout.published = 2
    <3>1. seen.desired = 2
      BY <1>3, <2>4 DEF StopInv, NewDesired
    <3>2. version[u] = VersionFor[2][u]
      BY <2>2, <2>3, <3>1 DEF StopInv, RefInv, SnapshotInv, Desired, New
    <3>. QED
      BY <2>4, <3>2 DEF Reached
  <2>5. CASE checkout.published = 1
    <3>1. version[u] = VersionFor[1][u] \/ version[u] \in VersionsIn[2]
      BY <2>3 DEF StopInv, RefInv, WorldInv, OnOldOrNew
    <3>2. 2 \in (checkout.published + 1)..Newest
      BY <1>4, <2>5
    <3>. QED
      BY <2>5, <3>1, <3>2 DEF Reached
  <2>. QED
    BY <1>4, <2>4, <2>5
<1>6. CASE Unfinished(listed) = {}
  <2>1. MayEndBefore(Len(Stages) + 1) /\ Len(Stages) + 1 \in 1..(Len(Stages) + 1)
    BY <1>4 DEF MayEndBefore
  <2>2. \A i \in 1..((Len(Stages) + 1) - 1) : \A u \in UnitsOfStage(i) : Reached(u)
    BY <1>4, <1>5, <1>6
  <2>. QED
    BY <2>1, <2>2
<1>7. ASSUME NEW n \in Unfinished(listed), \A j \in Unfinished(listed) : n <= j, ActOn(n, listed)
      PROVE  MayEndBefore(n) /\ \A i \in 1..(n - 1) : \A u \in UnitsOfStage(i) : Reached(u)
  <2>1. Waits(n) /\ Stages[n].subnets = <<>>
    BY <1>7 DEF ActOn
  <2>2. n \in 1..Len(Stages)
    BY <1>4 DEF Unfinished
  <2>3. ASSUME NEW i \in 1..(n - 1)
        PROVE  i \in DOMAIN Stages /\ i \notin Unfinished(listed)
    <3>1. i \in DOMAIN Stages /\ i < n
      BY <1>4, <2>2
    <3>. QED
      BY <1>7, <2>2, <3>1
  <2>. QED
    BY <1>5, <2>1, <2>3 DEF MayEndBefore
<1>8. \A n \in Unfinished(listed) : n \in 1..(Len(Stages) + 1)
  BY <1>4 DEF Unfinished
<1>. QED
  BY <1>3, <1>6, <1>7, <1>8

LEMMA NextKeepsStopInv ==
    ASSUME TwoReleasesOnly, OneReleaseEach
    PROVE  StopInv /\ [Next]_vars => StopInv'
<1>. SUFFICES ASSUME StopInv, [Next]_vars
              PROVE  NewDesired'
  BY NextKeepsRefInv DEF StopInv
<1>1. CASE WorldStep
  <2>1. UNCHANGED <<checkout, pc, seen>>
    BY <1>1, WorldOpensNothing DEF controller, StopInv, RefInv
  <2>. QED
    BY <2>1 DEF StopInv, NewDesired
<1>2. CASE ControllerStep
  BY <1>2, DesiredStaysNew
<1>3. CASE UNCHANGED vars
  <2>1. UNCHANGED <<checkout, pc, seen>>
    BY <1>3 DEF vars
  <2>. QED
    BY <2>1 DEF StopInv, NewDesired
<1>. QED
  BY <1>1, <1>2, <1>3 DEF Next

\* From one release to the next, whatever is paused, rejected, failed, stale or lagging:
\* the program ends with "Rollout completed" only when the index it read says pause, or
\* when every unit of every stage has the newest release of that index; except that a
\* stage that waits for the next week and has no subnets ends it, too, and then every
\* unit of the stages before that one is done.
THEOREM EndsWithEveryUnit ==
    ASSUME TwoReleasesOnly, OneReleaseEach
    PROVE  Spec => StopsOnlyWhenCompleted
<1>1. Init => StopInv
  <2>. SUFFICES ASSUME Init
                PROVE  StopInv
    OBVIOUS
  <2>1. RefInv /\ pc = "sync"
    BY InitRefInv DEF Init
  <2>. QED
    BY <2>1 DEF StopInv, NewDesired
<1>2. StopInv /\ [Next]_vars => StopInv'
  BY NextKeepsStopInv
<1>. DEFINE Ends == \/ checkout.pause
                    \/ \E n \in 1..(Len(Stages) + 1) :
                         MayEndBefore(n) /\ \A i \in 1..(n - 1) : \A u \in UnitsOfStage(i) : Reached(u)
<1>3. StopInv /\ [Next]_vars => [pc # "stopped" /\ pc' = "stopped" => Ends]_vars
  <2>. SUFFICES ASSUME StopInv, Next, pc # "stopped", pc' = "stopped"
                PROVE  Ends
    BY DEF vars
  <2>1. ~WorldStep
    BY WorldOpensNothing DEF StopInv, RefInv, controller
  <2>. QED
    BY <2>1, StopsBehindTheDone DEF Next
<1>. QED
  BY <1>1, <1>2, <1>3, PTL DEF Spec, StopsOnlyWhenCompleted
=============================================================================
