------------------------------ MODULE ReleaseSchedule ------------------------------
(***************************************************************************)
(* The view of a rollout that the management backend computes from the     *)
(* proposals of a release: the stages that were submitted, their states,   *)
(* and the days and sizes of the stages to come                            *)
(* (ic-management-backend/src/release.rs), with an operator who submits    *)
(* what the view shows.                                                    *)
(*                                                                         *)
(* Abstractions.  Day 0 is a Monday.  A point in time is a pair of a day   *)
(* and an hour, so two proposals are closer than half an hour if and only  *)
(* if they are of the same hour.  There is one release: the code looks at  *)
(* the newest only.  The states Preparing and Updating are one.            *)
(***************************************************************************)
EXTENDS Integers, FiniteSets, SequencesExt

CONSTANTS
    Subnets,       \* all subnets, in the order of their ids
    Nns,           \* one of them
    Excluded,      \* days of the configuration without a rollout
    MaxStageSize,  \* 4 in the code
    FirstDay,      \* the days on which the release may be ready
    LastDay,       \* bound on the days
    FirstWeek,     \* the number of the week of day 0
    WeeksInYear,   \* 52 or 53, by the year
    Hours          \* bound on the submissions of one day

VARIABLES
    now,       \* the day and the hour
    proposals, \* the proposals of the release, by time: subnet, day, hour, executed
    upgrade    \* [subnet -> what Prometheus says of it]

vars == <<now, proposals, upgrade>>

\* Those of a list that are in a set (filter).
Chosen(list, set) ==
    LET upTo[n \in 0..Len(list)] ==
          IF n = 0 THEN <<>> ELSE IF list[n] \in set THEN Append(upTo[n - 1], list[n]) ELSE upTo[n - 1]
    IN  upTo[Len(list)]

EverySubnet == ToSet(Subnets)
Today  == now.day

-----------------------------------------------------------------------------
(* The days of a rollout (rollout_days). *)

\* The ISO number of a week, which starts again with the year.
Week(d)    == ((FirstWeek - 1 + d \div 7) % WeeksInYear) + 1
Weekend(d) == d % 7 \in {5, 6}

Started    == proposals # <<>>
StartDay   == IF Started THEN proposals[1].day ELSE Today

\* Two weeks without weekends and excluded days, up to the first day after today
\* in a week with a larger number.
RolloutDays ==
    LET candidates == {d \in StartDay..(StartDay + 13) : ~Weekend(d) /\ d \notin Excluded}
        closing == {d \in candidates : Week(d) > Week(StartDay) /\ d > Today}
    IN  Chosen([i \in 1..14 |-> StartDay + i - 1], {d \in candidates : \A c \in closing : d <= c})

-----------------------------------------------------------------------------
(* The stages that were submitted (stages_from_proposals). *)

\* A proposal joins the stage of the one before unless it came half an hour later.
Joined(stages, p) ==
    IF stages # <<>> /\ Last(Last(stages)).day = p.day /\ Last(Last(stages)).hour = p.hour
    THEN ReplaceAt(stages, Len(stages), Append(Last(stages), p))
    ELSE Append(stages, <<p>>)

Stages ==
    LET upTo[n \in 0..Len(proposals)] == IF n = 0 THEN <<>> ELSE Joined(upTo[n - 1], proposals[n])
    IN  upTo[Len(proposals)]

\* Only the last stage is looked at; all before it are taken as complete.
\* A stage whose proposals were executed is complete.
StateIfExecuted(i, p) == IF i < Len(Stages) \/ p.executed THEN "Complete" ELSE "Submitted"

State(i, p) == IF i < Len(Stages) THEN "Complete"
               ELSE IF p.executed THEN upgrade[p.subnet] ELSE "Submitted"

States(i) == {State(i, p) : p \in ToSet(Stages[i])}

Active == Stages # <<>> /\ States(Len(Stages)) # {"Complete"}

StagesOn(d) == LET stages == Stages IN {i \in DOMAIN stages : stages[i][1].day = d}

-----------------------------------------------------------------------------
(* The stages to come (RolloutState::schedule). *)

Submitted == LET days == ToSet(RolloutDays)
             IN  {p.subnet : p \in {q \in ToSet(proposals) : q.day \in days}}

\* Subnets of proposals that are not executed yet are scheduled again.
LeftoverOpen ==
    LET executed == {i \in DOMAIN proposals : proposals[i].executed}
    IN  Chosen(Subnets, EverySubnet \ ({Nns} \cup {proposals[i].subnet : i \in executed}))

Leftover == Chosen(Subnets, EverySubnet \ ({Nns} \cup Submitted))

\* The days from today on but for the last, which is kept for the NNS.
FutureDays == LET days == RolloutDays IN Chosen(days, {d \in ToSet(days) : d >= Today})
AppDays    == IF Leftover = <<>> THEN <<>> ELSE Front(FutureDays)

\* "should contain at least two days", "should contain at least one day".
Panics == FutureDays = <<>> \/ (Leftover # <<>> /\ Len(FutureDays) < 2)

DaysWithStages == {d \in ToSet(RolloutDays) : StagesOn(d) # {}}

\* Stages that a day is taken to have: the first of the days has those it already
\* got, the first day of the rollout and the last day are spared.
Overheads(days, rolled) ==
    [i \in DOMAIN days |->
       (IF i = Len(days) THEN 2 ELSE 0)
       + (IF i = 1 THEN Cardinality(StagesOn(days[1])) ELSE 0)
       + (IF i = 1 /\ (rolled = {} \/ (days[1] \in rolled /\ \A d \in rolled : days[1] <= d)) THEN 1 ELSE 0)]

FirstStageSize == Cardinality(DaysWithStages \ {Today}) + 1

\* A round of the loop gives a stage to every day with the fewest, the last first.
\* The first stage of a day is one larger than that of the day before, and one
\* smaller than the stages after it.
Limits(days) ==
    LET first == FirstStageSize
    IN  [i \in DOMAIN days |->
           LET had == Cardinality(StagesOn(days[i]))
           IN  [k \in 0..Len(Subnets) |-> Min({MaxStageSize, first + (i - 1) + Min({had + k, 1})})]]

Place(acc, i, least, overhead, limit) ==
    LET size == Min({limit[Len(acc.sizes[i])], acc.left})
    IN  IF overhead + Len(acc.sizes[i]) > least \/ acc.left = 0 THEN acc
        ELSE [left |-> acc.left - size, sizes |-> [acc.sizes EXCEPT ![i] = Append(@, size)]]

Round(acc, least, overheads, limits) ==
    LET count == Len(overheads)
        upTo[n \in 0..count] ==
          IF n = 0 THEN acc
          ELSE LET i == count + 1 - n IN Place(upTo[n - 1], i, least, overheads[i], limits[i])
    IN  upTo[count]

NextRound(acc, overheads, limits) ==
    IF acc.left = 0 THEN acc
    ELSE Round(acc, Min({Len(acc.sizes[i]) + overheads[i] : i \in DOMAIN overheads}), overheads, limits)

Sizes(overheads, limits, count) ==
    LET rounds[k \in 0..count] ==
          IF k = 0 THEN [left |-> count, sizes |-> [i \in DOMAIN overheads |-> <<>>]]
          ELSE NextRound(rounds[k - 1], overheads, limits)
    IN  rounds[count].sizes

\* The stages of day i are i - 1 calendar days after the first of the days; the
\* subnets are handed out in order.
StagesOf(days, sizes) ==
    LET upTo[i \in 0..Len(days)] ==
          IF i = 0 THEN <<>> ELSE upTo[i - 1] \o [j \in DOMAIN sizes[i] |-> <<days[1] + i - 1, sizes[i][j]>>]
    IN  upTo[Len(days)]

HandedOut(left, stages) ==
    LET given[k \in 0..Len(stages)] == IF k = 0 THEN 0 ELSE given[k - 1] + stages[k][2]
    IN  [k \in DOMAIN stages |->
           [day |-> stages[k][1], subnets |-> ToSet(SubSeq(left, given[k - 1] + 1, given[k]))]]

PlannedOn(days, left) ==
    HandedOut(left, StagesOf(days, Sizes(Overheads(days, DaysWithStages), Limits(days), Len(left))))

Planned == PlannedOn(AppDays, Leftover)

\* The NNS a day before the last, which the other subnets may still need.
NnsDayEarly(planned) == RolloutDays[Len(RolloutDays) - 1]

\* The NNS on the last day, but a day earlier when no stage is planned and the
\* last one was before today.
NnsDay(planned) ==
    LET days == RolloutDays
    IN  IF planned # <<>> \/ DaysWithStages = {} \/ Today \in DaysWithStages
        THEN Last(days) ELSE days[Len(days) - 1]

WithNns(planned) ==
    IF Nns \in Submitted THEN planned ELSE Append(planned, [day |-> NnsDay(planned), subnets |-> {Nns}])

Schedule == WithNns(Planned)

\* new_for_release, for the newest release.
Status ==
    LET states == (UNION {States(i) : i \in DOMAIN Stages}) \cup (IF Schedule = <<>> THEN {} ELSE {"Scheduled"})
    IN  IF states \subseteq {"Scheduled"} THEN "Scheduled"
        ELSE IF states \subseteq {"Complete"} THEN "Complete" ELSE "Active"

\* What the subnet list says of a subnet: the state of its latest proposal.
SubnetState(s) ==
    LET own == {i \in DOMAIN proposals : proposals[i].subnet = s}
    IN  IF own = {} THEN "Unknown" ELSE IF proposals[Max(own)].executed THEN upgrade[s] ELSE "Submitted"

-----------------------------------------------------------------------------
(* The operator, the votes, the replicas and the time. *)

Init == /\ \E d \in FirstDay : now = [day |-> d, hour |-> 0]
        /\ proposals = <<>>
        /\ upgrade = [s \in EverySubnet |-> "Unknown"]

\* The operator submits the next stage of the day when the view has nothing active.
DueToday == LET view == Schedule IN view # <<>> /\ view[1].day = Today

Submit ==
    /\ ~Panics /\ ~Active /\ DueToday
    /\ LET due == SetToSeq(Head(Schedule).subnets) IN
         proposals' = proposals \o [i \in DOMAIN due |->
           [subnet |-> due[i], day |-> now.day, hour |-> now.hour, executed |-> FALSE]]
    /\ UNCHANGED <<now, upgrade>>

Execute(i) ==
    /\ ~proposals[i].executed
    /\ proposals' = [proposals EXCEPT ![i].executed = TRUE]
    /\ upgrade' = [upgrade EXCEPT ![proposals[i].subnet] = "Preparing"]
    /\ UNCHANGED now

\* Rejected proposals are not listed.
Reject(i) ==
    /\ ~proposals[i].executed
    /\ proposals' = RemoveAt(proposals, i)
    /\ UNCHANGED <<now, upgrade>>

\* The query of get_update_states; a subnet that bakes without pages completes.
NextState == [state \in {"Preparing", "Baking"} |-> IF state = "Preparing" THEN "Baking" ELSE "Complete"]

Progress(s) ==
    /\ upgrade[s] \in DOMAIN NextState
    /\ upgrade' = [upgrade EXCEPT ![s] = NextState[@]]
    /\ UNCHANGED <<now, proposals>>

\* The clock moves on when the stage is done; the day ends with nothing due.
HourPasses ==
    /\ ~Active /\ now.hour < Hours /\ \E i \in DOMAIN proposals : proposals[i].day = now.day /\ proposals[i].hour = now.hour
    /\ now' = [now EXCEPT !.hour = @ + 1]
    /\ UNCHANGED <<proposals, upgrade>>

DayPasses ==
    /\ now.day < LastDay
    /\ Panics \/ (~Active /\ ~DueToday)
    /\ now' = [day |-> now.day + 1, hour |-> 0]
    /\ UNCHANGED <<proposals, upgrade>>

Next == \/ Submit \/ HourPasses \/ DayPasses
        \/ \E i \in DOMAIN proposals : Execute(i) \/ Reject(i)
        \/ \E s \in EverySubnet : Progress(s)

Spec == Init /\ [][Next]_vars

-----------------------------------------------------------------------------
(* Properties. *)

\* The type invariant.
TypeOK == /\ now \in [day : 0..LastDay, hour : 0..Hours]
          /\ \A i \in DOMAIN proposals : proposals[i].subnet \in EverySubnet /\ proposals[i].day \in 0..LastDay
          /\ upgrade \in [EverySubnet -> {"Unknown", "Preparing", "Baking", "Complete"}]

Proposed == {proposals[i].subnet : i \in DOMAIN proposals}

\* Whatever was submitted, executed or rejected so far, the view shows every
\* subnet exactly once: in a stage that was submitted or in one to come, of which
\* none is larger than four subnets (release.rs:374-388, 439-476).
EverySubnetOnce ==
    ~Panics =>
      LET view == Schedule IN
        /\ UNION {view[k].subnets : k \in DOMAIN view} = EverySubnet \ Proposed
        /\ \A k \in DOMAIN view : view[k].subnets # {} /\ Cardinality(view[k].subnets) <= MaxStageSize
        /\ \A j, k \in DOMAIN view : j < k => view[j].subnets \cap view[k].subnets = {}

\* The NNS comes last: when it is submitted no other subnet is left, and until
\* then it is the last stage to come (release.rs:484-514).
NnsComesLast ==
    /\ Nns \in Proposed => EverySubnet = Proposed
    /\ ~Panics /\ Nns \notin Proposed => Last(Schedule).subnets = {Nns}

\* A rollout that is shown as complete is one whose subnets all run the release,
\* although only the last stage is looked at (release.rs:219-236, 312-344).
CompleteIsComplete ==
    ~Panics /\ Status = "Complete" => \A s \in EverySubnet : SubnetState(s) = "Complete"

\* A rollout that started in the last week of a year: no week that follows has a
\* larger number.
AtTurnOfYear == Started /\ Week(StartDay + 7) < Week(StartDay)

\* On a working day no stage to come is in the past and the day of the NNS is after
\* all other stages; an operator who submits what is due finds all subnets but the
\* NNS submitted when the week is over (release.rs:124-141 and 488-514).  A rollout
\* that started in the last week of a year is exempt: it goes on for two weeks, and
\* the code can show the NNS on a day that is over.
InTime ==
    ~AtTurnOfYear =>
      /\ ~Panics /\ ~Weekend(Today) /\ Today \notin Excluded =>
           LET view == Schedule
               day  == Last(view).day
           IN  /\ \A k \in DOMAIN view : view[k].day >= Today
               /\ Nns \notin Proposed => /\ \A k \in 1..(Len(view) - 1) : view[k].day < day
                                        /\ \A i \in DOMAIN proposals : proposals[i].day < day
      /\ Started /\ Today \div 7 > StartDay \div 7 => EverySubnet \ {Nns} \subseteq Proposed

\* The four together.
ScheduleIsSound == EverySubnetOnce /\ NnsComesLast /\ CompleteIsComplete /\ InTime

\* There are days left for the subnets that are left ("should contain at least one
\* day", release.rs:396).  Fails: on a weekend, and once the two weeks are over, the
\* view of an unfinished rollout panics.
ScheduleIsThere == ~Panics
=============================================================================
