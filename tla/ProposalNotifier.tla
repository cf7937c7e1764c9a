----------------------------- MODULE ProposalNotifier -----------------------------
(***************************************************************************)
(* The service that tells Slack about new and about failed proposals       *)
(* (slack-notifications): two tasks that poll governance, each with a      *)
(* checkpoint file.                                                        *)
(*                                                                         *)
(* Abstractions.  Proposals are their ids.  A message stands for the       *)
(* neighbouring proposals with one channel, proposer, motivation and topic *)
(* (GroupOf).  The cooling period is one tick of the clock, which is also  *)
(* the precision of time stamps.                                           *)
(* The code leaves out proposals that are older than the oldest one listed *)
(* last time; none of those comes back, so this changes nothing.           *)
(***************************************************************************)
EXTENDS Naturals, Sequences, FiniteSets, FiniteSetsExt

CONSTANTS
    Last1,         \* the last id that is given out; ids start at 1
    GroupOf,       \* [id -> what messages are grouped by]
    Muted,         \* proposals of neurons on the blacklist
    MaxClock,      \* bound on the clock
    MaxLost,       \* bound on messages that Slack does not take and on failed writes
    MaxCrashes,    \* bound on restarts
    Torn           \* a checkpoint file that was created and not written

VARIABLES
    clock,
    status,      \* [id -> "none", "pending", "decided", "failed"]
    stamped,     \* [id -> when it was made or, once failed, when it failed; else 0]
    fresh,       \* the task that tells about new proposals
    failed,      \* the task that tells about failed proposals
    files,       \* the checkpoint files: id of the one, time of the other, or Torn;
                 \* 0 if there is none
    told,        \* [kind -> [id -> how often Slack was told]]
    lost,        \* [kind -> ids in messages that Slack did not take]
    losses,      \* messages that Slack did not take, and failed writes, so far
    crashes

governance == <<clock, status, stamped>>
slack      == <<told, lost, losses>>
vars       == <<governance, fresh, failed, files, slack, crashes>>

Id   == 1..Last1
Kind == {"fresh", "failed"}

-----------------------------------------------------------------------------
(* Governance. *)

Tick == clock < MaxClock /\ clock' = clock + 1 /\ UNCHANGED <<status, stamped, fresh, failed, files, slack, crashes>>

Propose(p) ==
    /\ clock < MaxClock \* so that every proposal cools down
    /\ status[p] = "none" /\ \A q \in 1..(p - 1) : status[q] # "none"
    /\ status' = [status EXCEPT ![p] = "pending"] /\ stamped' = [stamped EXCEPT ![p] = clock]
    /\ UNCHANGED <<clock, fresh, failed, files, slack, crashes>>

Decide(p) ==
    /\ status[p] = "pending"
    /\ \/ status' = [status EXCEPT ![p] = "decided"] /\ stamped' = [stamped EXCEPT ![p] = 0]
       \/ status' = [status EXCEPT ![p] = "failed"] /\ stamped' = [stamped EXCEPT ![p] = clock]
    /\ UNCHANGED <<clock, fresh, failed, files, slack, crashes>>

-----------------------------------------------------------------------------
(* Messages. *)

\* MessageGroups::try_from: neighbours that belong together go into one message,
\* those of muted proposers into none.
Starts(ids, i) ==
    ids[i] \notin Muted /\ (i > 1 => GroupOf[ids[i - 1]] # GroupOf[ids[i]] \/ ids[i - 1] \in Muted)

Chunk(ids, i) ==
    {ids[j] : j \in {m \in i..Len(ids) : \A k \in i..m : ids[k] \notin Muted /\ GroupOf[ids[k]] = GroupOf[ids[i]]}}

WithChunk(groups, ids, i) == IF Starts(ids, i) THEN Append(groups, Chunk(ids, i)) ELSE groups

Groups(ids) ==
    LET upTo[i \in 0..Len(ids)] == IF i = 0 THEN <<>> ELSE WithChunk(upTo[i - 1], ids, i)
    IN  upTo[Len(ids)]

\* Slack takes a message or does not; either way the next one follows.
Post(kind, group) ==
    \/ /\ told' = [told EXCEPT ![kind] = [p \in Id |-> IF p \in group THEN @[p] + 1 ELSE @[p]]]
       /\ UNCHANGED <<lost, losses>>
    \/ /\ losses < MaxLost /\ losses' = losses + 1
       /\ lost' = [lost EXCEPT ![kind] = @ \cup group]
       /\ UNCHANGED told

-----------------------------------------------------------------------------
(* notify_for_new_proposals. *)

\* A task that waits for its next poll.
Task(checkpoint) == [pc |-> "poll", checkpoint |-> checkpoint, groups |-> <<>>, last |-> 0]


Ordered(ids) ==
    LET upTo[p \in 0..Last1] ==
          IF p = 0 THEN <<>> ELSE IF p \in ids THEN Append(upTo[p - 1], p) ELSE upTo[p - 1]
    IN  upTo[Last1]

\* The one notified last is new again.
NewFrom(pending, checkpoint) == {p \in pending : p >= checkpoint}

NewSince(pending, checkpoint) == {p \in pending : p > checkpoint}

\* The proposals count as notified before they have cooled down.
CheckpointAtOnce(checkpoint, new) == IF new = {} THEN checkpoint ELSE Max(new)

CheckpointKept(checkpoint, new) == checkpoint

PollNew ==
    /\ fresh.pc = "poll"
    /\ \E new \in {NewSince({p \in Id : status[p] = "pending"}, fresh.checkpoint)} :
       \E groups \in {Groups(Ordered(new))} :
         fresh' = IF new # {} /\ stamped[Max(new)] < clock /\ groups # <<>>
                  THEN [fresh EXCEPT !.pc = "send", !.groups = groups, !.last = Max(new)]
                  ELSE [fresh EXCEPT !.checkpoint = CheckpointKept(fresh.checkpoint, new)]
    /\ UNCHANGED <<governance, failed, files, slack, crashes>>

SendNew ==
    /\ fresh.pc = "send" /\ fresh.groups # <<>>
    /\ Post("fresh", Head(fresh.groups))
    /\ fresh' = [fresh EXCEPT !.groups = Tail(@)]
    /\ UNCHANGED <<governance, failed, files, crashes>>

\* ProposalCheckpointStore::save creates the file where there is none and then
\* writes it, without truncating it; in memory the checkpoint holds even if all
\* retries fail.
CreateNew ==
    /\ fresh.pc = "send" /\ fresh.groups = <<>> /\ files.fresh = 0
    /\ files' = [files EXCEPT !.fresh = Torn]
    /\ UNCHANGED <<governance, fresh, failed, slack, crashes>>

SaveNew ==
    /\ fresh.pc = "send" /\ fresh.groups = <<>>
    /\ \/ files.fresh # 0 /\ files' = [files EXCEPT !.fresh = fresh.last] /\ UNCHANGED losses
       \/ losses < MaxLost /\ losses' = losses + 1 /\ UNCHANGED files
    /\ fresh' = Task(fresh.last)
    /\ UNCHANGED <<governance, failed, told, lost, crashes>>

-----------------------------------------------------------------------------
(* notify_for_failed_proposals. *)

\* The sort is stable: those of one time stay in the order of their ids.
ByTime(ids) ==
    LET upTo[t \in 0..MaxClock] ==
          IF t = 0 THEN <<>> ELSE upTo[t - 1] \o Ordered({p \in ids : stamped[p] = t})
    IN  upTo[MaxClock]

\* The time of the poll.
LastIsNow(found) == clock

LastFailure(found) == Max({stamped[p] : p \in found})

PollFailed ==
    /\ failed.pc = "poll"
    /\ \E found \in {{p \in Id : status[p] = "failed" /\ stamped[p] > failed.checkpoint}} :
       \E groups \in {Groups(ByTime(found))} :
         /\ groups # <<>>
         /\ failed' = [failed EXCEPT !.pc = "send", !.groups = groups, !.last = LastFailure(found)]
    /\ UNCHANGED <<governance, fresh, files, slack, crashes>>

SendFailed ==
    /\ failed.pc = "send" /\ failed.groups # <<>>
    /\ Post("failed", Head(failed.groups))
    /\ failed' = [failed EXCEPT !.groups = Tail(@)]
    /\ UNCHANGED <<governance, fresh, files, crashes>>

CreateFailed ==
    /\ failed.pc = "send" /\ failed.groups = <<>> /\ files.failed = 0
    /\ files' = [files EXCEPT !.failed = Torn]
    /\ UNCHANGED <<governance, fresh, failed, slack, crashes>>

SaveFailed ==
    /\ failed.pc = "send" /\ failed.groups = <<>>
    /\ \/ files.failed # 0 /\ files' = [files EXCEPT !.failed = failed.last] /\ UNCHANGED losses
       \/ losses < MaxLost /\ losses' = losses + 1 /\ UNCHANGED files
    /\ failed' = Task(failed.last)
    /\ UNCHANGED <<governance, fresh, told, lost, crashes>>

-----------------------------------------------------------------------------
\* A task that finds an empty checkpoint panics, at this start and at every later
\* one; the other one goes on.
Resumed(file) == IF file = Torn THEN [Task(0) EXCEPT !.pc = "dead"] ELSE Task(file)

\* The process dies and starts again from the files.
Restart ==
    /\ crashes < MaxCrashes /\ crashes' = crashes + 1
    /\ fresh' = Resumed(files.fresh) /\ failed' = Resumed(files.failed)
    /\ UNCHANGED <<governance, files, slack>>

Nobody == [k \in Kind |-> [p \in Id |-> 0]]

Init == /\ clock = 1
        /\ status = [p \in Id |-> "none"] /\ stamped = [p \in Id |-> 0]
        /\ fresh = Task(0) /\ failed = Task(0) /\ files = [fresh |-> 0, failed |-> 0]
        /\ told = Nobody /\ lost = [k \in Kind |-> {}]
        /\ losses = 0 /\ crashes = 0

New    == PollNew \/ SendNew \/ CreateNew \/ SaveNew
Failed == PollFailed \/ SendFailed \/ CreateFailed \/ SaveFailed

Next == \/ Tick \/ \E p \in Id : Propose(p) \/ Decide(p)
        \/ New \/ Failed \/ Restart

Spec == Init /\ [][Next]_vars

\* Time passes and both tasks go on.
Fairness == WF_vars(Tick) /\ WF_vars(New) /\ WF_vars(Failed)

FairSpec == Spec /\ Fairness

-----------------------------------------------------------------------------
(* Properties. *)

\* The type invariant.
TypeOK == /\ clock \in 1..MaxClock
          /\ status \in [Id -> {"none", "pending", "decided", "failed"}] /\ stamped \in [Id -> 0..MaxClock]
          /\ \A task \in {fresh, failed} : task.pc \in {"poll", "send", "dead"} /\ task.groups \in Seq(SUBSET Id)
          /\ told \in [Kind -> [Id -> 0..(MaxCrashes + 1)]] /\ lost \in [Kind -> SUBSET Id]

\* Slack is told about a proposal once more than the process was restarted, at
\* most (main.rs:157-209 and 222-280).
ToldOncePerLife == \A k \in Kind, p \in Id : told[k][p] <= crashes + 1

\* A proposal that stays pending is told, or was in a message that Slack did not
\* take: that one is never sent again (main.rs:184-206).  The code tells nobody
\* anything more once an empty checkpoint stops the task, which is exempt.
NewTold ==
    fresh.pc # "dead" =>
      \A p \in Id \ Muted : status[p] = "pending" => told["fresh"][p] > 0 \/ p \in lost["fresh"]

NewAreTold == <>[]NewTold

\* A failed proposal is told or was in a lost message, unless another that
\* failed at the same time was told in its place (main.rs:228-280), or an empty
\* checkpoint stopped the task.
FailuresTold ==
    failed.pc # "dead" => \A p \in Id \ Muted :
      status[p] = "failed" =>
        \/ told["failed"][p] > 0 \/ p \in lost["failed"]
        \/ \E q \in Id \ {p} : status[q] = "failed" /\ stamped[q] = stamped[p]

FailuresAreTold == <>[]FailuresTold

Told == NewTold /\ FailuresTold
=============================================================================
