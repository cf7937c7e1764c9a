----------------------------- MODULE NodeNotifications -----------------------------
(***************************************************************************)
(* The service that tells node providers about changed node health         *)
(* (np-notifications): the health loop, the sender loop and the loop that  *)
(* syncs the registry, tasks of one thread that share a channel, a         *)
(* cancellation token and readiness flags.                                 *)
(*                                                                         *)
(* Abstractions.  A step is what a task does between two awaits.  A node   *)
(* that the dashboard does not list has the status "Unknown", as in the    *)
(* notifications.  A task that panics is dead; the others go on.  The      *)
(* refresh of the view from the local store does not fail.                 *)
(***************************************************************************)
EXTENDS Naturals, Sequences, FiniteSets, SequencesExt

CONSTANTS
    Node,
    Seen,         \* statuses that the dashboard gives to a listed node
    ProviderOf,   \* [Node -> provider]
    Named,        \* providers in the list that is read at the start
    Routes,       \* the routes, a sequence of providers; a provider may have several
    MaxChanges,   \* bound on changes of a node
    MaxFailures   \* bound on failures of the dashboard and of webhooks

VARIABLES
    dashboard,   \* [Node -> status]
    registered,  \* nodes in the registry
    synced,      \* nodes in the local store
    statuses,    \* nodes_status of the health loop
    fetched,     \* what the health loop has just read
    health,      \* where the health loop stands
    channel,     \* notifications on their way
    told,        \* [Node -> the status that the log told last]
    sending,     \* routes that the notification in hand still has to go through
    sender,      \* where the sender loop stands
    syncer,      \* where the registry loop stands
    cancelled,   \* the cancellation token
    ready,       \* the readiness flags
    changes, failures

network    == <<dashboard, registered, changes>>
healthVars == <<statuses, fetched, health>>
senderVars == <<told, sending, sender>>
vars == <<network, synced, healthVars, channel, senderVars, syncer, cancelled, ready, failures>>

Status == Seen \cup {"Unknown"}

-----------------------------------------------------------------------------
(* The network. *)

NodeChanges(n) ==
    /\ changes < MaxChanges /\ changes' = changes + 1
    /\ \E s \in Seen \ {dashboard[n]} : dashboard' = [dashboard EXCEPT ![n] = s]
    /\ n \in registered
    /\ UNCHANGED <<registered, synced, healthVars, channel, senderVars, syncer, cancelled, ready, failures>>

\* A removed node leaves the registry and the dashboard.
NodeRemoved(n) ==
    /\ changes < MaxChanges /\ changes' = changes + 1
    /\ n \in registered
    /\ registered' = registered \ {n}
    /\ dashboard' = [dashboard EXCEPT ![n] = "Unknown"]
    /\ UNCHANGED <<synced, healthVars, channel, senderVars, syncer, cancelled, ready, failures>>

Fails == failures < MaxFailures /\ failures' = failures + 1

-----------------------------------------------------------------------------
(* start_registry_updater_loop. *)

SyncRegistry ==
    /\ syncer = "run"
    /\ IF cancelled THEN syncer' = "ended" /\ UNCHANGED <<synced, ready>>
       ELSE synced' = registered /\ ready' = ready \cup {"registry"} /\ UNCHANGED syncer
    /\ UNCHANGED <<network, healthVars, channel, senderVars, cancelled, failures>>

-----------------------------------------------------------------------------
(* start_health_check_loop. *)

FetchHealth ==
    /\ health = "run" /\ ~cancelled
    /\ fetched' = dashboard /\ health' = "update" /\ ready' = ready \cup {"health"}
    /\ UNCHANGED <<network, synced, statuses, channel, senderVars, syncer, cancelled, failures>>

\* Only this loop ends.
BreakAlone == UNCHANGED cancelled

\* The token of all loops is cancelled.
BreakAll == cancelled' = TRUE

\* The dashboard does not answer: the loop ends, and says that it is ready.
HealthFails ==
    /\ health = "run" /\ ~cancelled /\ Fails
    /\ health' = "ended" /\ BreakAll /\ ready' = ready \cup {"health"}
    /\ UNCHANGED <<network, synced, statuses, fetched, channel, senderVars, syncer>>

HealthEnds ==
    /\ health = "run" /\ cancelled
    /\ health' = "ended"
    /\ UNCHANGED <<network, synced, statuses, fetched, channel, senderVars, syncer, cancelled, ready, failures>>

\* A node whose status was read for the first time is left out.
UpdatedKnown(old, new) ==
    {[node |-> n, from |-> old[n], to |-> new[n]] : n \in {m \in Node : old[m] # new[m] /\ old[m] # "Unknown"}}

\* NodesStatus::updated.
Updated(old, new) ==
    {[node |-> n, from |-> old[n], to |-> new[n]] : n \in {m \in Node : old[m] # new[m]}}

\* Nodes that are not listed any more keep their status.
CommittedListed(old, new) == [n \in Node |-> IF new[n] = "Unknown" THEN old[n] ELSE new[n]]

Committed(old, new) == new

\* The view of the registry is refreshed from the local store first.  A node
\* that is not there ends the loop with a panic, after some of the
\* notifications were sent.
Notify ==
    /\ health = "update"
    /\ LET found == Updated(statuses, fetched)
           unknown == {m \in found : m.node \notin synced}
           gone == sender \in {"ended", "dead"} \* and the receiver with it
       IN  \/ /\ unknown = {} /\ ~gone
              /\ channel' = channel \o SetToSeq(found)
              /\ statuses' = Committed(statuses, fetched) /\ health' = "run"
           \/ /\ unknown # {} \/ (found # {} /\ gone)
              /\ \E sent \in SUBSET (found \ unknown) :
                   channel' = IF gone THEN channel ELSE channel \o SetToSeq(sent)
              /\ health' = "dead" /\ UNCHANGED statuses
           \/ /\ found = {} /\ gone
              /\ statuses' = fetched /\ health' = "run" /\ UNCHANGED channel
    /\ UNCHANGED <<network, synced, fetched, senderVars, syncer, cancelled, ready, failures>>

-----------------------------------------------------------------------------
(* start_notification_sender_loop. *)

Matching(m) == SelectSeq(Routes, LAMBDA p : p = ProviderOf[m.node])

\* try_recv; the log sink comes first and cannot fail.
Receive ==
    /\ sender \in {"run", "drain"} /\ channel # <<>> /\ (sender = "run" => ~cancelled)
    /\ told' = [told EXCEPT ![Head(channel).node] = Head(channel).to]
    /\ sending' = Matching(Head(channel)) /\ channel' = Tail(channel)
    /\ sender' = "send" /\ ready' = ready \cup {"sender"}
    /\ UNCHANGED <<network, synced, healthVars, syncer, cancelled, failures>>

\* A webhook that fails ends the route; a provider without a name cannot even be
\* logged.
RouteFails ==
    IF Head(sending) \in Named THEN sending' = <<>> /\ UNCHANGED sender
    ELSE sending' = <<>> /\ sender' = "dead"

Send ==
    /\ sender = "send"
    /\ \/ sending = <<>> /\ sender' = "drain" /\ UNCHANGED <<sending, failures>>
       \/ sending # <<>> /\ sending' = Tail(sending) /\ UNCHANGED <<sender, failures>>
       \/ sending # <<>> /\ Fails /\ RouteFails
    /\ UNCHANGED <<network, synced, healthVars, channel, told, syncer, cancelled, ready>>

\* The channel is empty: the loop sleeps, then looks at the token.
SenderSleeps ==
    /\ \/ sender = "drain" /\ channel = <<>> /\ sender' = "run" /\ UNCHANGED ready
       \/ sender = "run" /\ cancelled /\ sender' = "ended" /\ ready' = ready \ {"sender"}
       \/ sender = "run" /\ ~cancelled /\ channel = <<>> /\ "sender" \notin ready
          /\ ready' = ready \cup {"sender"} /\ UNCHANGED sender
    /\ UNCHANGED <<network, synced, healthVars, channel, told, sending, syncer, cancelled, failures>>

\* Ctrl-C.
Stop ==
    /\ ~cancelled /\ cancelled' = TRUE
    /\ UNCHANGED <<network, synced, healthVars, channel, senderVars, syncer, ready, failures>>

\* What /ready says; one of the flags is looked at twice and another never.
IsReady == {"health", "sender"} \subseteq ready

-----------------------------------------------------------------------------
Init == /\ registered = Node
        /\ dashboard \in [Node -> Status]
        /\ synced = registered
        /\ statuses = dashboard
        /\ fetched = dashboard /\ told = dashboard
        /\ health = "run" /\ sender = "run" /\ syncer = "run"
        /\ channel = <<>> /\ sending = <<>>
        /\ cancelled = FALSE /\ ready = {}
        /\ changes = 0 /\ failures = 0

HealthLoop == FetchHealth \/ HealthFails \/ HealthEnds \/ Notify
SenderLoop == Receive \/ Send \/ SenderSleeps

Next == \/ \E n \in Node : NodeChanges(n) \/ NodeRemoved(n)
        \/ SyncRegistry \/ HealthLoop \/ SenderLoop \/ Stop

Spec == Init /\ [][Next]_vars

\* The runtime schedules every task; the dashboard need not answer.
Fairness == WF_vars(SyncRegistry) /\ WF_vars(HealthLoop) /\ WF_vars(SenderLoop)

FairSpec == Spec /\ Fairness

-----------------------------------------------------------------------------
(* Properties. *)

\* The type invariant.
TypeOK == /\ dashboard \in [Node -> Status] /\ statuses \in [Node -> Status] /\ fetched \in [Node -> Status]
          /\ synced \subseteq Node /\ registered \subseteq Node
          /\ health \in {"run", "update", "ended", "dead"} /\ syncer \in {"run", "ended"}
          /\ sender \in {"run", "drain", "send", "ended", "dead"}
          /\ \A i \in DOMAIN channel : channel[i] \in [node : Node, from : Status, to : Status]
          /\ cancelled \in BOOLEAN /\ ready \subseteq {"health", "sender", "registry"}

\* The notifications about a node that are on their way form one story: the first
\* starts where the log ended, each where the one before ended, the last ends at
\* what the health loop compares with next (nodes_status.rs:42-98,
\* health_check.rs:58-84).
About(n) == {i \in DOMAIN channel : channel[i].node = n}

ChangesFollow ==
    health # "dead" =>
      \A n \in Node :
        /\ About(n) = {} => told[n] = statuses[n]
        /\ \A i \in About(n) :
             /\ (\A j \in About(n) : i <= j) => channel[i].from = told[n]
             /\ (\A j \in About(n) : j <= i) => channel[i].to = statuses[n]
             /\ \A j \in About(n) :
                  i < j /\ ~(\E k \in About(n) : i < k /\ k < j) => channel[i].to = channel[j].from

\* A change that lasts is told, whatever changes it overtook, unless a loop has
\* ended or died (health_check.rs:54-93, notification.rs:26-42).
Told == cancelled \/ health = "dead" \/ sender = "dead" \/ told = dashboard

ChangesAreTold == <>[]Told

\* A health loop that ends takes the others along (health_check.rs:85-91); one
\* that panics does not.
AllEnded == health = "ended" => sender \in {"ended", "dead"} /\ syncer = "ended"

OneEndsAll == <>[]AllEnded
=============================================================================
