-------------------------------- MODULE Services --------------------------------
(***************************************************************************)
(* The management backend, the cache it shares with the command line tool, *)
(* and the two services that tell people what changed.  They do not speak  *)
(* to each other: a behaviour is one of any of them (service).             *)
(***************************************************************************)
EXTENDS Naturals, Sequences, FiniteSets

CONSTANTS
    Monitored, Seen, ProviderOf, Named, Routes, MaxChanges, MaxHealthFailures,
    Last1, GroupOf, Muted, MaxClock, MaxLost, MaxCrashes,
    Node, Eligible, Releases, BranchOf, Unbranched, First, Proposal, Agendas, Request, Loads,
    MaxViewFailures,
    User, Mainnet, Interval, MaxAge, MaxStops, Nothing, Torn

VARIABLES
    service,
    dashboard, registered, synced, statuses, fetched, health, channel, told, sending,
    sender, syncer, cancelled, ready, changes, failures,
    clock, status, stamped, fresh, failed, files, slack, lost, losses, crashes,
    fromCli, history, votes, disk, view, poll, writer, served, faults,
    cached, modified, user, stops

healthVars    == <<dashboard, registered, synced, statuses, fetched, health, channel, told, sending,
                   sender, syncer, cancelled, ready, changes, failures>>
proposalVars  == <<clock, status, stamped, fresh, failed, files, slack, lost, losses, crashes>>
viewVars      == <<fromCli, history, votes, disk, view, poll, writer, served, faults>>
cacheVars     == <<cached, modified, user, stops>>

-----------------------------------------------------------------------------
Health == INSTANCE NodeNotifications WITH Node <- Monitored, MaxFailures <- MaxHealthFailures

HealthExited ==
    /\ dashboard = [n \in Monitored |-> "Dead"] /\ registered = Monitored /\ synced = registered
    /\ statuses = dashboard /\ fetched = dashboard /\ told = dashboard
    /\ health = "ended" /\ sender = "ended" /\ syncer = "ended" /\ channel = <<>> /\ sending = <<>>
    /\ cancelled = TRUE /\ ready = {} /\ changes = MaxChanges /\ failures = 0

Proposals == INSTANCE ProposalNotifier WITH told <- slack

ProposalsExited ==
    /\ clock = MaxClock /\ status = [p \in Proposals!Id |-> "none"] /\ stamped = [p \in Proposals!Id |-> 0]
    /\ fresh = [Proposals!Task(0) EXCEPT !.pc = "exited"] /\ failed = fresh
    /\ files = [fresh |-> 0, failed |-> 0] /\ slack = Proposals!Nobody
    /\ lost = [k \in Proposals!Kind |-> {}] /\ losses = 0 /\ crashes = MaxCrashes

View == INSTANCE RegistryView WITH MaxFailures <- MaxViewFailures, failures <- faults

NoView ==
    /\ fromCli = TRUE /\ history = <<First>> /\ disk = 1
    /\ votes = [p \in Proposal |-> "done"] /\ view = View!Empty /\ poll = "dead" /\ writer = "no"
    /\ served = [r \in Request |-> View!NewRequest("available")] /\ faults = 0

Cache == INSTANCE DashboardCache WITH MaxFaults <- MaxStops, faults <- stops

NoCache ==
    /\ cached = Nothing /\ modified = MaxAge /\ stops = 0
    /\ user = [u \in User |-> [pc |-> "gone", data |-> Nothing, late |-> TRUE]]

-----------------------------------------------------------------------------
Init ==
    /\ service \in {"health", "proposals", "view", "cache"}
    /\ IF service = "health" THEN Health!Init ELSE HealthExited
    /\ IF service = "proposals" THEN Proposals!Init ELSE ProposalsExited
    /\ IF service = "view" THEN View!Init ELSE NoView
    /\ IF service = "cache" THEN Cache!Init ELSE NoCache

Next ==
    /\ UNCHANGED service
    /\ \/ service = "health" /\ Health!Next /\ UNCHANGED <<proposalVars, viewVars, cacheVars>>
       \/ service = "proposals" /\ Proposals!Next /\ UNCHANGED <<healthVars, viewVars, cacheVars>>
       \/ service = "view" /\ View!Next /\ UNCHANGED <<healthVars, proposalVars, cacheVars>>
       \/ service = "cache" /\ Cache!Next /\ UNCHANGED <<healthVars, proposalVars, viewVars>>

Spec ==
    /\ Init /\ [][Next]_<<service, healthVars, proposalVars, viewVars, cacheVars>>
    /\ Health!Fairness /\ Proposals!Fairness /\ View!Fairness /\ Cache!Fairness

-----------------------------------------------------------------------------
(* What the theorems assume of the constants. *)

NodesAreFinite == IsFiniteSet(Monitored)

ProposalBounds == Last1 \in Nat /\ MaxClock \in Nat \ {0} /\ MaxCrashes \in Nat

RegistryType == [home : SUBSET Node, runs : View!Version, elected : SUBSET View!Version]

\* The first version is one, and proposals name nodes and releases.
ProposalsKnown ==
    /\ First \in RegistryType
    /\ \A p \in Proposal :
         /\ p.kind \in {"add", "remove", "upgrade", "elect"}
         /\ p.kind \in {"add", "remove"} => p.nodes \subseteq Node
         /\ p.kind \in {"upgrade", "elect"} => p.version \in View!Version
    /\ MaxViewFailures \in Nat

\* What is no answer has no age.
CacheBounds ==
    /\ MaxAge \in Nat /\ MaxStops \in Nat
    /\ Nothing \notin Nat /\ Torn \notin Nat

-----------------------------------------------------------------------------
\* The type invariant of the service at hand.
TypeOK == /\ service = "health" => Health!TypeOK
          /\ service = "proposals" => Proposals!TypeOK
          /\ service = "view" => View!TypeOK
          /\ service = "cache" => Cache!TypeOK

\* Notifications follow one another without a gap, and none is sent twice
\* without a restart.
ToldInOrder == /\ service = "health" => Health!ChangesFollow
               /\ service = "proposals" => Proposals!ToldOncePerLife

\* An answer of the server is true of the registry's latest version.
AnswersAreTrue == service = "view" => View!AnswersAreTrue

\* Changes that last are told and a loop that ends takes the others along;
\* pending and failed proposals are told.
EveryoneIsTold ==
    <>[](/\ service = "health" => Health!Told /\ Health!AllEnded
         /\ service = "proposals" => Proposals!Told)

\* The view reaches the registry, and requests are answered.
EveryoneIsServed == <>[](service = "view" => View!UpToDate /\ View!AllAnswered)

\* A torn dashboard file does not stay torn.
FileHeals == service = "cache" => Cache!FileHeals
=============================================================================
