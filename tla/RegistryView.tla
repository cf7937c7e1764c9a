------------------------------- MODULE RegistryView -------------------------------
(***************************************************************************)
(* The management backend (ic-management-backend): the view it keeps of    *)
(* the registry, the poll that refreshes the view, the lock around it and  *)
(* the requests that are answered from it.  As a server it polls; started  *)
(* by the command line tool it fills its view once.                        *)
(*                                                                         *)
(* Abstractions.  The registry is the history of its versions; one subnet  *)
(* stands for all and for the unassigned nodes.  A part of the view is the *)
(* registry version that it was read from.  The lock is tokio's: readers   *)
(* do not overtake a writer that waits.  Only the poll writes and its own  *)
(* reads never wait.                                                       *)
(***************************************************************************)
EXTENDS Naturals, Sequences, FiniteSets, SequencesExt

CONSTANTS
    Node,
    Eligible,      \* nodes that are healthy, decentralized, no duplicates, no boundary nodes
    Releases,      \* GuestOS versions, the oldest first
    BranchOf,      \* [version -> release branch]
    Unbranched,    \* versions of which the git repository knows no release branch
    First,         \* the first registry version: [home, runs, elected]
    Proposal,      \* proposals that may be made: records of kind and what they name
    Agendas,       \* sets of them; those of one of these sets may be made
    Request,       \* requests
    Loads,         \* what they may ask for: functions from Request to kinds
    MaxFailures    \* bound on failures of the services that the poll asks

VARIABLES
    fromCli,   \* run_from_cli
    history,   \* the registry, all its versions
    votes,     \* [Proposal -> {"new", "open", "done"}]
    disk,      \* the version of the local store
    view,      \* RegistryState
    poll,      \* where the poll stands
    writer,    \* the poll and the lock: "no", "waiting"
    served,    \* [Request -> state of the request]
    failures

viewVars == <<disk, view, poll, writer, failures>>
nnsVars  == <<history, votes>>
vars     == <<fromCli, nnsVars, viewVars, served>>

Version == ToSet(Releases)
Latest  == Len(history)

-----------------------------------------------------------------------------
(* The network: governance and registry. *)

After(r, p) ==
    CASE p.kind = "add"     -> [r EXCEPT !.home = @ \cup p.nodes]
      [] p.kind = "remove"  -> [r EXCEPT !.home = @ \ p.nodes]
      [] p.kind = "upgrade" -> [r EXCEPT !.runs = p.version]
      [] p.kind = "elect"   -> [r EXCEPT !.elected = (@ \cup {p.version}) \ p.unelect]

Submit(p) ==
    /\ votes[p] = "new"
    /\ votes' = [votes EXCEPT ![p] = "open"]
    /\ UNCHANGED <<fromCli, history, viewVars, served>>

Execute(p) ==
    /\ votes[p] = "open"
    /\ votes' = [votes EXCEPT ![p] = "done"]
    /\ history' = Append(history, After(Last(history), p))
    /\ UNCHANGED <<fromCli, viewVars, served>>

Open(kinds) == {p \in Proposal : votes[p] = "open" /\ p.kind \in kinds}

-----------------------------------------------------------------------------
(* Filling the view. *)

\* sync_local_store, which a loop of its own repeats on the server.
SyncLocalStore ==
    /\ ~fromCli /\ disk < Latest
    /\ disk' = Latest
    /\ UNCHANGED <<fromCli, nnsVars, view, poll, writer, served, failures>>

Empty == [releases |-> 0, operators |-> 0, nodes |-> 0, subnets |-> 0, version |-> 0]

\* The version is set before the parts.
RefreshedVersionFirst(v, d, last) ==
    LET parts == <<"version", "releases", "operators", "nodes", "subnets">>
        done  == {parts[i] : i \in 1..last}
    IN  [part \in DOMAIN v |-> IF part \in done THEN d ELSE v[part]]

\* The parts in the order in which they are read; the version comes last.
Refreshed(v, d, last) ==
    LET parts == <<"releases", "operators", "nodes", "subnets", "version">>
        done  == {parts[i] : i \in 1..last}
    IN  [part \in DOMAIN v |-> IF part \in done THEN d ELSE v[part]]

\* update_node_details: without an error, with one that leaves the rest as it
\* was, or with a panic when an elected version has no release branch, after the
\* list of releases was cleared.
UpdateNodeDetails(ends) ==
    IF history[disk].elected \cap Unbranched # {}
    THEN view' = [view EXCEPT !.releases = 0] /\ poll' = "dead" /\ UNCHANGED failures
    ELSE /\ poll' = ends
         /\ \/ view' = Refreshed(view, disk, 5) /\ UNCHANGED failures
            \/ /\ failures < MaxFailures /\ failures' = failures + 1
               /\ \E last \in 0..4 : view' = Refreshed(view, disk, last)

\* The first refresh of a backend that the command line starts.
FillOnce ==
    /\ fromCli /\ poll = "first"
    /\ UpdateNodeDetails("done")
    /\ UNCHANGED <<fromCli, nnsVars, disk, writer, served>>

-----------------------------------------------------------------------------
(* The poll. *)

\* Once there is a view it is kept.
BehindOnlyWhenEmpty == view.version = 0

Behind == view.version # Latest

PollCompare ==
    /\ ~fromCli /\ poll = "sleep" /\ Behind
    /\ poll' = "labels"
    /\ UNCHANGED <<fromCli, nnsVars, disk, view, writer, served, failures>>

\* query_guests; without an answer the old labels stay.
PollLabels ==
    /\ poll = "labels"
    /\ \/ poll' = "labels locked" /\ writer' = "waiting" /\ UNCHANGED failures
       \/ failures < MaxFailures /\ failures' = failures + 1 /\ poll' = "providers" /\ UNCHANGED writer
    /\ UNCHANGED <<fromCli, nnsVars, disk, view, served>>

\* query_ic_dashboard_list; without an answer this poll ends.
PollProviders ==
    /\ poll = "providers"
    /\ \/ poll' = "update locked" /\ writer' = "waiting" /\ UNCHANGED failures
       \/ failures < MaxFailures /\ failures' = failures + 1 /\ poll' = "sleep" /\ UNCHANGED writer
    /\ UNCHANGED <<fromCli, nnsVars, disk, view, served>>

Guards == {r \in Request : served[r].guards > 0}

\* The guard is kept until the poll sleeps.
LockKept == writer

LockReleased == "no"

\* The write lock is granted, the labels are stored and the lock is given back.
StoreLabels ==
    /\ poll = "labels locked" /\ Guards = {}
    /\ poll' = "providers" /\ writer' = LockReleased
    /\ UNCHANGED <<fromCli, nnsVars, disk, view, served, failures>>

Update ==
    /\ poll = "update locked" /\ Guards = {}
    /\ UpdateNodeDetails("sleep")
    /\ writer' = LockReleased
    /\ UNCHANGED <<fromCli, nnsVars, disk, served>>

-----------------------------------------------------------------------------
(* Requests.  The middleware keeps its guard while the handler runs. *)

CanRead == writer = "no"

Waits(r, pc) == served[r].pc = pc

Serve(r, state) ==
    /\ served' = [served EXCEPT ![r] = state]
    /\ UNCHANGED <<fromCli, nnsVars, viewVars>>

Enter(r) ==
    /\ Waits(r, "enter") /\ CanRead /\ (fromCli => poll = "done")
    /\ Serve(r, [served[r] EXCEPT !.pc = "ask", !.guards = 1])

\* get_latest_version; 0 when the registry cannot be reached.
AskLatest(r) ==
    /\ Waits(r, "ask")
    /\ \E v \in {Latest, 0} : Serve(r, [served[r] EXCEPT !.pc = "check", !.latest = v])

\* The answer of a registry that can be reached is enough.
RefusesUnreachable(v) == v = 0

Refuses(v) == v = 0 \/ (v # view.version /\ ~fromCli)

\* The guard of a refused request is kept.
UnavailableKept(r) == [served[r] EXCEPT !.pc = "answered", !.status = 503]

Unavailable(r) == [served[r] EXCEPT !.pc = "answered", !.status = 503, !.guards = 0, !.latest = 0]

Check(r) ==
    /\ Waits(r, "check")
    /\ Serve(r, IF Refuses(served[r].latest) THEN Unavailable(r) ELSE [served[r] EXCEPT !.pc = "handler"])

\* The handler takes a guard of its own.
HandlerRead(r) ==
    /\ Waits(r, "handler") /\ CanRead
    /\ Serve(r, [served[r] EXCEPT !.pc = "list", !.guards = 2])

Touched(p) == IF p.kind \in {"add", "remove"} THEN p.nodes ELSE {}

\* update_nodes: a node is placed when a subnet of the registry has it.
Placed == history[view.nodes].home

\* update_subnets: what the subnets run, the version of the unassigned nodes with
\* it; nothing before the first refresh.
InUse == IF view.subnets = 0 THEN {} ELSE {history[view.subnets].runs}

\* available_nodes: nodes without a subnet and without an open proposal.
AvailableNodes ==
    IF view.nodes = 0 THEN {}
    ELSE (Eligible \ Placed) \ UNION {Touched(p) : p \in Open({"add", "remove"})}

\* get_active_branches: the branches of the two youngest releases that differ.
ElectedReleases == SelectSeq(Releases, LAMBDA v : view.releases # 0 /\ v \in history[view.releases].elected)

ActiveBranches ==
    LET Later(i) == {BranchOf[ElectedReleases[j]] : j \in i..Len(ElectedReleases)}
    IN  UNION {Later(i) : i \in {j \in DOMAIN ElectedReleases : Cardinality(Later(j)) <= 2}}

\* retireable_guestos_versions: elected, of no active branch, not in use and not
\* in an open proposal that un-elects it.
Retireable ==
    {v \in ToSet(ElectedReleases) :
       /\ BranchOf[v] \notin ActiveBranches
       /\ v \notin InUse
       /\ \A p \in Open({"elect"}) : v \notin p.unelect}

\* The handler awaits the list of proposals and answers.  change_preview reads
\* the nodes once more.
ListProposals(r) ==
    /\ Waits(r, "list")
    /\ Serve(r, IF served[r].kind = "preview" THEN [served[r] EXCEPT !.pc = "again", !.guards = 2]
                ELSE [served[r] EXCEPT !.pc = "answered", !.guards = 0, !.status = 200, !.seen = view,
                                       !.answer = IF served[r].kind = "available" THEN AvailableNodes ELSE Retireable])

ReadAgain(r) ==
    /\ Waits(r, "again") /\ CanRead
    /\ Serve(r, [served[r] EXCEPT !.pc = "answered", !.guards = 0, !.status = 200, !.seen = view])

-----------------------------------------------------------------------------
NewRequest(kind) == [kind |-> kind, pc |-> "enter", guards |-> 0, latest |-> 0, status |-> 0, seen |-> Empty, answer |-> {}]

Init == /\ fromCli \in BOOLEAN
        /\ history = <<First>>
        /\ \E agenda \in Agendas : votes = [p \in Proposal |-> IF p \in agenda THEN "new" ELSE "done"]
        /\ disk = 1
        /\ view = Empty
        /\ poll = IF fromCli THEN "first" ELSE "sleep"
        /\ writer = "no"
        /\ \E load \in Loads : served = [r \in Request |-> NewRequest(load[r])]
        /\ failures = 0

Poll == PollCompare \/ PollLabels \/ PollProviders \/ StoreLabels \/ Update

Handle(r) == \/ Enter(r) \/ AskLatest(r) \/ Check(r)
             \/ HandlerRead(r) \/ ListProposals(r) \/ ReadAgain(r)

Next == \/ \E p \in Proposal : Submit(p) \/ Execute(p)
        \/ SyncLocalStore \/ FillOnce \/ Poll
        \/ \E r \in Request : Handle(r)

Spec == Init /\ [][Next]_vars

\* The tasks of the runtime are scheduled; nobody has to vote.  A request comes
\* at any time before it enters.
Fairness == /\ WF_vars(SyncLocalStore) /\ WF_vars(Poll) /\ WF_vars(FillOnce)
            /\ \A r \in Request : WF_vars(Handle(r))

FairSpec == Spec /\ Fairness

-----------------------------------------------------------------------------
(* Properties. *)

\* The type invariant.
TypeOK == /\ fromCli \in BOOLEAN
          /\ \A v \in DOMAIN history : history[v].home \subseteq Node /\ history[v].runs \in Version
          /\ votes \in [Proposal -> {"new", "open", "done"}]
          /\ disk \in DOMAIN history
          /\ view \in [{"releases", "operators", "nodes", "subnets", "version"} -> 0..Latest]
          /\ poll \in {"first", "done", "sleep", "labels", "labels locked", "providers", "update locked", "dead"}
          /\ writer \in {"no", "waiting"} /\ (writer = "waiting" <=> poll \in {"labels locked", "update locked"})
          /\ \A r \in Request : served[r].guards \in 0..2 /\ served[r].status \in {0, 200, 503}
          /\ failures \in 0..MaxFailures

\* What the server answers is true of one registry version, the one that was the
\* latest when the middleware asked, whatever refresh failed half way before and
\* whatever is refreshed meanwhile: no offered node was in a subnet then and no
\* version to retire was run (endpoints/mod.rs:57-71, registry.rs:254-263).
AnswersAreTrue ==
    \A r \in Request :
      LET s == served[r] IN
      ~fromCli /\ s.status = 200 =>
        /\ \A part \in DOMAIN s.seen : s.seen[part] = s.latest
        /\ s.kind = "available" => s.answer \cap history[s.latest].home = {}
        /\ s.kind = "retireable" => history[s.latest].runs \notin s.answer

\* A request holds a guard and waits for another behind the poll, which waits
\* for that guard.
Stuck == writer = "waiting" /\ \E r \in Request : served[r].guards > 0 /\ served[r].pc \in {"handler", "again"}

\* That is the only way in which a request stays without an answer
\* (endpoints/mod.rs:57-71, registry.rs:1036-1087).
AllAnswered == \A r \in Request : served[r].pc = "answered" \/ Stuck \/ poll = "dead"

RequestsAnswered == <>[]AllAnswered

\* The server's view reaches the registry's last version, unless the poll waits
\* for such a request or has died of a panic (registry.rs:1036-1056).
UpToDate == fromCli \/ view.version = Latest \/ poll = "dead" \/ Stuck

ViewCatchesUp == <>[]UpToDate
=============================================================================
