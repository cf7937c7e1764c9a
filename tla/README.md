# Formal models of DRE

DRE is the tool set of the decentralized reliability engineering team of the
Internet Computer: services that discover what must be monitored, controllers that
roll out replica releases, notifiers, log fetchers, a management backend and a
command line.  This directory holds TLA+ modules of its stateful parts, the TLC
configurations that check them on small instances, and proofs of the most
important invariants for every instance.  Source paths below are relative to the
repository.

    tlc -workers 2 -config supervisor_crash.cfg MCDefinitionsSupervisor.tla
    tlapm DefinitionsSupervisorProofs.tla

## 1. Inventory

| component | state | operations | interacts with | what is hard, and what makes it correct |
|---|---|---|---|---|
| **Multiservice discovery, supervisor** (`rs/ic-observability/multiservice-discovery/src`) | map name -> running definition behind one async mutex; networks state file | add, replace, delete, add boundary node, boot, shutdown; export of targets | HTTP handlers and `main` share the mutex; it stops and joins threads; reads and writes the file | handlers block a runtime worker while they hold the mutex; a crash between open and write; requests in flight at shutdown. *The map and the threads agree, folders are exclusive, mainnet stays served, every request is answered* |
| **Running definition** (same, `definition.rs`, `metrics.rs`) | one OS thread, rendezvous stop channel, metrics of its name | sync, retry, load, update, wait, end | the supervisor; the registry over the network | the stop message is received only at a few points. *Stopping always ends; metrics belong to a running thread* |
| **Service discovery library** (`service-discovery/src`) | local registry store, registries in memory | `sync_local_registry`, `load_new_ics`, `update_registries`, `get_target_groups` | the NNS, the disk, the updater threads | deferred writes whose results are dropped, gaps in the change log, a kill between open and write. *Every file of the store is one version of the registry, none is skipped, and the store catches up* |
| **Rollout controller** (`rs/rollout-controller/src`) | none but a checkout of the index and its position in one iteration | sync, fetch, two metric queries, two proposal listings, plan, execute | registry, git, Prometheus, governance, ic-admin | every input is older than the action it leads to; actions fail half way. *Stages in order, no duplicate proposals, waits for bake time and week, completes* |
| **Release controller** (`release-controller/*.py`) | one state file per version (absent, empty, proposal id), forum posts, branches, documents | reconcile: forum, tags, notes, publish, un-elect, place the election proposal | forum, GitHub, documents, governance, index | at most one proposal per version over crashes; partial publication; a watchdog that kills the process |
| **Slack notifier** (`rs/slack-notifications/src`) | two checkpoint files, groups of messages | poll pending and failed proposals, group, send, save | governance, Slack | a restart between send and save, failed sends and saves, equal time stamps. *Everything lasting is told, once per life of the process* |
| **Node provider notifications** (`rs/np-notifications/src`) | last status per node, channel of notifications, cancellation token, readiness flags | registry loop, health loop, sender loop, routing | registry, public dashboard, webhooks | three loops of which each can fail or panic; the statuses are replaced after the notifications were queued. *Changes form one story per node; a change that lasts is told; a loop that ends takes the others along* |
| **Log fetchers** (`rs/log-fetcher`, `rs/canister-log-fetcher`) | cursor in memory and file; time of the last entry | fetch, parse, print, save the cursor | journal gateways, canisters | the export format with newlines in messages, cut answers, restarts, entries of one time. *Every line once, whole and in order* |
| **Downloaders and config writers** (`multiservice-discovery-downloader`, `sns-downloader`, `config-writer-common`, `node-status-updater`, `prometheus-config-updater`) | hash of the last answer, configurations last built, rendezvous channels | poll, filter, generate, write, notify, stop | discovery service, registries, files | what is remembered is remembered before the write; two threads take messages from one channel; shutdown joins threads that wait for each other. *Memory and files agree, files catch up, shutdown ends* |
| **Decentralization** (`rs/decentralization/src`) | the request under way | scores, business rules, replace, resize, create, rescue, heal | backend, cli | greedy choice one node at a time, spare nodes shared by several subnets. *Coefficients mean what they say, sizes and limits are kept, no node is given twice, a swap never makes a subnet worse* |
| **HostOS rollout groups** (`rs/cli/src/operations/hostos_rollout.rs`, `nodes_ops.rs`) | reads of one run | group, filter, take a share of the nodes, propose; remove nodes | registry, health, governance | three reads at three times, rounding, groups that run empty. *No node in two proposals, shares are kept, the group catches up* |
| **Management backend** (`rs/ic-management-backend/src`) | view over the registry behind a lock, dashboard file, view of a rollout | poll, refresh, label, answer; schedule; cache | registry, governance, dashboard, the tool | a refresh in parts that can fail half way, a fair lock, calendar arithmetic, a file shared without a lock. *Answers are true of the latest version, every request is answered or the known deadlock holds, every subnet is scheduled once and the NNS last* |
| **cli** (`rs/cli`) | commands under way, open proposals | change membership, heal, elect, edit the firewall, propose | backend, ic-admin, governance, image servers | several operators at once; checks that are old when the proposal is submitted; batches of rule changes. *An operator's own changes do not pile up, elected images agree, a firewall edit is proposed as a whole* |
| **clients, types** (`rs/ic-canisters`, `rs/ic-management-types`) | none | data and thin clients | canisters | - |
| **Kubernetes jobs, scripts, dashboard, node status canister** | external stores | small scripts; user interface | - | out of scope |

`PROJECT.json` lists every component with its status, and under `hazards` the
places where testing hardly reaches, each with the properties that watch it.

## 2. Plan

Order of the modules; all blocks exist.

1. `RunningDefinition`, `DefinitionsSupervisor`, `FolderLease`, with
   `MCDefinitionsSupervisor` and the proofs in `DefinitionsSupervisorProofs`.
2. `RolloutController`, `StagedRollout`, with `MCRolloutController` and
   `RolloutControllerProofs`.
3. `Reconciler` with `MCReconciler` and `ReconcilerProofs`.
4. `RegistrySync`, `ConfigUpdaters`, `Downloader`, `LogFetchers`, composed by `Discovery`, with
   `MCDiscovery` and `DiscoveryProofs` (section 6).
5. `NodeNotifications`, `ProposalNotifier`, `RegistryView`, `DashboardCache`, composed by
   `Services`, with `MCServices` and `ServicesProofs` (section 7).
6. `SubnetChange`, `ReleaseSchedule`, `HostosRollout`, `DreTool`, composed by `Planning`, with
   `MCPlanning`, `PlanningProofs` and `ScheduleProofs` (section 8).
7. `LeastAndGreatest` holds the lemmas that the proofs of several blocks share: about the least and
   the greatest number of a set, induction over numbers, and functions defined by recursion.

With these every type invariant of the runs is a theorem, and so is every safety property but one part of one,
for every value of the constants that the stated assumptions allow.  What stays with TLC:

- The conjunct `InTime` of `ScheduleIsSound`.  It needs assumptions on the calendar that amount to its
  statement: with enough excluded days two weeks have no room for the rollout, and the view panics
  (section 9).  The other three conjuncts are theorems of `ScheduleProofs`.
- The liveness properties, which rest on fairness and ENABLED.

The modules of one of the blocks 4 to 6 are programs that do not meet: they share
neither memory nor files, and what connects them - registry, governance, targets - is the
environment of each.  One composition module per block (`Discovery`, `Services`, `Planning`)
therefore holds an instance of each and a variable (`program`, `service`, `part`) that says which of them a behaviour is about.
The variables of the others rest in a state in which nothing can happen (`...Exited`, `No...`,
`NothingTo...`), so that a run costs the sum and not the product of the instances,
and no fairness condition is about a program that is not there.  The MC modules give
the constants values, and have TLC evaluate the assumptions of the theorems for them.
The proof modules show that every behaviour of a composition is one of the program at hand
(lemmas `UpdatersRun`, `HealthRuns`, `ChangesRun` and the like), so what is proved of a part holds of
the composition, and the theorems state the very properties the runs check.

## 3. The multiservice discovery

### State and actions

`RunningDefinition` models one thread per slot.  `thread[d].pc` says where
`RunningDefinition::run` is; the values that await the network are apart from
those that compute, because the network needs a worker of the runtime.  The stop
channel has capacity zero: `thread[d].stop` is TRUE exactly while a sender is blocked in
`send()`, and the thread receives in `Interrupted` (the `try_recv`s of the sync) and
`StopWhileWaiting` (the two selects).  `ender` is the slot of
`Arc<Mutex<Option<Ender>>>`.  `metrics` is the key set of `latest_values`.

`DefinitionsSupervisor` extends it by the map (`definitions`, `boundaryNodes`), the
mutex (`lock`, a fair `queue`), one record per task with its program counter,
the file and the phases of `main`.  One action is one stretch of code between two
points at which another task or thread can run:

| code | actions |
|---|---|
| `start_inner` | `Start` (checks, removal), `SendStop`, `JoinThread`, `AllEnded`, `RunDefinition`, `AllAdded`, then `Persist*` |
| `stop` | `Stop`, `SendStop`, `JoinThread`, `AllEnded` (it does not save) |
| `end` | `End`, `SendStop`, `JoinThread`, `AllEnded` (clears the map last) |
| `add_boundary_node` | `AddBoundaryNode`, then `Persist*` |
| `persist_defs` | `PersistOpen`, `PersistWrite`, `PersistFail` |
| handlers up to the mutex | `AcceptDefinitions`, `AcceptLocking`, `Convert`, `ConversionFails` |
| `main` | `LoadOrCreate`, `StartMainnet`, `Shutdown`, `ServerStopped`, `Restart` |
| anything, any time | `Crash` |

`PersistWrite` writes at offset zero of a file that is opened without `truncate`.
`Overwritten` is what that does: a shorter content keeps the tail of the longer one,
and such a file does not parse.

Abstractions: a definition is its name and boundary nodes; the file is always
configured; each definition and boundary node is one unit of file length;
contacting the NNS either works or fails.  Panics of the threads are left out: a
thread that panicked would leave `end()` blocked in `send()`.  Reading exports do not
change state and are left out.

### Runs

| run | instance | question |
|---|---|---|
| `supervisor_crash` | 2 networks, 2 thread slots, 1 handler, 1 boundary node, writes succeed, 1 crash, any number of orderly restarts | `OneThreadPerFolder`, `LeaseSpec` (refinement of `FolderLease`), `MetricsMatchThreads`, `RunningAreSaved`, `TypeOK` |
| `supervisor_handlers` | 2 handlers, every write may fail, no boundary nodes, no crash | `MapMatchesThreads` under contention for the mutex, `MercuryServed` |
| `supervisor_live` | 1 handler, every definition deletable, fairness | `RequestsAnswered`, `ShutdownCompletes` |
| `supervisor_shutdown` | 1 handler | violated: a handler behind `end()` in the queue starts definitions that nobody ends |

Two networks are mercury, which is protected, and another that is not; three slots add
nothing because a slot is reused only after a join.  One crash reaches every point
of a save, and the start after it reads what that left.  Two handlers and `main`
give every order of three clients of the mutex.  Symmetry over thread slots and
handlers is used only where no liveness is checked.

Fairness (`FairSpec`): threads are scheduled and their network calls end (they have
timeouts), tasks that can go on do.  When both arms of a select are ready crossbeam
picks one at random, so a stop that is offered again and again is taken: strong
fairness for `StopArm`.  Requests, the shutdown signal and crashes are not promised.
`Workers = 2` says that a blocked handler leaves a worker for the network; with one
worker (the mutant `IODrivenByOne` of the liveness run is that build) a handler waits for
ever for a thread that waits for the runtime.

### Proofs

`DefinitionsSupervisorProofs` proves for every set of names, threads, handlers,
boundary nodes and folders, with crashes and restarts:

- `TypeCorrect`: `TypeOK` always holds;
- `MapAndThreadsAgree`: `MapMatchesThreads` always holds;
- `FoldersExclusive`: if no two names share a folder (`OneFolderPerName`),
  `OneThreadPerFolder` always holds;
- `LeaseImplemented`: under the same assumption the specification implements
  `FolderLease`;
- `MetricsFollowThreads`: `MetricsMatchThreads` always holds;
- `MainnetIsServed`: `MercuryServed` always holds;
- `SavedWhileDiskWorks`: if no write fails, `RunningAreSaved` always holds.

The argument is the inductive invariant `IndInv`.  `MapMatchesThreads` speaks only of
moments at which the mutex is free, so the strengthening says what holds
meanwhile: the mutex is held by the one task in its critical section (`LockInv`); what a
task is about to end is out of the map (`RemovedInv`) except during `end()`, which
clears the map last but is about to end every thread (`EndInv`); an entry of the map leads to
a thread that can be stopped (`MapInv`); no two threads have one name (`NameInv`); and
every thread is known to the map or to the task that ends it (`KnownInv`), which is
why a definition cannot be started twice and none is lost.  `FoldersExclusive` follows from
`NameInv`; the refinement needs in addition that a thread keeps its name from `Run` to
`Join`, and the metrics that no two threads have one name.  The assumptions used are the named
`ASSUME`s of the module.

`MercuryServed`, too, speaks only of moments at which the mutex is free: meanwhile mainnet is in
the map, or a task is between the removal and the `Run` of a request that names it
(`MercuryKept`).  No handler ends everything (`HandlersDoNotEnd`), none works before the server
is up (`NotYetServing`), and the start itself brings mainnet (`MercuryStarts`).  `SavedInv` says
that a whole file holds the map unless a task is between the change of the map and
the end of its save; a crash empties the map and a restart reads back what the file has.

Only model-checked: the two liveness properties.

### Worth knowing

- A deletion is not saved: the deleted definition is back after a restart.  No text
  says otherwise, so there is no property about it.
- `Definition::new` replaces `.` and `/` in a name by `_`.  Two names that differ only
  there share a folder, and both threads run in it; the assumption
  `OneFolderPerName` excludes this, and with a `FolderOf` that maps both names to one
  folder `OneThreadPerFolder` fails within a few steps.
- A file that does not parse is deleted and the process panics; the next start runs
  without the definitions it held (`LoadOrCreate`).

## 4. The rollout controller

### State and actions

The controller is stateless between iterations except for its git checkout.  `pc` is its
position in the loop of `main`, `seen` what the current iteration has read, `todo` the
`PlaceProposal` actions left, by their position in the stage.  Each read is an action of its own, so that the world can
change in between: `Sync` (subnet versions and elected versions from one
registry snapshot), `Fetch`, `QueryBake`, `QueryStart` (with
`desired_rollout_release_version`), `ListSubnetProposals`, `CheckStages` (the second
listing, then `check_stages`, then what `main` does with the answer), and one of
`Place`, `PlaceUnnoticed`, `PlaceFails` per action of `ActionExecutor::execute`.
`StartOver` is any failing query and the restart after a panic.

`Fetch` may leave the checkout as it was: `execute_git_command` looks at whether
git could be started, not at its exit code.  `Verdict` is `check_stage` for one unit.
`Listed` is what the two listings leave: proposals of every status are fetched, the rejected ones are
dropped (`rs/ic-management-types/src/lib.rs:39`) and the executed ones by `stage_checks.rs:183`.  So a
rejected upgrade is proposed again, and one whose execution failed (`failed`) counts as pending for ever.

The environment is external: governance executes or rejects open proposals, or adopts them and the
execution fails; subnets run the version of the registry at once or later (`ReplicasLag`), the metrics know whether
the last old version of a subnet is gone for long enough, `Forget` is the end of their
21 days, people edit the index, elect versions and upgrade subnets by hand.

`StagedRollout` is the promise for one release: a unit is proposed only when all
units of the stages before it are done.  The refinement mapping `Status` calls a unit done
when the registry has its version of the newest release, proposed when a proposal
for that is open.

### Runs

| run | instance | question |
|---|---|---|
| `rollout_stages` | 2 releases with a feature build; stages subnet / unassigned nodes, which wait for a week / subnet; everything can fail, be rejected, be paused, lag and be forgotten; the newer release is published late | `OneOpenProposal`, `WeekRespected`, `StopsOnlyWhenCompleted`, `RolloutSpec`, `TypeOK` |
| `rollout_live` | two subnets in one stage, replicas switch with the registry, no failures, rejections or pauses, fairness | `BakedBeforeNextStage`, `RolloutCompletes` |
| `rollout_failed` | proposals are rejected or fail, fairness | `MissingIsProposed` is violated: an upgrade whose proposal failed is never proposed again |

Two releases are enough for "at most two active" and for a duplicate proposal to meet an
upgraded unit; a third would only add the panic, which starts the loop over.
Stages: one before, one without subnets, one that waits, one that waits without subnets, and one with two
subnets are the kinds that `check_stages` tells apart.  `MaxOpen = 2` lets a duplicate appear.
In `rollout_live` the newer release is published from the start: published later, it may be
started by hand just when the controller stops because the older one is complete.

Fairness: the loop runs on; governance executes, replicas restart, time passes, versions
are elected.  The liveness run has `MayFail = FALSE`: it says what happens once the
services answer.  It also assumes that no proposal is rejected or fails, no pause is made, and
the metrics do not forget; `rollout_failed` shows what one failed execution does.

### Proofs

`RolloutControllerProofs` proves, for any subnets, versions, releases and stages, with late
replicas, stale checkouts, failures, rejected and failed proposals, pauses, restarts and an operator:

- `TypeCorrect`: `TypeOK` always holds; with it, that there is something to place exactly
  while actions are executed (`Busy`).
- `NeverTwoOpen`: if no stage names a subnet twice (`SubnetsOnce`; the code would
  propose the second one, too), `OneOpenProposal` always holds.  The registry and the
  listings are read at different times, so the invariant `FreshInv` follows what
  was read: a unit that was not listed has no open proposal as long as the second listing
  is to come (`FreshListing`), nor has anything that is still to be placed (`FreshTodo`), and no
  two positions hold one proposal (`DistinctTodo`).  It is kept because only the controller
  opens proposals (`WorldOpensNothing`) and each iteration lists anew.
- `NoProposalInTheWrongWeek`: if no unit is in two stages (`OneStageEach`) and no version
  in two releases (`OneReleaseEach`), `WeekRespected`.  The invariant `DueTodo` says that
  what is to be placed is of a release whose week has passed if its stage, or one before,
  waits; the week stays passed.
- `RolloutIsStaged`: with two releases and no version in both the specification
  implements `StagedRollout`.  The invariant `RefInv` says that the snapshot is an earlier
  state of the registry (`SnapshotInv`), that the old release is desired only if the
  snapshot has nothing of the new one (`DesiredInv`), that everything proposed is of the new
  release (`WorldInv`), and that the stages before a proposal that is to be placed are done
  (`TodoInv`).  With three releases the promise about the newest does not hold: a unit that
  somebody upgraded to it goes back when a proposal of the second release is executed.
- `NothingBeforeTheBake`: under the assumptions of the last two, `BakedBeforeNextStage` in every behaviour
  in which no replica lags behind the registry at the moment the metrics are read
  (`MetricsAreUpToDate`); at every other moment replicas may lag, and `ReplicasLag` may be TRUE.
  `BakeInv` adds to `RefInv` that a subnet which was seen on its new
  version and baked is so still (`BakeRead`: the metrics are read after the registry, and the bake time starts
  anew only with another version), and that the stages before what is to be placed
  are settled (`TodoBaked`).  With a lag at that moment the promise is broken (section 9).
- `EndsWithEveryUnit`: with two releases and no version in both, `StopsOnlyWhenCompleted`: the program ends
  with "Rollout completed" only at a pause of the index it read, or when every unit of every
  stage has the newest release of that index, or before a stage that waits without subnets and
  then with every unit of the stages before it.  `StopInv` adds to `RefInv` that the newer
  release is the one desired once it is in the checkout (`NewDesired`).

Only model-checked: the liveness property.

### Worth knowing

Without a run of its own:

- A paused index, a skipped day, or a waiting stage without subnets gives an empty list of
  actions, and `main` ends with "Rollout completed".  `StopsOnlyWhenCompleted` names these as the
  only ends beside a rollout that is complete.
- While no replica runs a version of the newer release, the query for its start has no
  data and every iteration fails.  A rollout begins only after somebody upgraded a
  first subnet by hand (`UpgradeByOperator`); the test "Beginning of a new
  rollout" of `stage_checks.rs` starts behind that query.  `RolloutCompletes`
  therefore speaks of a release that has begun.

Not modelled: the dry-run mode, the skipped days as dates (a skipped day is a pause), the
order of the log messages, an index that names no known subnet (a panic).

## 5. The release controller

### State and actions

The process keeps nothing but the files of `ReconcilerState`; what it works on is outside:
forum, tags, documents, branches, proposals.  `it` is the position in
`Reconciler.reconcile` with what the iteration has read: the index, the active versions, and the
list of versions to un-elect.  A call to one service is one action.

| code | action |
|---|---|
| `loader.index()`, `active_versions()`, `oldest_active_release` | `ReadIndex`, `ReadActive` |
| `forum_client.get_or_create`, first and second `rc_forum_topic.update` | `OpenTopic`, `Announce`, `Refresh` |
| `push_release_tags` | `PushTags` |
| `notes_client.ensure`, the lookup of its first commit | `EnsureNotes`, `IndexError` |
| `publish_if_ready` | `PublishIfReady` |
| `loader.changelog`, `proposal_submitted`, `mark_submitted`, `versions_to_unelect` | `Skip`, `WasSubmitted`, `Mark` |
| `place_proposal` | `PlaceProposal` |
| `replica_version_proposals`, `save_proposal` | `SaveProposal` |
| an exception anywhere, a restart, the watchdog | `StartOver`, and `CutShort` inside the actions |

A call that makes several requests (tags, posts, the steps of a pull request) may get
through only some of them: such an action chooses how far it comes, and only the whole
goes on to the next position (`Went`).  `ic-admin` may submit and still fail.

`replica_version_proposals` reads only the newest proposal of the topic (`governance.py:64-65`):
`SaveProposal` saves an id only while the newest proposal (`Newest`) elects the version at hand, and raises
while there is none or the newest elects nothing (`Unreadable`).

The environment is external: people list and remove versions, finish release notes, merge
pull requests and propose by hand, also something that elects no version; governance adopts; subnets move between elected
versions.  A version that no release of the index knows may be in use from the start.

### Runs

| run | instance | question |
|---|---|---|
| `reconciler_once` | a release with a hotfix and the one before it, a version in use that is in no release, one failure anywhere, one proposal by hand, versions removed from the index | `OneOwnProposal`, `InUseStaysElected`, `ForumMatchesProposals`, `ProposedIsPrepared`, `TypeOK` |
| `reconciler_live` | the same releases, two failures anywhere, one proposal of others of any kind, nothing removed, fairness | `ListedIsAnnounced` |

A release with two versions makes positions of posts differ from each other and un-election
belong to the first only; two releases make an oldest active one and one that is worked on
before it.  The version that the network runs was elected by an old proposal (`FirstProposals`).  One
proposal of others can come before, between and after the controller's own, and so be the newest one
at every point.  One failure meets every position of the first and every later iteration; two
failures reach a failure while the first is repaired.

Fairness: the loop runs on; reviewers finish, pull requests are merged.  Votes and upgrades are
not promised.  `MaxFailures` bounds the failures, so `ListedIsAnnounced` says what follows
once they end, and while the newest proposal can be read.  It exempts three versions the code gives
up, each by name: `GivenUp`, `Overtaken` and `IsLast` (below).

### Proofs

`ReconcilerProofs` proves, for every list of releases, every first state of the network,
and any number of failures:

- `TypeCorrect`: `TypeOK` always holds.  The strengthening `Within` says that the
  position in a release is one of its versions, from which every read of the index is typed.
- `ProposedOnce`: `OneOwnProposal` always holds.  The invariant `OnceInv` says that a version
  with a proposal has its file (`MarkedFirst`) and that a version about to be proposed has
  its file but no proposal (`AboutToPropose`).  The file is written before the
  proposal and never removed, so a failure in between costs the proposal but never doubles it.
- `ProposedWhenPrepared`: `ProposedIsPrepared` always holds.  `PreparedInv` adds that the tags of
  the release at hand are pushed (`TagsPushed`), that the version about to be proposed is
  merged (`MergedFirst`), and neither is ever undone.
- `InUseElected`: `InUseStaysElected` always holds if a version is listed at one place of one release
  (`VersionsOnce`), no version of a release that is still to be listed is elected already
  (`NothingElectedEarly`), and the network runs a version of a listed release at the start
  (`FirstNetworkListed`).  The list of versions to un-elect is as old as the two reads it was made from.
  `UseInv` says why that does no harm: subnets move only to elected versions of the releases from
  the oldest active one on, and the oldest active release never gets older
  (`NetworkRead`), so what no subnet could move to when the list was made none moves to when the
  proposal is adopted (`ProposalsInv`: what an open proposal un-elects has no use, `NoUse`).
- `ForumIsRight`: `ForumMatchesProposals` always holds.  The saved id of a version is that of
  a proposal for it (`SavedRight`); what a post announces likewise (`PostsRight`).
  Links go by position: while a release has only grown, the index that was read is the beginning of
  it (`IndexWas`), the posts of the release at hand are in the order of its versions
  (`PostsHere`), and a link that was right stays right (`LinksHold`).

The assumptions are the named `ASSUME`s of the module - there is a release, the versions in
use are elected at the start - and those three of `InUseElected`.  Rollouts keep the three: a
version is the hash of one commit under one name, it is elected by the proposal that its
release leads to, and a network whose versions are in no listed release has no oldest active
one, at which `oldest_active_release` raises.  Only model-checked: `ListedIsAnnounced`.

### Worth knowing

- A failure between `mark_submitted` and the end of `place_proposal` leaves a version that is
  never proposed; `ListedIsAnnounced` exempts it (`GivenUp`).  The comment at
  `reconciler.py:202` chooses this.
- `ForumMatchesProposals` speaks of links in releases from which nothing was removed.  Posts are
  found by position: after a removal the link of a submitted proposal ends at the post of
  another version.  `ci_check.py:169` names a check against removals that does not exist.
- An id that could not be saved while its proposal was the newest of the topic is never saved: later
  ones hide it, and the version is not announced (`Overtaken`).
- The first version of the last release in the index has no predecessor; the iteration
  raises each time it gets there (`IndexError`, `IsLast`).  The watchdog then never hears of a
  completed iteration.
- While the newest proposal un-elects versions and elects none, `replica_version_proposals` raises
  and no id is saved (`Unreadable`).
- `release-controller/README.md:13` says that the proposal is placed once the notes are merged; the
  exemption `GivenUp` is where the code does not keep this.  Nothing in the process repairs it.

Not modelled: the texts of notes and posts, Slack, the end of the period in which a post can be
edited, more than a thousand proposals, the state directory being lost.

## 6. Beside multiservice discovery: syncs, updaters, downloaders, log fetchers

`discovery.cfg` checks four programs (`Discovery`, with the instance `MCDiscovery`).

**`RegistrySync`** is `sync_local_registry` and the loop around it.  `sync.pc` walks
through reading the store (`Start` with `LatestStored`, the highest version without a gap before it), asking an NNS node
(`Query`: `CaughtUp`, `NotCaughtUp` or `Changes`), building the change log (`Grouped`, `Collected`) and writing all files at the
end, in any order (`Writing`).  A write is an `OpenFile` and a `WriteFile`, so a kill leaves an empty
file (`torn`); failed writes are dropped as in the code (`sync.lost`).  `StoreIsRegistry`
says that every file holds exactly the records of its version - an answer that starts in the middle
of a version, or one that has several, must not be cut wrongly - and that nothing
up to the version reached is missing but what failed.  `UpToDate` says that the store gets
there: a gap is found by the next call.

**`ConfigUpdaters`** is the process behind `prometheus-config-updater` and
`node-status-updater`: `poll` (the poll loop over the folders of registries), `memory` (the registries
it has loaded), one `updater` per group of jobs with the memory of its builder (`cache`), the target
files, and `main`.  Both channels are rendezvous channels, modelled as steps of both
ends: `Notify` (an update message, which any updater may take), `StopUpdater`, `StopPoll`.
`MemoIsWritten`: what suppresses the next write is in the file, but for writes that failed.
`ShutdownCompletes`: the stop messages suffice and everything joins.

**`Downloader`** is the loop of `multiservice-discovery-downloader` (`Pages = 0`: no names are asked for) and of
`sns-downloader` (`Pages` full pages of names from page 0 on, and then the last one).  `hash` is the hash of the
last answer.  `serving` says whether the service of the names answers: while it does not, `NextPage` asks for the same
page again and again, without a look at the stop signal (`sns-downloader/src/downloader_loop.rs:41-73`).
`HashStandsForFiles` is its part of `MemoIsWritten`; `ShutdownCompletes` speaks of behaviours in which that
service answers again and again.

**`LogFetchers`** has the export format of the journal byte by byte where it matters: a message with a
newline is written with its length in eight bytes, one of which may itself look like a newline or
`=`.  A value that is not UTF-8 is written with its length, too.  `Parsed` is the state machine of `journald_parser.rs`, and
`Lossy` is what its `String::from_utf8_lossy` makes of bytes: it replaces each maximal part of a character that
is not UTF-8, byte by byte as Unicode says (`Decode`).  `PrintsTheLog` compares
what was printed with what the journal shows after that replacement (`Shown`); for `canister-log-fetcher` it says that a life prints no
numbered entry twice and keeps the order.

| property of `discovery` | parts |
|---|---|
| `TypeOK` | the type invariant of each program |
| `MemoIsWritten` | `ConfigUpdaters.MemoIsWritten`, `Downloader.HashStandsForFiles` |
| `StoreIsRegistry` | `RegistrySync.StoreIsRegistry`, `NothingSkipped` |
| `PrintsTheLog` | `PrintsTheJournal`, `CanisterEntriesOnce` |
| `FilesCatchUp` | `UpToDate` of updaters, sync and downloader, in the end and for ever |
| `ShutdownCompletes` | updaters and downloader |

Bounds: two Internet Computers, one of which appears late (a folder that is not there yet), two
updaters with one job each (the least for a message to be taken by the wrong one); three
registry versions (an answer that starts, cuts and ends one), two failures, one kill; three
answers of which two agree for one job (the case that a memory per answer and one
per file tell apart); one full page of names and a last one, of which any may meet a service that is down; three log
entries with an empty message, one with a newline and `=`, one whose length is the code of a newline, one
with a character of two bytes, and one with characters that are cut, out of range or without a
beginning.  `LossyIsRight` compares `Lossy` with examples of the Unicode standard.

Fairness: threads are scheduled and queries end; a select whose arms are both ready
takes each at last (`SF` for `Notify`, `StopPoll`, `StopUpdater`, `Stop`).  Failures are bounded;
changes of the registries end.

### Proofs

`DiscoveryProofs` proves for all values of the constants `MemosAreWritten`, `StoresHoldRegistry`,
`LogsArePrinted` and `DiscoveryTypes`: the four invariants of the run.  Their assumptions stand in
`Discovery` and `RegistrySync`: no job belongs to two updaters (`DisjointJobs`; each vector of jobs in
`main.rs` is of its own), every version of the registry has a record (`NoEmptyVersion`), messages are bytes
(`TextsAreBytes`; any bytes, UTF-8 or not), an answer of the journal has at least one entry, and for the types the bounds are numbers and
the contents are contents (`RegistriesKnown`, `BoundsAreNumbers`, `LogNumbers`, `Pages`).

*Updaters and downloaders.*  `MemoKept` strengthens the property only by saying that a thread that writes writes
a job of its own (`ShapeInv`): a write then settles its job and disturbs none of another thread.
`HashStands` needs no assumption.  Its invariant says while a pass is written what holds only of
the jobs that are done (`WrittenInv`), and that the answer being written is the one of the hash.

*The local store.*  `ChangelogIsRegistry` is about the data: a loop groups the records of an answer by
their versions, and it makes one entry for every version up to the one the answer reaches, with exactly the records of
that version, wherever the answer begins and however many records a version has.  Its loop invariant is `IsGrouping`.
`StoreHoldsRegistry` and `NoVersionSkipped` rest on `SyncIndInv`: what is collected is what the registry has
(`CollectedInv`), a file that is open or torn belongs to a write under way or cut off, and the versions that were
reached are in the store, collected or lost.

*The logs.*  `JournalPrinted` says that the parser inverts the export format but for what is not UTF-8.  `Reads` says which state of the
parser a piece of text leads to; lemmas for one byte (`FirstByte` to `DataNewline`), for a line with and without a
newline in its value (`TextLine`, `DataLine`), for an entry (`ExportedIsRead`) and for a whole answer
(`ExportIsRead`) build on each other, and `PrintedIs` is the loop that prints.  The length of a message is the only
place where bytes mean a number (`SizeIs`).  `JournalInv` then says that what a life has printed is the
journal between its first cursor and the present one.  `EntriesOnce` rests on `LogInOrder` (times never fall,
counters rise) and on what an answer from a time on holds (`AnswerIsRising`, `UnseenIsNew`).

A recursive function is defined by CHOOSE, so that it exists is a theorem of its own
(`Recursion`, `RecursionUpTo`), and induction is stated as a set of numbers that contains 0 and the
successor of each of its members (`Induction`, `InductionUpTo`): the library's forms take an operator.
Only model-checked: `FilesCatchUp` and `ShutdownCompletes`.

## 7. Services: notifications, the backend's view, the dashboard file

`services.cfg` checks four services (`Services`, with the instance `MCServices`).

**`NodeNotifications`**: `health`, `sender` and `syncer` are tasks of one tokio runtime; a step is what
a task does between two awaits.  The health loop fetches the dashboard (`FetchHealth`),
compares it with `statuses` (`Updated`), queues the changes and stores the new statuses
(`Notify`, one step as in the code, which does not await in between).  `Receive`, `Send` and `RouteFails` are
the sender; a webhook of a provider without a name panics, a failing one ends the loop.
`BreakAll` and `HealthEnds` cancel the token.  `ChangesFollow` (the queued changes of a node
form one story that ends at the status that is compared next), `Told` and `AllEnded`.

**`ProposalNotifier`**: the tasks for new (`PollNew`, `SendNew`, `CreateNew`, `SaveNew`) and failed proposals.
The checkpoint is an id for the first and a time for the second (`LastFailure`).  Saving creates the file
where there is none (`CreateNew`, `CreateFailed`) and then writes it, or fails at either (`main.rs:90-98`).  A process that
dies while the file is empty (`Torn`) leaves it so, and the task panics at every later start (`Resumed`;
`main.rs:73`, `:160`, `:232`).  `Starts`, `Chunk` and `Groups` are
`MessageGroups::try_from`.  `ToldOncePerLife`: a proposal is told at most once more
than the process was restarted.  `NewTold`, `FailuresTold`: each is told, or was in a message that
Slack refused, or shares its second with another failure; a task that an empty file stops is exempt.

**`RegistryView`**: `view` maps each part of `RegistryState` to the registry version that it was
read from; `Refreshed` is the order in which `update_node_details` and its callees assign them, and
what a failure half way leaves (the version is assigned last).  `poll` is the position
in `poll`, `writer` the waiting write lock, `served[r]` a request with its guards.
The middleware (`Enter`, `AskLatest`, `Check`) compares the view's version with the latest and answers 503
(`Unavailable`) or lets the handler read (`HandlerRead`, `ReadAgain`).  `AnswersAreTrue`: what is
answered with 200 is true of the version that was the latest when the middleware asked.
`AllAnswered` and `UpToDate` hold but for the deadlock `Stuck` (section 9) and a dead poll.

**`DashboardCache`**: the file, its age, and the users of it.  `FileHeals`: a torn file is repaired
after an interval.

| property of `services` | parts |
|---|---|
| `TypeOK` | the type invariant of each service |
| `ToldInOrder` | `ChangesFollow`, `ToldOncePerLife` |
| `AnswersAreTrue` | `RegistryView.AnswersAreTrue` |
| `EveryoneIsTold` | `Told` and `AllEnded` of the node notifications, `Told` of the proposal notifier |
| `EveryoneIsServed` | `UpToDate` and `AllAnswered` of the view |
| `FileHeals` | `DashboardCache.FileHeals` |

Bounds: two nodes of two providers, one of them named, with two routes for one of them; two changes
make a story, one failure ends or kills a loop.  Three proposals, two of which share a message and one is
muted, three times of the clock (equal and different seconds, and a proposal made after others were sent and
saved), one lost message or failed write, one crash: between creating and writing a file, among
other places.  Two requests of different kinds
and one registry change of each kind meet the poll at every position.  Two users of the file
and two faults.

Fairness: every task of a runtime is scheduled and calls return; the clock ticks.

### Proofs

`ServicesProofs` proves `NotificationsInOrder`, `ServerAnswersAreTrue` and `ServicesTypes`: the three
invariants of the run, for any nodes, proposals, groups, releases, requests and failures.  The first assumes that
the nodes are finitely many (`NodesAreFinite`) and that the bounds are numbers (`ProposalBounds`), the second
nothing; the types assume besides that proposals name nodes and releases (`ProposalsKnown`) and that a torn
or missing file has no age (`CacheBounds`).

*Notifications.*  `StoriesAreTold`: the messages about a node on the channel lead from what was told last to what is compared
next, each from where the one before it ended (`Story`).  The invariant is that statement and the types; the work
is in the steps.  A round of the health loop queues the changes in any order of the nodes, but one for a node
(`FoundIs`, `RoundIsOneStep`), so it prolongs each story by one message (`StoryGoesOn`) or leaves it (`StoryStays`), and
the sender takes the first one (`StoryIsTold`).  Cancelled and panicking loops stop stories, they do not break them.

*Proposals.*  `OncePerLife`: the invariant counts with the crashes what Slack was told of a proposal that this life has not
yet come to (`NewCount`, `FailedCount`).  What is ahead of a task is what its checkpoint has not passed or what waits in its
messages (`NewAhead`, `FailedAhead`), and a proposal is in one message only (`Apart`).  That rests on the data: the
proposals in the order of ids or times name none twice (`OrderedOnce`, `ByTimeOnce`), and cutting such
a list wherever the group changes gives parts that do not meet (`ChunksApart`, `GroupsAre`).

*The view.*  `AnswersTrue`.  A view may be a mixture of versions; the argument why
an answer never is one is the inductive invariant.  No part of the view is older than its
version, because the version is assigned last, and none is newer than the local store
(`StoreInv`, `PollInv`); so a version that equals the registry's latest is the version of every part.
A poll that dies half way leaves a part that is older, but then the registry is ahead of the view for
ever (`PollInv`) and every request is refused.  From before it asks until it answers a request holds
a guard (`RequestOk`), so the view cannot change in between, and the registry only grows, so the
answer stays true of that version (`AnswerOk`).

Only model-checked: `EveryoneIsTold`, `EveryoneIsServed` and `FileHeals`.

## 8. Plans: subnets, schedules, HostOS groups, the tool

`planning.cfg` checks four parts (`Planning`, with the instance `MCPlanning`).

**`SubnetChange`**: `Score` is a table of `NakamotoScore::new_from_nodes` over sets of nodes, `CompareScores` its
`partial_cmp`, `Penalty` the business rules of `check_business_rules`.  A request (`Replace`, `Resize`, `CreateSubnet`,
`Rescue`, `Heal`) sets up `change`; `AddNode` and `RemoveNode` take one step of the greedy search each
(`Best` is the set of candidates that none beats, an open choice among ties), and `Finish`, `Fail`, `Answered` or `HealNext` end
it.  `CoefficientIsLeastCoalition` compares the greedy count with its definition, the least
coalition that holds more than a third; the other conjuncts of `ChangesAreSound` speak of whole requests.

**`ReleaseSchedule`**: `Schedule` is `RolloutState::schedule` over days as numbers (day 0 is a
Monday): `RolloutDays`, `Overheads`, `Limits` and the loop that hands out stages (`Sizes`),
the calendar days of the stages (`StagesOf`), the NNS (`NnsDay`).  `Stages` and `State` are
`stages_from_proposals`.  An operator submits what is due; votes, upgrades, hours and days go on.
`Week` is the ISO number of the week of a day, which starts again at 1 after `WeeksInYear`: the day that closes the
rollout is the first day to come in a week with a larger number (`release.rs:136`), and a rollout that starts in the last
week of a year has none.  `EverySubnetOnce`, `NnsComesLast`, `CompleteIsComplete`, `InTime`; the last one
exempts those rollouts (`AtTurnOfYear`).

**`HostosRollout`**: `run` is one run of the command with what it has read; `Selected` is
`HostosRollout::execute` down to the nodes, `NothingFound` where it ends without a proposal: a group is empty, or
the filters leave no candidate.  A share of the candidates that rounds to none is proposed, with no
nodes.  `ToRemove` is `/nodes/remove`.  One operator rolls out at a time; two who run the command at once can
propose a node twice.  `NodeProposedOnce`,
`SubnetShareIsKept`, and `GroupCatchesUp` under a fairness that says that the operator repeats
each command, votes are executed and nodes recover.

**`DreTool`**: `tasks[o]` is what the command of operator `o` has to propose yet, each task at its
own position (check, download, test, simulate, confirm), because `network_heal` runs them
together.  `Batched` is the loop of `reverse_sorted_and_batched`, with the modification it
drops.  `OwnChangesDontPile`, `ElectedImagesAgree`, `FirewallEditIsProposed`.

| property of `planning` | parts |
|---|---|
| `TypeOK` | the type invariant of each part |
| `ChangesAreSound` | `CoefficientIsLeastCoalition`, `SizeIsKept`, `HealGivesNodeOnce`, `HealRespectsLimit`, `SwapNeverWorse` |
| `ScheduleIsSound` | `EverySubnetOnce`, `NnsComesLast`, `CompleteIsComplete`, `InTime` |
| `GroupsAreSound` | `NodeProposedOnce`, `SubnetShareIsKept` |
| `ProposalsAreSound` | `OwnChangesDontPile`, `ElectedImagesAgree`, `FirewallEditIsProposed` |
| `GroupCatchesUp` | the groups only |

Bounds: two subnets of four and three nodes with three spare ones, features that make ties
and violate rules, requests for up to two nodes, filters that name spare and used nodes, reports
that leave heal too few spare nodes.  Seven subnets are more than two stages a day.  Day 0 is the Monday of week 52, the last of its
year; a rollout starts there or on a Monday, Wednesday, Friday or Saturday of two weeks later, with days
of both weeks excluded, and is followed to the end of the week after.  Two nodes in a subnet and a spare one, requests for a
number, for a share, and for a share that rounds to none, two open proposals, one failure.  Two operators, of whom
one skips the simulation, two commands, two subnets, two images, edits that add,
remove, update and mix.

### Proofs

`PlanningProofs` proves `SubnetChangesAreSound`, `RolloutGroupsAreSound` and `ProposedIsSound`: `ChangesAreSound`,
`GroupsAreSound` and `ProposalsAreSound` of the run.  `ScheduleProofs` proves three of the four parts of
`ScheduleIsSound` and the types of all four programs (`PlanningTypes`).  Their assumptions stand in `Planning`.

*HostOS groups.*  `GroupsStaySound` holds for any nodes, subnets, requests and
bounds, with votes, failures and moves of nodes at any point between the reads of a run.  It assumes
of the constants that a node is in one of the subnets or in none (`HomesKnown`) and that a percentage
is a number (`RequestsKnown`).

`NodeProposedOnce` rests on `QueryInv` and `ProposeInv`: from the moment the proposals were read until the
run submits, open HostOS proposals only go away, so what was free of them is free still.
`SubnetShareIsKept` compares a share of the subnet as the run saw it with its size at the start.  A node in a
subnet never leaves it (`NetworkInv`; the registry refuses to remove it), and those that came later were spare
ones, at most as many as there were proposals to add one (`Touched`); so the subnet was seen no larger
than its own nodes and the failures together (`SeenInSubnet`).  `FirstFew` says that the first `k`
nodes of a set are at most `k`, `Share` and `ShareGrows` are the arithmetic of a part rounded down.
`FirstOf` counts the positions before a node instead of cutting a filtered list, because the
prover cannot reason about `SelectSeq`.

*The tool.*  `ProposalsStaySound` has the three parts of `ProposalsAreSound`, for any operators, subnets, versions and
commands.  `ChangesDontPile` (`OwnChangesDontPile`) needs more than the check of a task: `network_heal` runs the tasks of
a command together, and two of them for one subnet would both pass before either submits.  `ChangesInv`
therefore says that no two tasks of an operator are for one subnet (`OneTask`) and that a subnet whose task has
passed its check stays without a proposal of that operator (`Checked`).  The operators need no order among them:
what another one submits is not this one's.  `ElectedAgree` (`ElectedImagesAgree`) assumes
that the images are on two servers (`TwoServers`; `ic_admin.rs` has two URLs).  `ImagesInv` says that what a task has found
is still there (`Downloads`; uploads replace nothing, `ImagesStay`) and that from the comparison on the one
hash it found is on every server it names (`Agreed`).
`EditsAreProposed` (`FirewallEditIsProposed`) assumes that the rules are a list and that an edit has finitely many
positions (`EditsKnown`).  The modifications are sorted from the last position on and cut into batches of one kind; with
one kind only, there is one batch and it has them all (`BatchedIs`).  `Increasing` and `AscendingIs` say what sorted positions are.
Applying the batch gives the edited list for each kind (`OneKindLeads`): updates stay where they are, removals
leave the kept rules in their order, and the additions prolong the list if they follow it (`InsertedIs`,
`ListExtended`).  `FirewallInv` says of every task and every open proposal that what it proposes was made from what
it has read (`RuleTask`, `Proposable`).

*Subnets.*  `ChangesStaySound` has the five parts of `ChangesAreSound`, for any nodes, subnets, features, filters and
reports.  It assumes `TopologiesKnown`: nodes and subnets are finitely many, the numbers are numbers, and a
node that is available is in no subnet (`registry.rs:851`).  The greedy search enters through one lemma, `BestIsOption`: what it
chooses is one of the options; so the theorems hold whatever the penalties and scores are.
`SizesAreKept` and `HealsAreKept` rest on `SizesInv`.  Of the change under way (`Underway`) it says that its nodes, the
nodes to choose from and the old nodes do not meet where they must not, that nodes and additions
due balance old nodes and removals due, that replaced nodes are gone, and of a heal request how many nodes are
taken or still to be taken and that what is added is spare (`LimitKept`).  `Starts` is what each request has to establish;
`Requested`, `Excluding`, `Including`, `AskingFor` and `Without` say what the builders of a request do.  `SwapsAreNotWorse` adds
`SwapInv` - a swap has its old nodes, its old nodes and one more, or a result that is no worse - and
`BestIsNotWorse`.  Penalties and scores are compared as numbers, so it also needs that they are
(`TotalIsNumber`, `PenaltyIsNumber`); this assumes that the features are a list which has those the penalties speak of
(`FeaturesKnown`).  `CoefficientsStand` (`CoefficientIsLeastCoalition`) is about the greedy count: taking the largest actors
first, one after the other, reaches the limit with the least number of actors (`Joining`, `JoinOne`), since no other set
of as many actors holds more nodes.

`Largest`, `Coalition`, `Total`, `Ascending`, `Batched` and `Inserted` are choices of a set or recursive functions, and
not folds over an operator, so that these proofs can be made.

*The schedule.*  `EverySubnetIsShownOnce`, `NnsStaysLast` and `CompleteStaysTrue` have `EverySubnetOnce`, `NnsComesLast` and
`CompleteIsComplete` for any subnets, excluded days, maximal size of a stage, first days and weeks of the year, whatever is
executed or rejected in between.  They assume that the subnets are a list that names none twice, that the NNS is one of them, and that
the numbers are numbers (`ScheduleKnown`).  `ScheduleInv` says that proposals are on days of the rollout
(`OnDaysOfTheRollout`), that a subnet has one (`OnePerSubnet`), that all but those of the last stage are
done (`OthersDone`) and that the NNS comes when nothing else is left (`NnsEndsIt`).
`PlanningTypes` adds the types of the other parts (`BoundsKnown`, and the assumptions above).

Only model-checked: `InTime` and `GroupCatchesUp`.

## 9. Known deviations

Two findings have a run that shows them: `supervisor_shutdown` and `rollout_failed`.  The
following properties are stated in their modules and known to fail, or hold only for an instance; to see
it, add the property to the cfg named (for a module that is instantiated, such as
`ReleaseSchedule`, after a definition in the MC module: `ScheduleIsThere == part = "schedule" =>
Schedules!ScheduleIsThere`).

| property | where | what happens |
|---|---|---|
| `RewriteIsExact` | `supervisor_crash.cfg` | the state file is not truncated: a shorter list leaves the tail of the longer one and does not parse (`definition.rs:535`) |
| `PlacedOnlyIfNeeded` | `rollout_stages.cfg` | an upgrade that is executed between the registry snapshot and the listing is proposed again (`calculation/mod.rs:116`) |
| `BakedBeforeNextStage` | `rollout_live.cfg` with `ReplicasLag = TRUE` | until the replicas restart the bake query answers with the upgrade before (`calculation/mod.rs:71`); `NothingBeforeTheBake` shows that only a lag at that query does this |
| `ScheduleIsThere` | `planning.cfg` | on a week end with nothing left before it, and after two weeks, the view panics (`release.rs:369`) |
| `OnlyIsRespected` | `planning.cfg` | the nodes of `--only` become the nodes to include and the next call overwrites them (`endpoints/subnet.rs:93`, `cli.rs:235`) |
| `ReadAnswersAreFresh` | `services.cfg` | an answer read from the file is written back and the file is young again (`public_dashboard.rs:40`, `CHANGELOG.md:29`) |
| `ShutdownCompletes` with `MainKeepsRecv = TRUE` | `discovery.cfg` | `node-status-updater` keeps the receiving end in `main` (`main.rs:80`), so the poll loop's send blocks for ever once the updater has stopped |
| `ShutdownCompletes` of `Downloader` without `[]<>serving` | `discovery.cfg` | a page of names that fails is asked for again for ever, without a look at the stop signal (`sns-downloader/src/downloader_loop.rs:41-73`) |
| `ListedIsAnnounced` without `GivenUp`, `Overtaken`, `IsLast` | `reconciler_live.cfg` | a version that was marked and not proposed is given up (`reconciler.py:202`); an id is saved only while its proposal is the newest (`governance.py:65`); the last release of the index raises |
| `NewTold`, `FailuresTold` without `dead` | `services.cfg` | an empty checkpoint stops a task at this and every later start (`slack-notifications/src/main.rs:73`, `:160`, `:232`) |
| `InTime` without `AtTurnOfYear` | `planning.cfg` | the number of the week starts again at 1 (`release.rs:136`): a rollout of the last week of a year runs on for two weeks, and the NNS can be shown on a day that is over |
| `RequestsAnswered` of `RegistryView` without `Stuck` | `services.cfg` | the handler asks for a second read guard behind the poll that waits to write (`endpoints/mod.rs:57`, `registry.rs:1063`) |

Worth knowing besides:

- `Runner::registry` takes `Arc::get_mut` of a clone, which is never the only one, and unwraps: the commands of the
  tool that call it panic at the first call (`runner.rs:92`).  `HostosRollout` and `DreTool` model them as if it returned.
- An interrupted download of ic-admin leaves a file that every later run takes for the program (`binary = "partial"` in `DreTool`).
- A firewall edit with several kinds of changes drops the modification that ends a batch, and one that changes the
  kind at once panics on the empty batch (`Batched`, `ic_admin.rs:110`).
- `decentralization_change` subtracts the added nodes, not the removed ones (`runner.rs:559`).
- The last comparison of `NakamotoScore::partial_cmp` is the reverse of its comment (`nakamoto/mod.rs:385`); `CompareScores`
  is the code.
- `heal` fails for all subnets when one of them has too few spare nodes, and does not pass the minimum coefficients.
- A percentage of a small group rounds to no node at all, and is proposed with an empty list of nodes; a group that is empty
  fails the command for the other group (`hostos_rollout.rs:140`, `:302`, `:397`).
- The parser of `log-fetcher` panics on an answer that is not an export, as the status of an answer is not looked at.
- `log-fetcher` replaces what is not UTF-8 in names and values (`journald_parser.rs:141`, `:160`, `:174`, `:177`); such messages are
  printed changed.
- A failed write of a target file is not repeated before the targets change.

## 10. Not modelled

- `registry_dump.rs` reads the local store and prints it; `general.rs` has the vote loop, a filter over pages of proposals, and
  metrics of nodes: loops without a state of their own around calls of canisters.
- `detect_neuron.rs`, `parsed_cli.rs`, `cli.rs`: arguments, keys and hardware; no state that a later step depends on.
- The canister clients and types: data and conversions.  What the models use of them is in the
  actions that call them.
- `git_ic_repo.rs`, `health.rs`, `subnets.rs` but for the choice of nodes: lookups in other systems.
- `release_notes.py`, `slack_announce.py`, `ci_check.py`, the scripts and the Kubernetes jobs: texts, one message,
  or one pass from start to end over an external store.
- The dashboard and the node status canister: a user interface, and a map that one caller overwrites.
- `config_writer_loop.rs` and `file_sd.rs`: no program of the repository uses them.

## 11. Reading the modules

Definitions named after another one with a suffix that says what is wrong
(`ThreadsOfNone`, `WaitsForStart`, `MarkForgotten`, ...) are deviations of the code: with one of them in place of
the definition it stands for, the property listed for it in `PROJECT.json` fails.
They are not part of `Spec`.
