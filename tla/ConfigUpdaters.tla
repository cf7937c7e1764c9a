----------------------------- MODULE ConfigUpdaters -----------------------------
(***************************************************************************)
(* A service discovery process: the poll loop that keeps the registries in *)
(* memory up to date, the updater threads that turn them into one target   *)
(* file per job, the two rendezvous channels between them, and the         *)
(* shutdown (service-discovery/src/poll_loop.rs and lib.rs,                *)
(* config-writer-common/src/, prometheus-config-updater/src/main.rs,       *)
(* node-status-updater/src/main.rs).                                       *)
(*                                                                         *)
(* Abstractions.  An Internet Computer is the series of contents that its  *)
(* registry goes through; a node is its record, its subnet and whether its *)
(* machine is of the old kind; addresses and labels follow from the node.  *)
(***************************************************************************)
EXTENDS Naturals, FiniteSets

CONSTANTS
    Ic,             \* the Internet Computers under the targets directory
    Node, Subnet,
    NoSubnet,       \* a node that is in no subnet
    FirstFolders,   \* the folders that main() finds
    LastVersion,    \* [Ic -> bound on the versions of its registry]
    Content,        \* [Ic -> [0..LastVersion -> content of the registry]]
    OldMachine,     \* nodes on machines that only some jobs leave out
    Updater,        \* the updater threads
    JobsOf,         \* [Updater -> set of jobs]; no job belongs to two updaters
    ReplicaJob,     \* the job for nodes in a subnet only
    OldFree,        \* jobs whose filters drop old machines
    MainKeepsRecv,  \* whether main keeps a receiver of the update channel
    MaxFailures,    \* bound on failed syncs and writes
    None            \* not there yet

Job == UNION {JobsOf[u] : u \in Updater}

(* Content of a registry: the subnet of every node that has one, and what   *)
(* its record says: an address, the bogus address 0.0.0.0, or no record.    *)
ContentType == [subnetOf : [Node -> Subnet \cup {NoSubnet}],
                record   : [Node -> {"address", "zeroes", "missing"}]]

VARIABLES
    registry,   \* [Ic -> newest version in the NNS]
    folder,     \* Internet Computers with a local store that can be opened
    memory,     \* [Ic -> version of the LocalRegistry in memory, or None]
    poll,       \* the poll loop
    updater,    \* [Updater -> state of the thread]
    cache,      \* [Job -> the last configuration built, or None]
    file,       \* [Job -> the configuration in the target file, or None]
    unwritten,  \* jobs whose last configuration could not be written
    failures,   \* failed syncs and writes so far
    main        \* progress of main() and the stop messages it still sends

vars == <<registry, folder, memory, poll, updater, cache, file, unwritten, failures, main>>

threadVars == <<poll, updater, main>>
dataVars   == <<registry, folder, memory, cache, file, unwritten, failures>>

-----------------------------------------------------------------------------
(* From registries to targets: get_targets, get_target_groups, the filters. *)

Members(c, s) == {n \in Node : c.subnetOf[n] = s}

\* A subnet with an unreadable member is skipped; its nodes stay unassigned.
Readable(c, s) == \A n \in Members(c, s) : c.record[n] # "missing"

TargetOf(ic, c, n) ==
    [ic |-> ic, node |-> n,
     subnet |-> IF c.subnetOf[n] # NoSubnet /\ Readable(c, c.subnetOf[n])
                THEN c.subnetOf[n] ELSE NoSubnet]

\* One bogus address fails the whole registry.
Bogus(c) == \E n \in Node : c.record[n] = "zeroes"

GetTargets(ic, c) == {TargetOf(ic, c, n) : n \in {m \in Node : c.record[m] # "missing"}}

\* What the loaded registries say: versions maps every loaded one to its version.
Loaded(versions) == {ic \in Ic : versions[ic] # None}

TargetsFail(versions) == \E ic \in Loaded(versions) : Bogus(Content[ic][versions[ic]])

AllTargets(versions) ==
    UNION {GetTargets(ic, Content[ic][versions[ic]]) : ic \in Loaded(versions)}

GetTargetGroups(versions, job) ==
    {t \in AllTargets(versions) : job # ReplicaJob \/ t.subnet # NoSubnet}

\* The configuration the builder makes of what the filters accept.
ConfigOf(versions, job) ==
    {t \in GetTargetGroups(versions, job) : job \notin OldFree \/ t.node \notin OldMachine}

-----------------------------------------------------------------------------
(* State. *)

PollState    == [pc : {"loading", "syncing", "notifying", "waiting", "exited"},
                 toSync : SUBSET Ic, toSend : Nat]
UpdaterState == [pc : {"updating", "writing", "waiting", "exited"},
                 todo : SUBSET Job, job : Job \cup {None}]
MainState    == [pc : {"running", "stopping", "joining", "exited"}, toStop : Nat]

Target == [ic : Ic, node : Node, subnet : Subnet \cup {NoSubnet}]
Config == SUBSET Target

\* The type invariant.
TypeOK == /\ \A ic \in Ic : registry[ic] \in 0..LastVersion[ic]
          /\ folder \subseteq Ic
          /\ \A ic \in Ic : memory[ic] = None \/ memory[ic] \in 0..registry[ic]
          /\ poll \in PollState
          /\ updater \in [Updater -> UpdaterState]
          /\ \A j \in Job : cache[j] = None \/ cache[j] \in Config
          /\ \A j \in Job : file[j] = None \/ file[j] \in Config
          /\ unwritten \subseteq Job
          /\ failures \in 0..MaxFailures
          /\ main \in MainState

Pass(u) == [pc |-> "updating", todo |-> JobsOf[u], job |-> None]

\* main has synced the first registry and has made the discovery: load_new_ics
\* has run once and all threads start.
Init == /\ registry = [ic \in Ic |-> 0]
        /\ folder = FirstFolders
        /\ memory = [ic \in Ic |-> IF ic \in folder THEN 0 ELSE None]
        /\ poll = [pc |-> "loading", toSync |-> {}, toSend |-> 0]
        /\ updater = [u \in Updater |-> Pass(u)]
        /\ cache = [j \in Job |-> None]
        /\ file = [j \in Job |-> None]
        /\ unwritten = {}
        /\ failures = 0
        /\ main = [pc |-> "running", toStop |-> 0]

-----------------------------------------------------------------------------
(* The registries and the folders change. *)

RegistryChanges(ic) ==
    /\ registry[ic] < LastVersion[ic]
    /\ registry' = [registry EXCEPT ![ic] = @ + 1]
    /\ UNCHANGED <<folder, memory, cache, file, unwritten, failures, threadVars>>

FolderAppears(ic) ==
    /\ folder' = folder \cup {ic}
    /\ ic \notin folder
    /\ UNCHANGED <<registry, memory, cache, file, unwritten, failures, threadVars>>

-----------------------------------------------------------------------------
(* make_poll_loop. *)

\* load_new_ics opens the folders that are not loaded yet.
LoadNewIcs ==
    /\ poll.pc = "loading"
    /\ memory' = [ic \in Ic |-> IF ic \in folder /\ memory[ic] = None THEN 0 ELSE memory[ic]]
    /\ poll' = [poll EXCEPT !.pc = "syncing", !.toSync = folder]
    /\ UNCHANGED <<registry, folder, cache, file, unwritten, failures, updater, main>>

\* update_registries: sync_with_nns of every loaded registry.  A failure is
\* collected and the others go on.
SyncWithNns(ic) ==
    /\ poll.pc = "syncing"
    /\ ic \in poll.toSync
    /\ poll' = [poll EXCEPT !.toSync = @ \ {ic}]
    /\ memory' = [memory EXCEPT ![ic] = registry[ic]]
    /\ UNCHANGED <<registry, folder, cache, file, unwritten, failures, updater, main>>

SyncFails(ic) ==
    /\ poll.pc = "syncing"
    /\ ic \in poll.toSync
    /\ failures < MaxFailures /\ failures' = failures + 1
    /\ poll' = [poll EXCEPT !.toSync = @ \ {ic}]
    /\ UNCHANGED <<registry, folder, memory, cache, file, unwritten, updater, main>>

\* The updaters get their signals whatever failed.
AllSynced ==
    /\ poll.pc = "syncing"
    /\ poll.toSync = {}
    /\ poll' = [poll EXCEPT !.pc = "notifying", !.toSend = Cardinality(Updater)]
    /\ UNCHANGED <<dataVars, updater, main>>

\* One message per updater; whoever waits takes it, so one updater may take two.
Notify(u) ==
    /\ poll.pc = "notifying"
    /\ poll.toSend > 0
    /\ updater[u].pc = "waiting"
    /\ poll' = [poll EXCEPT !.toSend = @ - 1]
    /\ updater' = [updater EXCEPT ![u] = Pass(u)]
    /\ UNCHANGED <<dataVars, main>>

\* send() fails only when every receiver is gone.
SendFails ==
    /\ poll.pc = "notifying"
    /\ poll.toSend > 0
    /\ ~MainKeepsRecv
    /\ \A u \in Updater : updater[u].pc = "exited"
    /\ poll' = [poll EXCEPT !.toSend = @ - 1]
    /\ UNCHANGED <<dataVars, updater, main>>

AllNotified ==
    /\ poll.pc = "notifying"
    /\ poll.toSend = 0
    /\ poll' = [poll EXCEPT !.pc = "waiting"]
    /\ UNCHANGED <<dataVars, updater, main>>

Tick ==
    /\ poll.pc = "waiting"
    /\ poll' = [poll EXCEPT !.pc = "loading"]
    /\ UNCHANGED <<dataVars, updater, main>>

-----------------------------------------------------------------------------
(* config_updater_loop, PrometheusConfigBuilder::build, ConfigWriter::update. *)

Turn(u, pc, job) == updater' = [updater EXCEPT ![u] = [pc |-> pc, todo |-> @.todo \ {job}, job |-> job]]

\* A job without targets is never written.
UpdatedUnlessEmpty(config, job) == cache[job] # config /\ config # {}

Updated(config, job) == cache[job] # config

\* A job whose targets cannot be had, or whose configuration is the last one
\* built, is left alone.
LeaveJob(u, job) ==
    /\ updater[u].pc = "updating"
    /\ job \in updater[u].todo
    /\ TargetsFail(memory) \/ ~Updated(ConfigOf(memory, job), job)
    /\ Turn(u, "updating", job)
    /\ UNCHANGED <<dataVars, poll, main>>

\* The builder remembers the configuration before it is written.
Build(u, job) ==
    /\ updater[u].pc = "updating"
    /\ job \in updater[u].todo
    /\ ~TargetsFail(memory) /\ Updated(ConfigOf(memory, job), job)
    /\ cache' = [cache EXCEPT ![job] = ConfigOf(memory, job)]
    /\ Turn(u, "writing", job)
    /\ UNCHANGED <<registry, folder, memory, file, unwritten, failures, poll, main>>

\* The targets are asked for again.
FreshToWrite(job) == ConfigOf(memory, job)

ToWrite(job) == cache[job]

\* write_atomically: the old file or the new one.
Write(u) ==
    /\ updater[u].pc = "writing"
    /\ LET job == updater[u].job IN
         /\ file' = [file EXCEPT ![job] = ToWrite(job)]
         /\ unwritten' = unwritten \ {job}
         /\ Turn(u, "updating", job)
    /\ UNCHANGED <<registry, folder, memory, cache, failures, poll, main>>

\* The loop only warns; what the builder remembers stays.
WriteFails(u) ==
    /\ updater[u].pc = "writing"
    /\ failures < MaxFailures
    /\ failures' = failures + 1
    /\ unwritten' = unwritten \cup {updater[u].job}
    /\ Turn(u, "updating", updater[u].job)
    /\ UNCHANGED <<registry, folder, memory, cache, file, poll, main>>

AllUpdated(u) ==
    /\ updater[u].pc = "updating"
    /\ updater[u].todo = {}
    /\ updater' = [updater EXCEPT ![u].pc = "waiting"]
    /\ UNCHANGED <<dataVars, poll, main>>

-----------------------------------------------------------------------------
(* The shutdown: one stop message for each thread over a rendezvous channel, *)
(* taken by a thread that waits in its select; then join.                    *)

\* The poll loop is forgotten.
StopMessagesShort == Cardinality(Updater)

StopMessages == 1 + Cardinality(Updater)

Shutdown ==
    /\ main.pc = "running"
    /\ main' = [pc |-> "stopping", toStop |-> StopMessages]
    /\ UNCHANGED <<dataVars, poll, updater>>

StopSent == main' = [main EXCEPT !.toStop = @ - 1]

StopPoll ==
    /\ main.toStop > 0
    /\ poll.pc = "waiting"
    /\ StopSent
    /\ poll' = [poll EXCEPT !.pc = "exited"]
    /\ UNCHANGED <<dataVars, updater>>

StopUpdater(u) ==
    /\ main.toStop > 0
    /\ updater[u].pc = "waiting"
    /\ StopSent
    /\ updater' = [updater EXCEPT ![u].pc = "exited"]
    /\ UNCHANGED <<dataVars, poll>>

AllStopped ==
    /\ main = [pc |-> "stopping", toStop |-> 0]
    /\ main' = [main EXCEPT !.pc = "joining"]
    /\ UNCHANGED <<dataVars, poll, updater>>

JoinAll ==
    /\ main.pc = "joining"
    /\ poll.pc = "exited" /\ \A u \in Updater : updater[u].pc = "exited"
    /\ main' = [main EXCEPT !.pc = "exited"]
    /\ UNCHANGED <<dataVars, poll, updater>>

-----------------------------------------------------------------------------
Environment == \E ic \in Ic : RegistryChanges(ic) \/ FolderAppears(ic)

PollStep == \/ LoadNewIcs \/ AllSynced \/ SendFails \/ AllNotified \/ Tick
            \/ \E ic \in Ic : SyncWithNns(ic) \/ SyncFails(ic)

UpdaterStep(u) == \/ Write(u) \/ WriteFails(u) \/ AllUpdated(u)
                  \/ \E job \in JobsOf[u] : LeaveJob(u, job) \/ Build(u, job)

MainStep == Shutdown \/ StopPoll \/ AllStopped \/ JoinAll \/ \E u \in Updater : StopUpdater(u)

Next == Environment \/ PollStep \/ MainStep \/ \E u \in Updater : UpdaterStep(u) \/ Notify(u)

Spec == Init /\ [][Next]_vars

(***************************************************************************)
(* Fairness.  Threads run and network calls end.  A thread that waits in a *)
(* select is served: crossbeam keeps the waiting threads in the order in   *)
(* which they came.  Shutdown is never promised.                           *)
(***************************************************************************)
Fairness ==
    /\ WF_vars(PollStep)
    /\ \A u \in Updater : WF_vars(UpdaterStep(u)) /\ SF_vars(Notify(u))
    /\ SF_vars(StopPoll) /\ \A u \in Updater : SF_vars(StopUpdater(u))
    /\ WF_vars(AllStopped) /\ WF_vars(JoinAll)

FairSpec == Spec /\ Fairness

-----------------------------------------------------------------------------
(* Properties. *)

\* What the builder remembers is what the file holds, unless the write failed
\* or is about to happen: the memory that suppresses writes never runs ahead
\* of the disk in silence (prometheus_config.rs:94, config_writer.rs:64).
MemoIsWritten ==
    \A u \in Updater : \A job \in JobsOf[u] :
      file[job] # cache[job] =>
        job \in unwritten \/ (updater[u].pc = "writing" /\ updater[u].job = job)

\* Once the registries rest, every file shows them, although either updater
\* may take the messages meant for both -- unless the process is told to stop,
\* a registry cannot be turned into targets or the last write of the file failed.
Current == [ic \in Ic |-> IF ic \in folder THEN registry[ic] ELSE None]

UpToDate ==
    \A job \in Job :
      \/ main.pc # "running" \/ TargetsFail(Current) \/ job \in unwritten
      \/ file[job] = ConfigOf(Current, job)

FilesCatchUp == <>[]UpToDate

\* A shutdown ends all threads and the process, wherever they are.
ShutdownCompletes == main.pc = "stopping" ~> main.pc = "exited"
=============================================================================
