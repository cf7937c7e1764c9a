------------------------------- MODULE Discovery -------------------------------
(***************************************************************************)
(* The programs around service discovery: the discovery itself with the    *)
(* threads that write target files, the local store it reads, a downloader *)
(* and the log fetchers.  They run for ever and do not speak to each       *)
(* other: a behaviour is one of any of them (program), the others have     *)
(* exited.                                                                 *)
(***************************************************************************)
EXTENDS Naturals, Sequences, FiniteSets

CONSTANTS
    None, Torn,
    Ic, Node, Subnet, NoSubnet, FirstFolders, LastVersion, ContentOf, OldMachine, Updater,
    JobsOf, ReplicaJob, OldFree, MainKeepsRecv, MaxUpdaterFailures,
    MaxVersion, KeysIn, UseCurrentVersion, HaveKey, MaxSyncFailures, MaxStops,
    DownloadJob, Reply, NoTargets, TargetsOf, Pages, SkipEmpty, MaxChanges, MaxDownloadFailures, MaxRestarts,
    Messages, MaxEntries, Batch, MaxPrinted, MaxCrashes, MaxLogFailures

VARIABLES
    program,
    nns, folder, memory, poll, updater, cache, target, untold, writeFailures, main,
    registry, store, torn, sync, syncFailures, stops,
    known, serving, loop, hash, download, unwritten, owner, bound,
    fetcher, log, oldest, cursor, file, reader, from, out, crashes, failures

updatersVars  == <<nns, folder, memory, poll, updater, cache, target, untold, writeFailures, main>>
syncVars      == <<registry, store, torn, sync, syncFailures, stops>>
downloadVars  == <<known, serving, loop, hash, download, unwritten, owner, bound>>
logVars       == <<fetcher, log, oldest, cursor, file, reader, from, out, crashes, failures>>

-----------------------------------------------------------------------------
Updaters == INSTANCE ConfigUpdaters WITH
    MaxFailures <- MaxUpdaterFailures, Content <- ContentOf,
    registry <- nns, file <- target, unwritten <- untold, failures <- writeFailures

UpdatersExited ==
    /\ nns = LastVersion /\ folder = Ic /\ memory = nns
    /\ poll = [pc |-> "exited", toSync |-> {}, toSend |-> 0]
    /\ updater = [u \in Updater |-> [pc |-> "exited", todo |-> {}, job |-> None]]
    /\ cache = [j \in Updaters!Job |-> None] /\ target = cache /\ untold = {} /\ writeFailures = 0
    /\ main = [pc |-> "exited", toStop |-> 0]

Sync == INSTANCE RegistrySync WITH MaxFailures <- MaxSyncFailures, failures <- syncFailures

SyncExited ==
    /\ registry = MaxVersion /\ store = <<>> /\ torn = {} /\ syncFailures = 0 /\ stops = MaxStops
    /\ sync = [Sync!Idle("none") EXCEPT !.pc = "exited"]

Download == INSTANCE Downloader WITH
    Job <- DownloadJob, Answer <- Reply, MaxFailures <- MaxDownloadFailures, file <- download, main <- owner

DownloadExited ==
    /\ known = NoTargets /\ serving = TRUE /\ loop = [Download!Waiting EXCEPT !.pc = "exited"] /\ hash = None
    /\ download = [j \in DownloadJob |-> None] /\ unwritten = {} /\ owner = "exited"
    /\ bound = [changes |-> MaxChanges, failures |-> 0, restarts |-> MaxRestarts]

Logs == INSTANCE LogFetchers WITH MaxFailures <- MaxLogFailures, program <- reader

LogsExited ==
    /\ fetcher = "journal" /\ log = <<>> /\ oldest = 1 /\ cursor = 0 /\ file = 0 /\ reader = "down"
    /\ from = 0 /\ out = <<>> /\ crashes = MaxCrashes /\ failures = MaxLogFailures

-----------------------------------------------------------------------------
Init ==
    /\ program \in {"updaters", "sync", "download", "logs"}
    /\ IF program = "updaters" THEN Updaters!Init ELSE UpdatersExited
    /\ IF program = "sync" THEN Sync!Init ELSE SyncExited
    /\ IF program = "download" THEN Download!Init ELSE DownloadExited
    /\ IF program = "logs" THEN Logs!Init ELSE LogsExited

Next ==
    /\ UNCHANGED program
    /\ \/ program = "updaters" /\ Updaters!Next /\ UNCHANGED <<syncVars, downloadVars, logVars>>
       \/ program = "sync" /\ Sync!Next /\ UNCHANGED <<updatersVars, downloadVars, logVars>>
       \/ program = "download" /\ Download!Next /\ UNCHANGED <<updatersVars, syncVars, logVars>>
       \/ program = "logs" /\ Logs!Next /\ UNCHANGED <<updatersVars, syncVars, downloadVars>>

Spec ==
    /\ Init /\ [][Next]_<<program, updatersVars, syncVars, downloadVars, logVars>>
    /\ Updaters!Fairness /\ Sync!Fairness /\ Download!Fairness

-----------------------------------------------------------------------------
(* What the theorems assume of the constants. *)

\* Every job is in one group (prometheus-config-updater main.rs:108, :131).
DisjointJobs == \A u, v \in Updater : u # v => JobsOf[u] \cap JobsOf[v] = {}

\* Registries have finitely many versions, and a version has a content.
RegistriesKnown ==
    /\ LastVersion \in [Ic -> Nat] /\ FirstFolders \subseteq Ic
    /\ \A ic \in Ic : \A v \in 0..LastVersion[ic] : ContentOf[ic][v] \in Updaters!ContentType
    /\ IsFiniteSet(Updater) /\ MaxUpdaterFailures \in Nat

BoundsAreNumbers == MaxSyncFailures \in Nat /\ MaxStops \in Nat

\* A message is bytes, and LogFetchers writes its length with two of the eight
\* bytes of the export format.
TextsAreBytes == Messages \in SUBSET {m \in Seq(0..255) : Len(m) < 65536}

LogNumbers == MaxEntries \in Nat /\ MaxCrashes \in Nat /\ MaxLogFailures \in Nat

-----------------------------------------------------------------------------
\* The type invariant of the program at hand.
TypeOK == /\ program = "updaters" => Updaters!TypeOK
          /\ program = "sync" => Sync!TypeOK
          /\ program = "download" => Download!TypeOK
          /\ program = "logs" => Logs!TypeOK

\* What a process remembers in order not to write again is what is in the files.
MemoIsWritten == /\ program = "updaters" => Updaters!MemoIsWritten
                 /\ program = "download" => Download!HashStandsForFiles

\* The files of the local store are the registry's versions, and none is skipped.
StoreIsRegistry == program = "sync" => Sync!StoreIsRegistry /\ Sync!NothingSkipped

\* Every line once, in order, as it was written but for what is not UTF-8.
PrintsTheLog == program = "logs" => Logs!PrintsTheJournal /\ Logs!CanisterEntriesOnce

\* Target files, downloaded files and the local store say in the end what their
\* source says, with the exceptions that each module names.
FilesCatchUp ==
    <>[](/\ program = "updaters" => Updaters!UpToDate
         /\ program = "sync" => Sync!UpToDate
         /\ program = "download" => Download!UpToDate)

\* A stop message that main sends is taken, and the process ends: unless the service
\* of the names is down for good, while a downloader does not look at the message.
ShutdownCompletes ==
    []<>serving =>
      ((program = "updaters" /\ main.pc = "stopping") \/ (program = "download" /\ owner = "stopping")
         ~> IF program = "updaters" THEN main.pc = "exited" ELSE owner # "stopping")
=============================================================================
