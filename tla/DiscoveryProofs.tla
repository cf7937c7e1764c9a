----------------------------- MODULE DiscoveryProofs -----------------------------
(***************************************************************************)
(* Theorems about the programs around service discovery, for any           *)
(* registries, jobs, answers, log texts and bounds.                        *)
(***************************************************************************)
EXTENDS Discovery, LeastAndGreatest, SequenceTheorems


\* The maps speak of every job, the threads of their own jobs only.
ShapeInv ==
    /\ DOMAIN target = Updaters!Job /\ DOMAIN cache = Updaters!Job
    /\ updater \in [Updater -> Updaters!UpdaterState]
    /\ \A u \in Updater : /\ updater[u].todo \subseteq JobsOf[u]
                          /\ updater[u].pc = "writing" => updater[u].job \in JobsOf[u]

UpdatersIndInv == ShapeInv /\ Updaters!MemoIsWritten

LEMMA UpdatersInitIndInv == Updaters!Init => UpdatersIndInv
<1>. SUFFICES ASSUME Updaters!Init PROVE UpdatersIndInv
  OBVIOUS
<1>1. \A u \in Updater : Updaters!Pass(u) \in Updaters!UpdaterState /\ JobsOf[u] \subseteq Updaters!Job
  BY DEF Updaters!Pass, Updaters!UpdaterState, Updaters!Job
<1>2. ShapeInv
  BY <1>1 DEF Updaters!Init, ShapeInv, Updaters!Pass
<1>3. Updaters!MemoIsWritten
  BY <1>1 DEF Updaters!Init, Updaters!MemoIsWritten
<1>. QED
  BY <1>2, <1>3 DEF UpdatersIndInv

\* Steps that touch neither the files nor what is remembered, and leave every
\* thread as it is, or take it from a state other than "writing".
LEMMA OthersKeepIndInv ==
    ASSUME UpdatersIndInv, UNCHANGED <<target, cache>>, untold' = untold,
           updater' \in [Updater -> Updaters!UpdaterState],
           \A u \in Updater : \/ updater'[u] = updater[u]
                              \/ /\ updater[u].pc # "writing" /\ updater'[u].pc # "writing"
                                 /\ updater'[u].todo \subseteq JobsOf[u]
    PROVE  UpdatersIndInv'
<1>1. ShapeInv'
  BY DEF UpdatersIndInv, ShapeInv, Updaters!UpdaterState
<1>2. Updaters!MemoIsWritten'
  BY DEF UpdatersIndInv, Updaters!MemoIsWritten
<1>. QED
  BY <1>1, <1>2 DEF UpdatersIndInv

\* The builder remembers what it hands to the write.
LEMMA BuildKeepsIndInv ==
    ASSUME DisjointJobs, UpdatersIndInv, NEW u \in Updater, NEW job \in JobsOf[u], Updaters!Build(u, job)
    PROVE  UpdatersIndInv'
<1>1. job \in Updaters!Job /\ updater[u] \in Updaters!UpdaterState
  BY DEF UpdatersIndInv, ShapeInv, Updaters!Job
<1>2. updater' = [updater EXCEPT ![u] = [pc |-> "writing", todo |-> updater[u].todo \ {job}, job |-> job]]
  BY DEF Updaters!Build, Updaters!Turn
<1>3. ShapeInv'
  <2>1. updater' \in [Updater -> Updaters!UpdaterState]
    BY <1>1, <1>2 DEF UpdatersIndInv, ShapeInv, Updaters!UpdaterState
  <2>2. DOMAIN target' = Updaters!Job /\ DOMAIN cache' = Updaters!Job
    BY DEF UpdatersIndInv, ShapeInv, Updaters!Build
  <2>. QED
    BY <1>1, <1>2, <2>1, <2>2 DEF UpdatersIndInv, ShapeInv
<1>4. ASSUME NEW v \in Updater, NEW other \in JobsOf[v], target'[other] # cache'[other]
      PROVE  other \in untold' \/ (updater'[v].pc = "writing" /\ updater'[v].job = other)
  <2>1. CASE v = u /\ other = job
    BY <1>2, <2>1 DEF UpdatersIndInv, ShapeInv
  <2>2. CASE ~(v = u /\ other = job)
    <3>1. other # job
      BY <2>2 DEF DisjointJobs
    <3>2. target[other] # cache[other] /\ untold' = untold
      BY <1>4, <3>1 DEF Updaters!Build, UpdatersIndInv, ShapeInv
    <3>3. other \in untold \/ (updater[v].pc = "writing" /\ updater[v].job = other)
      BY <3>2 DEF UpdatersIndInv, Updaters!MemoIsWritten
    <3>4. updater[u].pc # "writing"
      BY DEF Updaters!Build
    <3>5. v # u => updater'[v] = updater[v]
      BY <1>2 DEF UpdatersIndInv, ShapeInv
    <3>. QED
      BY <3>2, <3>3, <3>4, <3>5
  <2>. QED
    BY <2>1, <2>2
<1>. QED
  BY <1>3, <1>4 DEF UpdatersIndInv, Updaters!MemoIsWritten

\* A write, done or failed, settles its own job and no other.
LEMMA WritesKeepIndInv ==
    ASSUME DisjointJobs, UpdatersIndInv, NEW u \in Updater, Updaters!Write(u) \/ Updaters!WriteFails(u)
    PROVE  UpdatersIndInv'
<1>. DEFINE job == updater[u].job
<1>1. updater[u] \in Updaters!UpdaterState /\ updater[u].pc = "writing" /\ job \in JobsOf[u] /\ job \in Updaters!Job
  BY DEF UpdatersIndInv, ShapeInv, Updaters!Write, Updaters!WriteFails, Updaters!Job
<1>2. updater' = [updater EXCEPT ![u] = [pc |-> "updating", todo |-> updater[u].todo \ {job}, job |-> job]]
  BY DEF Updaters!Write, Updaters!WriteFails, Updaters!Turn
<1>3. ShapeInv'
  <2>1. updater' \in [Updater -> Updaters!UpdaterState]
    BY <1>1, <1>2 DEF UpdatersIndInv, ShapeInv, Updaters!UpdaterState
  <2>2. DOMAIN target' = Updaters!Job /\ DOMAIN cache' = Updaters!Job
    BY DEF UpdatersIndInv, ShapeInv, Updaters!Write, Updaters!WriteFails
  <2>. QED
    BY <1>1, <1>2, <2>1, <2>2 DEF UpdatersIndInv, ShapeInv
<1>4. \/ target'[job] = cache'[job]
      \/ job \in untold'
  BY <1>1 DEF UpdatersIndInv, ShapeInv, Updaters!Write, Updaters!WriteFails, Updaters!ToWrite
<1>5. ASSUME NEW v \in Updater, NEW other \in JobsOf[v], other # job, target'[other] # cache'[other]
      PROVE  other \in untold' \/ (updater'[v].pc = "writing" /\ updater'[v].job = other)
  <2>1. target[other] # cache[other]
    <3>1. target'[other] = target[other]
      <4>1. CASE Updaters!Write(u)
        <5>1. target' = [target EXCEPT ![job] = Updaters!ToWrite(job)]
          BY <4>1 DEF Updaters!Write
        <5>2. other \in DOMAIN target
          BY DEF UpdatersIndInv, ShapeInv, Updaters!Job
        <5>. QED
          BY <1>5, <5>1, <5>2
      <4>2. CASE Updaters!WriteFails(u)
        BY <4>2 DEF Updaters!WriteFails
      <4>. QED
        BY <4>1, <4>2
    <3>2. cache' = cache
      BY DEF Updaters!Write, Updaters!WriteFails
    <3>. QED
      BY <1>5, <3>1, <3>2
  <2>2. other \in untold => other \in untold'
    BY <1>5 DEF Updaters!Write, Updaters!WriteFails
  <2>3. other \in untold \/ (updater[v].pc = "writing" /\ updater[v].job = other)
    BY <2>1 DEF UpdatersIndInv, Updaters!MemoIsWritten
  <2>4. v # u => updater'[v] = updater[v]
    BY <1>2 DEF UpdatersIndInv, ShapeInv
  <2>. QED
    BY <1>5, <2>2, <2>3, <2>4
<1>. QED
  BY <1>3, <1>4, <1>5 DEF UpdatersIndInv, Updaters!MemoIsWritten

LEMMA UpdatersNextKeepsIndInv ==
    ASSUME DisjointJobs, UpdatersIndInv, [Updaters!Next]_Updaters!vars
    PROVE  UpdatersIndInv'
<1>. USE DEF UpdatersIndInv
<1>1. CASE Updaters!Environment \/ Updaters!PollStep
  <2>1. UNCHANGED <<target, cache, untold, updater>>
    BY <1>1 DEF Updaters!Environment, Updaters!RegistryChanges, Updaters!FolderAppears, Updaters!PollStep, Updaters!LoadNewIcs, Updaters!AllSynced, Updaters!SendFails,
                Updaters!AllNotified, Updaters!Tick, Updaters!SyncWithNns, Updaters!SyncFails, Updaters!dataVars, Updaters!threadVars
  <2>. QED
    BY <2>1, OthersKeepIndInv DEF ShapeInv
<1>2. CASE Updaters!Shutdown \/ Updaters!StopPoll \/ Updaters!AllStopped \/ Updaters!JoinAll
  <2>1. UNCHANGED <<target, cache, untold, updater>>
    BY <1>2 DEF Updaters!Shutdown, Updaters!StopPoll, Updaters!AllStopped, Updaters!JoinAll, Updaters!dataVars
  <2>. QED
    BY <2>1, OthersKeepIndInv DEF ShapeInv
<1>3. ASSUME NEW u \in Updater, Updaters!StopUpdater(u) \/ Updaters!AllUpdated(u) \/ Updaters!Notify(u)
      PROVE  UpdatersIndInv'
  <2>1. UNCHANGED <<target, cache, untold>> /\ updater[u].pc # "writing"
    BY <1>3 DEF Updaters!StopUpdater, Updaters!AllUpdated, Updaters!Notify, Updaters!dataVars
  <2>2. updater[u] \in Updaters!UpdaterState /\ Updaters!Pass(u) \in Updaters!UpdaterState /\ updater[u].todo \subseteq JobsOf[u]
    BY DEF ShapeInv, Updaters!Pass, Updaters!UpdaterState, Updaters!Job
  <2>3. \E new \in Updaters!UpdaterState : /\ updater' = [updater EXCEPT ![u] = new]
                                           /\ new.pc # "writing" /\ new.todo \subseteq JobsOf[u]
    <3>1. CASE Updaters!StopUpdater(u)
      <4>. DEFINE new == [updater[u] EXCEPT !.pc = "exited"]
      <4>1. new \in Updaters!UpdaterState /\ new.pc = "exited" /\ new.todo = updater[u].todo
        BY <2>2 DEF Updaters!UpdaterState
      <4>2. updater' = [updater EXCEPT ![u] = new]
        BY <3>1 DEF Updaters!StopUpdater
      <4>. HIDE DEF new
      <4>. QED
        BY <2>2, <4>1, <4>2
    <3>2. CASE Updaters!AllUpdated(u)
      <4>. DEFINE new == [updater[u] EXCEPT !.pc = "waiting"]
      <4>1. new \in Updaters!UpdaterState /\ new.pc = "waiting" /\ new.todo = updater[u].todo
        BY <2>2 DEF Updaters!UpdaterState
      <4>2. updater' = [updater EXCEPT ![u] = new]
        BY <3>2 DEF Updaters!AllUpdated
      <4>. HIDE DEF new
      <4>. QED
        BY <2>2, <4>1, <4>2
    <3>3. CASE Updaters!Notify(u)
      BY <2>2, <3>3 DEF Updaters!Notify, Updaters!Pass
    <3>. QED
      BY <1>3, <3>1, <3>2, <3>3
  <2>4. updater' \in [Updater -> Updaters!UpdaterState]
    BY <2>3 DEF ShapeInv
  <2>5. \A v \in Updater : \/ updater'[v] = updater[v]
                           \/ /\ updater[v].pc # "writing" /\ updater'[v].pc # "writing"
                              /\ updater'[v].todo \subseteq JobsOf[v]
    BY <2>1, <2>3 DEF ShapeInv
  <2>. QED
    BY <2>1, <2>4, <2>5, OthersKeepIndInv
<1>4. ASSUME NEW u \in Updater, NEW job \in JobsOf[u], Updaters!LeaveJob(u, job)
      PROVE  UpdatersIndInv'
  <2>1. UNCHANGED <<target, cache, untold>> /\ updater[u].pc # "writing"
    BY <1>4 DEF Updaters!LeaveJob, Updaters!dataVars
  <2>2. updater[u] \in Updaters!UpdaterState /\ updater[u].todo \subseteq JobsOf[u] /\ job \in Updaters!Job
    BY DEF ShapeInv, Updaters!Job
  <2>3. updater' = [updater EXCEPT ![u] = [pc |-> "updating", todo |-> updater[u].todo \ {job}, job |-> job]]
    BY <1>4 DEF Updaters!LeaveJob, Updaters!Turn
  <2>4. updater' \in [Updater -> Updaters!UpdaterState]
    BY <2>2, <2>3 DEF ShapeInv, Updaters!UpdaterState
  <2>5. \A v \in Updater : \/ updater'[v] = updater[v]
                           \/ /\ updater[v].pc # "writing" /\ updater'[v].pc # "writing"
                              /\ updater'[v].todo \subseteq JobsOf[v]
    BY <2>1, <2>2, <2>3 DEF ShapeInv
  <2>. QED
    BY <2>1, <2>4, <2>5, OthersKeepIndInv
<1>5. CASE UNCHANGED Updaters!vars
  BY <1>5, OthersKeepIndInv DEF Updaters!vars, ShapeInv
<1>. QED
  BY <1>1, <1>2, <1>3, <1>4, <1>5, BuildKeepsIndInv, WritesKeepIndInv DEF Updaters!Next, Updaters!MainStep, Updaters!UpdaterStep

\* For any updaters and jobs, whatever fails and in whatever order the messages are
\* taken: what a builder remembers is in its file, unless the write failed or is
\* about to happen (prometheus_config.rs:94, config_writer.rs:64).
THEOREM MemoKept ==
    ASSUME DisjointJobs
    PROVE  Updaters!Spec => []Updaters!MemoIsWritten
<1>1. Updaters!Init => UpdatersIndInv
  BY UpdatersInitIndInv
<1>2. UpdatersIndInv /\ [Updaters!Next]_Updaters!vars => UpdatersIndInv'
  BY UpdatersNextKeepsIndInv
<1>3. UpdatersIndInv => Updaters!MemoIsWritten
  BY DEF UpdatersIndInv
<1>. QED
  BY <1>1, <1>2, <1>3, PTL DEF Updaters!Spec

-----------------------------------------------------------------------------
(* ConfigUpdaters: types.                                                    *)

UpdatersTypeInv ==
    /\ Updaters!TypeOK
    /\ DOMAIN nns = Ic /\ DOMAIN memory = Ic /\ DOMAIN cache = Updaters!Job /\ DOMAIN target = Updaters!Job

\* The loaded registries give targets.
LEMMA ConfigIsTyped ==
    ASSUME RegistriesKnown, UpdatersTypeInv, NEW job
    PROVE  Updaters!ConfigOf(memory, job) \in Updaters!Config
<1>1. ASSUME NEW ic \in Ic, memory[ic] # None
      PROVE  Updaters!GetTargets(ic, ContentOf[ic][memory[ic]]) \subseteq Updaters!Target
  <2>. DEFINE c == ContentOf[ic][memory[ic]]
  <2>1. memory[ic] \in 0..nns[ic] /\ nns[ic] \in 0..LastVersion[ic] /\ LastVersion[ic] \in Nat
    BY <1>1 DEF RegistriesKnown, UpdatersTypeInv, Updaters!TypeOK
  <2>2. memory[ic] \in 0..LastVersion[ic]
    BY <2>1
  <2>3. c \in Updaters!ContentType
    BY <2>2 DEF RegistriesKnown
  <2>. HIDE DEF c
  <2>4. ASSUME NEW n \in Node
        PROVE  Updaters!TargetOf(ic, c, n) \in Updaters!Target
    <3>1. c.subnetOf[n] \in Subnet \cup {NoSubnet}
      BY <2>3 DEF Updaters!ContentType
    <3>. QED
      BY <3>1 DEF Updaters!TargetOf, Updaters!Target
  <2>5. Updaters!GetTargets(ic, c) \subseteq Updaters!Target
    BY <2>4 DEF Updaters!GetTargets
  <2>. QED
    BY <2>5 DEF c
<1>2. Updaters!AllTargets(memory) \subseteq Updaters!Target
  BY <1>1 DEF Updaters!AllTargets, Updaters!Loaded
<1>. QED
  BY <1>2 DEF Updaters!ConfigOf, Updaters!GetTargetGroups, Updaters!Config

LEMMA UpdatersInitTypes ==
    ASSUME RegistriesKnown, Updaters!Init
    PROVE  UpdatersTypeInv
<1>1. \A u \in Updater : Updaters!Pass(u) \in Updaters!UpdaterState
  BY DEF Updaters!Pass, Updaters!UpdaterState, Updaters!Job
<1>2. poll \in Updaters!PollState /\ main \in Updaters!MainState
  BY DEF Updaters!Init, Updaters!PollState, Updaters!MainState
<1>3. updater \in [Updater -> Updaters!UpdaterState]
  BY <1>1 DEF Updaters!Init
<1>4. /\ \A ic \in Ic : nns[ic] \in 0..LastVersion[ic]
      /\ \A ic \in Ic : memory[ic] = None \/ memory[ic] \in 0..nns[ic]
      /\ DOMAIN nns = Ic /\ DOMAIN memory = Ic
  BY DEF Updaters!Init, RegistriesKnown
<1>5. /\ \A j \in Updaters!Job : cache[j] = None /\ target[j] = None
      /\ DOMAIN cache = Updaters!Job /\ DOMAIN target = Updaters!Job /\ untold = {}
      /\ folder \subseteq Ic
  BY DEF Updaters!Init, RegistriesKnown
<1>6. writeFailures \in 0..MaxUpdaterFailures
  BY DEF Updaters!Init, RegistriesKnown
<1>. QED
  BY <1>2, <1>3, <1>4, <1>5, <1>6 DEF UpdatersTypeInv, Updaters!TypeOK

\* Steps of the threads that leave the data alone.
LEMMA ThreadsKeepTypes ==
    ASSUME UpdatersTypeInv, UNCHANGED Updaters!dataVars,
           poll' \in Updaters!PollState, updater' \in [Updater -> Updaters!UpdaterState],
           main' \in Updaters!MainState
    PROVE  UpdatersTypeInv'
  BY DEF UpdatersTypeInv, Updaters!TypeOK, Updaters!dataVars

LEMMA UpdatersNextTypes ==
    ASSUME RegistriesKnown, UpdatersIndInv, UpdatersTypeInv, [Updaters!Next]_Updaters!vars
    PROVE  UpdatersTypeInv'
<1>. USE DEF UpdatersTypeInv
<1>1. /\ poll \in Updaters!PollState /\ updater \in [Updater -> Updaters!UpdaterState]
      /\ main \in Updaters!MainState /\ writeFailures \in 0..MaxUpdaterFailures
      /\ folder \subseteq Ic /\ untold \subseteq Updaters!Job
  BY DEF Updaters!TypeOK
<1>2. \A u \in Updater : /\ updater[u] \in Updaters!UpdaterState /\ Updaters!Pass(u) \in Updaters!UpdaterState
                         /\ JobsOf[u] \subseteq Updaters!Job
  BY <1>1 DEF Updaters!Pass, Updaters!UpdaterState, Updaters!Job
<1>3. Cardinality(Updater) \in Nat /\ Updaters!Cardinality(Updater) = Cardinality(Updater)
  BY FS_CardinalityType DEF RegistriesKnown, Updaters!Cardinality, Cardinality
<1>4. ASSUME NEW u \in Updater, NEW pc \in {"updating", "writing"}, NEW job \in Updaters!Job,
             Updaters!Turn(u, pc, job)
      PROVE  updater' \in [Updater -> Updaters!UpdaterState]
  <2>1. updater[u].todo \subseteq Updaters!Job
    BY <1>2 DEF Updaters!UpdaterState
  <2>2. [pc |-> pc, todo |-> updater[u].todo \ {job}, job |-> job] \in Updaters!UpdaterState
    BY <2>1 DEF Updaters!UpdaterState
  <2>. QED
    BY <1>1, <1>4, <2>2 DEF Updaters!Turn
<1>5. ASSUME NEW ic \in Ic, Updaters!RegistryChanges(ic)
      PROVE  UpdatersTypeInv'
  <2>1. /\ nns' = [nns EXCEPT ![ic] = nns[ic] + 1] /\ nns[ic] < LastVersion[ic]
        /\ UNCHANGED <<folder, memory, poll, updater, cache, target, untold, writeFailures, main>>
    BY <1>5 DEF Updaters!RegistryChanges, Updaters!threadVars
  <2>2. \A i \in Ic : nns[i] \in 0..LastVersion[i] /\ LastVersion[i] \in Nat
    BY DEF Updaters!TypeOK, RegistriesKnown
  <2>3. DOMAIN nns' = Ic /\ \A i \in Ic : nns'[i] \in 0..LastVersion[i] /\ nns[i] <= nns'[i]
    BY <2>1, <2>2
  <2>4. \A i \in Ic : memory[i] = None \/ memory[i] \in 0..nns'[i]
    <3>1. ASSUME NEW i \in Ic, memory[i] # None
          PROVE  memory[i] \in 0..nns'[i]
      <4>1. memory[i] \in 0..nns[i] /\ nns[i] \in Nat /\ nns'[i] \in Nat /\ nns[i] <= nns'[i]
        BY <2>2, <2>3, <3>1 DEF Updaters!TypeOK
      <4>. QED
        BY <4>1
    <3>. QED
      BY <3>1
  <2>. QED
    BY <2>1, <2>3, <2>4 DEF Updaters!TypeOK
<1>6. ASSUME NEW ic \in Ic, Updaters!FolderAppears(ic)
      PROVE  UpdatersTypeInv'
  BY <1>6 DEF Updaters!FolderAppears, Updaters!threadVars, Updaters!TypeOK
<1>7. CASE Updaters!LoadNewIcs
  <2>1. /\ memory' = [ic \in Ic |-> IF ic \in folder /\ memory[ic] = None THEN 0 ELSE memory[ic]]
        /\ poll' = [poll EXCEPT !.pc = "syncing", !.toSync = folder]
        /\ UNCHANGED <<nns, folder, cache, target, untold, writeFailures, updater, main>>
    BY <1>7 DEF Updaters!LoadNewIcs
  <2>2. poll' \in Updaters!PollState
    BY <1>1, <2>1 DEF Updaters!PollState
  <2>3. \A ic \in Ic : nns[ic] \in Nat
    BY DEF Updaters!TypeOK, RegistriesKnown
  <2>4. DOMAIN memory' = Ic /\ \A ic \in Ic : memory'[ic] = None \/ memory'[ic] \in 0..nns[ic]
    BY <2>1, <2>3 DEF Updaters!TypeOK
  <2>. QED
    BY <2>1, <2>2, <2>4 DEF Updaters!TypeOK
<1>8. ASSUME NEW ic \in Ic, Updaters!SyncWithNns(ic) \/ Updaters!SyncFails(ic)
      PROVE  UpdatersTypeInv'
  <2>1. /\ poll' = [poll EXCEPT !.toSync = poll.toSync \ {ic}]
        /\ UNCHANGED <<nns, folder, cache, target, untold, updater, main>>
        /\ memory' = [memory EXCEPT ![ic] = nns[ic]] \/ memory' = memory
    BY <1>8 DEF Updaters!SyncWithNns, Updaters!SyncFails
  <2>2. poll' \in Updaters!PollState
    BY <1>1, <2>1 DEF Updaters!PollState
  <2>3. \A i \in Ic : nns[i] \in Nat
    BY DEF Updaters!TypeOK, RegistriesKnown
  <2>4. DOMAIN memory' = Ic /\ \A i \in Ic : memory'[i] = None \/ memory'[i] \in 0..nns[i]
    BY <2>1, <2>3 DEF Updaters!TypeOK
  <2>5. writeFailures' \in 0..MaxUpdaterFailures
    BY <1>1, <1>8 DEF Updaters!SyncWithNns, Updaters!SyncFails, RegistriesKnown
  <2>. QED
    BY <2>1, <2>2, <2>4, <2>5 DEF Updaters!TypeOK
<1>9. CASE Updaters!AllSynced
  <2>1. poll' \in Updaters!PollState
    BY <1>1, <1>3, <1>9 DEF Updaters!AllSynced, Updaters!PollState
  <2>. QED
    BY <1>1, <1>9, <2>1, ThreadsKeepTypes DEF Updaters!AllSynced
<1>10. ASSUME NEW u \in Updater, Updaters!Notify(u)
       PROVE  UpdatersTypeInv'
  <2>1. poll' \in Updaters!PollState
    BY <1>1, <1>10 DEF Updaters!Notify, Updaters!PollState
  <2>2. updater' \in [Updater -> Updaters!UpdaterState]
    BY <1>1, <1>2, <1>10 DEF Updaters!Notify
  <2>. QED
    BY <1>1, <1>10, <2>1, <2>2, ThreadsKeepTypes DEF Updaters!Notify
<1>11. CASE Updaters!SendFails \/ Updaters!AllNotified \/ Updaters!Tick
  <2>1. poll' \in Updaters!PollState /\ UNCHANGED Updaters!dataVars /\ UNCHANGED <<updater, main>>
    BY <1>1, <1>11 DEF Updaters!SendFails, Updaters!AllNotified, Updaters!Tick, Updaters!PollState
  <2>. QED
    BY <1>1, <2>1, ThreadsKeepTypes
<1>12. ASSUME NEW u \in Updater, NEW job \in JobsOf[u], Updaters!LeaveJob(u, job)
       PROVE  UpdatersTypeInv'
  <2>1. job \in Updaters!Job
    BY <1>2
  <2>2. updater' \in [Updater -> Updaters!UpdaterState]
    BY <1>4, <1>12, <2>1 DEF Updaters!LeaveJob
  <2>. QED
    BY <1>1, <1>12, <2>2, ThreadsKeepTypes DEF Updaters!LeaveJob
<1>13. ASSUME NEW u \in Updater, NEW job \in JobsOf[u], Updaters!Build(u, job)
       PROVE  UpdatersTypeInv'
  <2>1. job \in Updaters!Job
    BY <1>2
  <2>2. updater' \in [Updater -> Updaters!UpdaterState]
    BY <1>4, <1>13, <2>1 DEF Updaters!Build
  <2>3. /\ cache' = [cache EXCEPT ![job] = Updaters!ConfigOf(memory, job)]
        /\ UNCHANGED <<nns, folder, memory, target, untold, writeFailures, poll, main>>
    BY <1>13 DEF Updaters!Build
  <2>4. Updaters!ConfigOf(memory, job) \in Updaters!Config
    BY ConfigIsTyped
  <2>5. DOMAIN cache' = Updaters!Job /\ \A j \in Updaters!Job : cache'[j] = None \/ cache'[j] \in Updaters!Config
    BY <2>3, <2>4 DEF Updaters!TypeOK
  <2>. QED
    BY <2>2, <2>3, <2>5 DEF Updaters!TypeOK
<1>14. ASSUME NEW u \in Updater, Updaters!Write(u) \/ Updaters!WriteFails(u)
       PROVE  UpdatersTypeInv'
  <2>. DEFINE job == updater[u].job
  <2>1. updater[u].pc = "writing"
    BY <1>14 DEF Updaters!Write, Updaters!WriteFails
  <2>2. job \in Updaters!Job
    BY <1>2, <2>1 DEF UpdatersIndInv, ShapeInv
  <2>. HIDE DEF job
  <2>3. updater' \in [Updater -> Updaters!UpdaterState]
    BY <1>4, <1>14, <2>2 DEF Updaters!Write, Updaters!WriteFails, job
  <2>4. /\ target' = [target EXCEPT ![job] = cache[job]] \/ target' = target
        /\ untold' = untold \ {job} \/ untold' = untold \cup {job}
        /\ UNCHANGED <<nns, folder, memory, cache, poll, main>>
    BY <1>14 DEF Updaters!Write, Updaters!WriteFails, Updaters!ToWrite, job
  <2>5. writeFailures' \in 0..MaxUpdaterFailures
    BY <1>1, <1>14 DEF Updaters!Write, Updaters!WriteFails, RegistriesKnown
  <2>6. /\ DOMAIN target' = Updaters!Job
        /\ \A j \in Updaters!Job : target'[j] = None \/ target'[j] \in Updaters!Config
    BY <2>2, <2>4 DEF Updaters!TypeOK
  <2>7. untold' \subseteq Updaters!Job
    BY <1>1, <2>2, <2>4
  <2>. QED
    BY <2>3, <2>4, <2>5, <2>6, <2>7 DEF Updaters!TypeOK
<1>15. ASSUME NEW u \in Updater, Updaters!AllUpdated(u)
       PROVE  UpdatersTypeInv'
  <2>1. updater' \in [Updater -> Updaters!UpdaterState]
    BY <1>1, <1>15 DEF Updaters!AllUpdated, Updaters!UpdaterState
  <2>. QED
    BY <1>1, <1>15, <2>1, ThreadsKeepTypes DEF Updaters!AllUpdated
<1>16. CASE Updaters!Shutdown \/ Updaters!AllStopped \/ Updaters!JoinAll
  <2>1. main' \in Updaters!MainState /\ UNCHANGED Updaters!dataVars /\ UNCHANGED <<poll, updater>>
    BY <1>1, <1>3, <1>16
       DEF Updaters!Shutdown, Updaters!AllStopped, Updaters!JoinAll, Updaters!StopMessages, Updaters!MainState
  <2>. QED
    BY <1>1, <2>1, ThreadsKeepTypes
<1>17. CASE Updaters!StopPoll
  <2>1. main' \in Updaters!MainState /\ poll' \in Updaters!PollState
    BY <1>1, <1>17 DEF Updaters!StopPoll, Updaters!StopSent, Updaters!MainState, Updaters!PollState
  <2>. QED
    BY <1>1, <1>17, <2>1, ThreadsKeepTypes DEF Updaters!StopPoll
<1>18. ASSUME NEW u \in Updater, Updaters!StopUpdater(u)
       PROVE  UpdatersTypeInv'
  <2>1. main' \in Updaters!MainState
    BY <1>1, <1>18 DEF Updaters!StopUpdater, Updaters!StopSent, Updaters!MainState
  <2>2. updater' \in [Updater -> Updaters!UpdaterState]
    BY <1>1, <1>18 DEF Updaters!StopUpdater, Updaters!UpdaterState
  <2>. QED
    BY <1>1, <1>18, <2>1, <2>2, ThreadsKeepTypes DEF Updaters!StopUpdater
<1>19. CASE UNCHANGED Updaters!vars
  BY <1>19 DEF Updaters!TypeOK, Updaters!vars
<1>. QED
  BY <1>5, <1>6, <1>7, <1>8, <1>9, <1>10, <1>11, <1>12, <1>13, <1>14, <1>15, <1>16, <1>17, <1>18, <1>19
     DEF Updaters!Next, Updaters!Environment, Updaters!PollStep, Updaters!UpdaterStep, Updaters!MainStep

\* Whatever is read, synced, built, written or stopped, state keeps its type: the
\* memories of the registries never run ahead of the NNS, the files hold targets
\* of known nodes.
THEOREM UpdatersTypes == ASSUME RegistriesKnown, DisjointJobs PROVE Updaters!Spec => []Updaters!TypeOK
<1>1. Updaters!Init => UpdatersIndInv /\ UpdatersTypeInv
  BY UpdatersInitIndInv, UpdatersInitTypes
<1>2. UpdatersIndInv /\ UpdatersTypeInv /\ [Updaters!Next]_Updaters!vars => (UpdatersIndInv /\ UpdatersTypeInv)'
  BY UpdatersNextKeepsIndInv, UpdatersNextTypes
<1>3. UpdatersTypeInv => Updaters!TypeOK
  BY DEF UpdatersTypeInv
<1>. QED
  BY <1>1, <1>2, <1>3, PTL DEF Updaters!Spec


-----------------------------------------------------------------------------
(* The fold of an answer into a changelog.                                   *)

Record == Nat \X Nat

\* What the NNS answers: sorted by version, and of every version after `since`
\* all records and nothing else.
IsAnswer(records, since, upto) ==
    /\ records \in Seq(Record)
    /\ \A i, j \in 1..Len(records) : i < j => records[i][1] <= records[j][1]
    /\ since < upto => Len(records) > 0 /\ records[1][1] = since + 1 /\ records[Len(records)][1] = upto
    /\ since = upto => Len(records) = 0
    /\ \A i \in 1..(Len(records) - 1) : records[i + 1][1] <= records[i][1] + 1
    /\ \A i \in 1..Len(records) : records[i][1] \in (since + 1)..upto /\ records[i][2] \in 1..KeysIn[records[i][1]]
    /\ \A v \in (since + 1)..upto : \A key \in 1..KeysIn[v] :
         \E i \in 1..Len(records) : records[i] = <<v, key>>

\* An answer goes on with the records of the next version.
LEMMA AnswerGrows ==
    ASSUME Sync!NoEmptyVersion, NEW since \in Nat, NEW upto \in Nat, since <= upto, upto < MaxVersion,
           NEW records, IsAnswer(records, since, upto)
    PROVE  IsAnswer(records \o Sync!RecordsOf(upto + 1), since, upto + 1)
<1>. DEFINE next == Sync!RecordsOf(upto + 1)
            grown == records \o next
            L == Len(records)
            K == KeysIn[upto + 1]
<1>0. upto + 1 \in Sync!Version /\ KeysIn \in [Sync!Version -> Nat \ {0}]
  BY DEF Sync!NoEmptyVersion, Sync!Version
<1>1. K \in Nat /\ K > 0
  BY <1>0
<1>a. L \in Nat /\ records \in Seq(Record) /\ \A i \in 1..L : records[i] \in Record
  BY DEF IsAnswer
<1>b. \A i, j \in 1..L : i < j => records[i][1] <= records[j][1]
  BY DEF IsAnswer
<1>c. /\ since < upto => L > 0 /\ records[1][1] = since + 1 /\ records[L][1] = upto
      /\ since = upto => L = 0
  BY DEF IsAnswer
<1>d. \A i \in 1..(L - 1) : records[i + 1][1] <= records[i][1] + 1
  BY DEF IsAnswer
<1>e. \A i \in 1..L : records[i][1] \in (since + 1)..upto /\ records[i][2] \in 1..KeysIn[records[i][1]]
  BY DEF IsAnswer
<1>f. \A v \in (since + 1)..upto : \A key \in 1..KeysIn[v] : \E i \in 1..L : records[i] = <<v, key>>
  BY DEF IsAnswer
<1>2. next \in Seq(Record) /\ Len(next) = K /\ \A i \in 1..K : next[i] = <<upto + 1, i>>
  <2>1. next = [key \in 1..K |-> <<upto + 1, key>>]
    BY DEF Sync!RecordsOf
  <2>2. \A key \in 1..K : <<upto + 1, key>> \in Record
    BY <1>1 DEF Record
  <2>. HIDE DEF next, K
  <2>3. next \in [1..K -> Record]
    BY <2>1, <2>2
  <2>4. next \in Seq(Record)
    BY <1>1, <2>3
  <2>5. DOMAIN next = 1..K /\ DOMAIN next = 1..Len(next) /\ Len(next) \in Nat
    BY <2>3, <2>4
  <2>. QED
    BY <1>1, <2>1, <2>4, <2>5
<1>. HIDE DEF next, K, L
<1>3. grown \in Seq(Record) /\ Len(grown) = L + K
      /\ \A i \in 1..(L + K) : grown[i] = IF i <= L THEN records[i] ELSE next[i - L]
  BY <1>2, <1>a, ConcatProperties, Zenon DEF L
<1>. HIDE DEF grown
<1>x. \A i \in 1..L : i \in 1..(L + K) /\ grown[i] = records[i]
  BY <1>1, <1>3, <1>a
<1>4. ASSUME NEW i \in 1..(L + K)
      PROVE  /\ i <= L => i \in 1..L /\ grown[i] = records[i]
             /\ ~(i <= L) => i - L \in 1..K /\ grown[i] = <<upto + 1, i - L>>
  <2>1. CASE i <= L
    BY <1>1, <1>3, <1>a, <2>1
  <2>2. CASE ~(i <= L)
    <3>1. i - L \in 1..K
      BY <1>1, <1>a, <2>2
    <3>. QED
      BY <1>2, <1>3, <2>2, <3>1
  <2>. QED
    BY <2>1, <2>2
<1>5. \A i \in 1..(L + K) : /\ i <= L => i \in 1..L /\ grown[i] = records[i]
                            /\ i > L => i - L \in 1..K /\ grown[i][1] = upto + 1 /\ grown[i][2] = i - L
  BY <1>1, <1>a, <1>4
<1>6. \A i \in 1..L : records[i][1] \in Nat /\ records[i][1] <= upto /\ records[i][1] >= since + 1
  BY <1>a, <1>e DEF Record
<1>7. ASSUME NEW i \in 1..(L + K), NEW j \in 1..(L + K), i < j
      PROVE  grown[i][1] <= grown[j][1]
  <2>1. CASE j <= L
    BY <1>1, <1>a, <1>5, <1>7, <1>b, <2>1
  <2>2. CASE j > L /\ i <= L
    <3>1. grown[i] = records[i] /\ i \in 1..L /\ grown[j][1] = upto + 1
      BY <1>5, <2>2
    <3>. QED
      BY <1>6, <3>1
  <2>3. CASE i > L
    <3>1. j > L
      BY <1>1, <1>a, <1>7, <2>3
    <3>2. grown[i][1] = upto + 1 /\ grown[j][1] = upto + 1
      BY <1>5, <2>3, <3>1
    <3>. QED
      BY <3>2
  <2>. QED
    BY <1>1, <1>a, <2>1, <2>2, <2>3
<1>8. L + K > 0 /\ grown[1][1] = since + 1 /\ grown[L + K][1] = upto + 1
  <2>1. grown[L + K][1] = upto + 1 /\ L + K > 0
    BY <1>1, <1>a, <1>5
  <2>2. CASE L = 0
    <3>1. since = upto
      BY <1>c, <2>2
    <3>. QED
      BY <1>1, <1>a, <1>5, <2>1, <2>2, <3>1
  <2>3. CASE L > 0
    BY <1>1, <1>a, <1>5, <1>c, <2>1, <2>3
  <2>. QED
    BY <1>1, <1>a, <2>2, <2>3
<1>9. ASSUME NEW i \in 1..(L + K - 1)
      PROVE  grown[i + 1][1] <= grown[i][1] + 1
  <2>1. i \in 1..(L + K) /\ i + 1 \in 1..(L + K)
    BY <1>1, <1>a
  <2>2. CASE i + 1 <= L
    <3>1. i \in 1..(L - 1)
      BY <1>1, <1>a, <2>2
    <3>. QED
      BY <1>1, <1>a, <1>5, <1>d, <2>1, <2>2, <3>1
  <2>3. CASE i + 1 > L /\ i <= L
    <3>1. i = L /\ L > 0 /\ since < upto
      BY <1>1, <1>a, <1>c, <2>3
    <3>2. records[L][1] = upto
      BY <3>1, <1>c
    <3>. QED
      BY <1>5, <2>1, <2>3, <3>1, <3>2
  <2>4. CASE i > L
    BY <1>1, <1>a, <1>5, <2>1, <2>4
  <2>. QED
    BY <1>1, <1>a, <2>2, <2>3, <2>4
<1>10. ASSUME NEW i \in 1..(L + K)
       PROVE  grown[i][1] \in (since + 1)..(upto + 1) /\ grown[i][2] \in 1..KeysIn[grown[i][1]]
  <2>1. CASE i <= L
    BY <1>1, <1>a, <1>5, <1>6, <1>e, <2>1
  <2>2. CASE i > L
    <3>1. grown[i][1] = upto + 1 /\ grown[i][2] \in 1..K
      BY <1>1, <1>a, <1>5, <2>2
    <3>2. KeysIn[grown[i][1]] = K
      BY <3>1 DEF K
    <3>. QED
      BY <3>1, <3>2
  <2>. QED
    BY <1>1, <1>a, <2>1, <2>2
<1>11. ASSUME NEW v \in (since + 1)..(upto + 1), NEW key \in 1..KeysIn[v]
       PROVE  \E i \in 1..(L + K) : grown[i] = <<v, key>>
  <2>1. CASE v <= upto
    <3>1. v \in (since + 1)..upto
      BY <2>1
    <3>2. PICK i \in 1..L : records[i] = <<v, key>>
      BY <1>f, <3>1
    <3>3. i \in 1..(L + K) /\ i <= L
      BY <1>1, <1>a
    <3>. QED
      BY <1>4, <3>2, <3>3
  <2>2. CASE v = upto + 1
    <3>1. key \in 1..K
      BY <2>2 DEF K
    <3>2. L + key \in 1..(L + K) /\ ~(L + key <= L) /\ (L + key) - L = key
      BY <1>1, <1>a, <3>1
    <3>. QED
      BY <1>4, <2>2, <3>2
  <2>. QED
    BY <2>1, <2>2
<1>12. since < upto + 1 /\ since # upto + 1
  OBVIOUS
<1>13. IsAnswer(grown, since, upto + 1)
  <2>. DEFINE M == Len(grown)
  <2>1. M = L + K /\ grown \in Seq(Record)
    BY <1>3
  <2>. HIDE DEF M
  <2>2. \A i, j \in 1..M : i < j => grown[i][1] <= grown[j][1]
    BY <1>7, <2>1
  <2>3. M > 0 /\ grown[1][1] = since + 1 /\ grown[M][1] = upto + 1
    BY <1>8, <2>1
  <2>4. \A i \in 1..(M - 1) : grown[i + 1][1] <= grown[i][1] + 1
    <3>1. M - 1 = L + K - 1
      BY <1>1, <1>a, <2>1
    <3>. QED
      BY ONLY <1>9, <3>1, Zenon
  <2>5. \A i \in 1..M : grown[i][1] \in (since + 1)..(upto + 1) /\ grown[i][2] \in 1..KeysIn[grown[i][1]]
    BY <1>10, <2>1
  <2>6. \A v \in (since + 1)..(upto + 1) : \A key \in 1..KeysIn[v] : \E i \in 1..M : grown[i] = <<v, key>>
    BY <1>11, <2>1
  <2>. QED
    BY <1>12, <2>1, <2>2, <2>3, <2>4, <2>5, <2>6, Zenon DEF IsAnswer, M
<1>. QED
  BY <1>13 DEF grown, next

LEMMA EmptyAnswer ==
    ASSUME NEW since \in Nat
    PROVE  IsAnswer(<<>>, since, since)
<1>1. <<>> \in Seq(Record) /\ Len(<<>>) = 0
  OBVIOUS
<1>2. 1..0 = {} /\ 1..(0 - 1) = {} /\ (since + 1)..since = {} /\ ~(since < since)
  OBVIOUS
<1>. QED
  BY <1>1, <1>2, Zenon DEF IsAnswer

LEMMA RecordsOfType ==
    ASSUME Sync!NoEmptyVersion, NEW v \in Sync!Version
    PROVE  Sync!RecordsOf(v) \in Seq(Record)
<1>1. KeysIn[v] \in Nat /\ v \in Nat
  BY DEF Sync!NoEmptyVersion, Sync!Version
<1>2. \A key \in 1..KeysIn[v] : <<v, key>> \in Record
  BY <1>1 DEF Record
<1>. QED
  BY <1>1, <1>2 DEF Sync!RecordsOf

\* The answer of the model is such an answer.
LEMMA RecordsAreAnAnswer ==
    ASSUME Sync!NoEmptyVersion, NEW since \in Nat, NEW upto \in Nat, since <= upto, upto <= MaxVersion
    PROVE  IsAnswer(Sync!Records(since, upto), since, upto)
<1>. DEFINE N == upto - since
            S == Seq(Record)
            After(n, s) == IF n < N THEN s \o Sync!RecordsOf(since + (n + 1)) ELSE s
            step == [n \in Nat |-> [s \in S |-> After(n, s)]]
            IsRecords(f) == f = [n \in 0..N |-> IF n = 0 THEN <<>> ELSE f[n - 1] \o Sync!RecordsOf(since + n)]
            records == CHOOSE f : IsRecords(f)
<1>0. N \in Nat /\ MaxVersion \in Nat
  BY DEF Sync!NoEmptyVersion
<1>1. \A n \in 1..N : since + n \in Sync!Version
  BY <1>0 DEF Sync!Version
<1>2. step \in [Nat -> [S -> S]]
  <2>1. ASSUME NEW n \in Nat, NEW s \in S
        PROVE  After(n, s) \in S
    <3>1. CASE n < N
      <4>1. n + 1 \in 1..N
        BY <1>0, <3>1
      <4>2. Sync!RecordsOf(since + (n + 1)) \in S
        BY <1>1, <4>1, RecordsOfType
      <4>3. s \o Sync!RecordsOf(since + (n + 1)) \in S
        BY <4>2
      <4>. QED
        BY <3>1, <4>3
    <3>. QED
      BY <3>1
  <2>. HIDE DEF After, S
  <2>. QED
    BY <2>1
<1>3. <<>> \in S
  OBVIOUS
<1>4. \E f : IsRecords(f)
  <2>1. BehaviourUpTo(N, S, <<>>, step) # {}
    <3>. HIDE DEF step, S, N
    <3>. QED
      BY <1>0, <1>2, <1>3, RecursionUpTo
  <2>2. PICK f : f \in BehaviourUpTo(N, S, <<>>, step)
    BY <2>1
  <2>3. f \in [0..N -> S] /\ f[0] = <<>> /\ \A n \in 1..N : f[n] = step[n - 1][f[n - 1]]
    BY <2>2 DEF BehaviourUpTo
  <2>4. ASSUME NEW n \in 1..N
        PROVE  f[n] = f[n - 1] \o Sync!RecordsOf(since + n)
    <3>1. n - 1 \in Nat /\ n - 1 \in 0..N /\ n - 1 < N /\ n - 1 + 1 = n
      BY <1>0
    <3>2. f[n - 1] \in S
      BY <2>3, <3>1
    <3>3. step[n - 1][f[n - 1]] = After(n - 1, f[n - 1])
      BY <3>1, <3>2
    <3>. QED
      BY <2>3, <3>1, <3>3
  <2>5. f = [n \in 0..N |-> IF n = 0 THEN <<>> ELSE f[n - 1] \o Sync!RecordsOf(since + n)]
    <3>1. ASSUME NEW n \in 0..N
          PROVE  f[n] = IF n = 0 THEN <<>> ELSE f[n - 1] \o Sync!RecordsOf(since + n)
      <4>1. CASE n = 0
        BY <2>3, <4>1
      <4>2. CASE n # 0
        <5>1. n \in 1..N
          BY <1>0, <4>2
        <5>. QED
          BY <2>4, <4>2, <5>1
      <4>. QED
        BY <4>1, <4>2
    <3>2. f = [n \in 0..N |-> f[n]]
      BY <2>3
    <3>. QED
      BY <3>1, <3>2, Zenon
  <2>. QED
    BY <2>5
<1>5. IsRecords(records)
  BY <1>4
<1>6. Sync!Records(since, upto) = records[N]
  BY DEF Sync!Records
<1>7. DOMAIN records = 0..N /\ records[0] = <<>> /\ \A n \in 1..N : records[n] = records[n - 1] \o Sync!RecordsOf(since + n)
  <2>. HIDE DEF records
  <2>. QED
    BY <1>0, <1>5
<1>. HIDE DEF records
<1>. DEFINE P == {n \in 0..N : IsAnswer(records[n], since, since + n)}
<1>8. 0 \in P
  <2>1. 0 \in 0..N /\ since + 0 = since
    BY <1>0
  <2>2. IsAnswer(records[0], since, since)
    BY <1>7, EmptyAnswer
  <2>3. IsAnswer(records[0], since, since + 0)
    BY <2>1, <2>2
  <2>. QED
    BY <2>1, <2>3
<1>9. ASSUME NEW n \in P, n < N
      PROVE  n + 1 \in P
  <2>1. n + 1 \in 1..N /\ (n + 1) - 1 = n /\ since + n \in Nat /\ since <= since + n /\ since + n < MaxVersion
        /\ since + (n + 1) = since + n + 1
    BY <1>0, <1>9
  <2>2. records[n + 1] = records[n] \o Sync!RecordsOf(since + n + 1)
    BY <1>7, <2>1
  <2>3. IsAnswer(records[n] \o Sync!RecordsOf(since + n + 1), since, since + n + 1)
    BY <2>1, AnswerGrows
  <2>4. IsAnswer(records[n + 1], since, since + (n + 1))
    BY ONLY <2>1, <2>2, <2>3, Zenon
  <2>5. n + 1 \in 0..N
    BY <1>0, <2>1
  <2>. QED
    BY <2>4, <2>5, Zenon
<1>10. P = 0..N
  <2>1. P \in SUBSET (0..N)
    OBVIOUS
  <2>. HIDE DEF P, N
  <2>. QED
    BY <1>0, <1>8, <1>9, <2>1, InductionUpTo
<1>11. N \in P /\ since + N = upto
  BY <1>0, <1>10
<1>. QED
  BY <1>6, <1>11

\* The changelog of the first k records: entry w is what they say of version since + w.
IsGrouping(cl, records, k, since) ==
    /\ cl \in Seq(SUBSET Record)
    /\ Len(cl) = IF k = 0 THEN 0 ELSE records[k][1] - since
    /\ \A w \in 1..Len(cl) : cl[w] = {records[j] : j \in {i \in 1..k : records[i][1] = since + w}}

Grown(cl, record, since) == IF Len(cl) < record[1] - since THEN Append(cl, {}) ELSE cl

LEMMA GroupedIs ==
    ASSUME NEW cl \in Seq(SUBSET Record), NEW record \in Record, NEW since \in Nat
    PROVE  /\ Grown(cl, record, since) \in Seq(SUBSET Record)
           /\ Sync!Grouped(cl, record, since) \in Seq(SUBSET Record)
           /\ Len(Sync!Grouped(cl, record, since)) = Len(Grown(cl, record, since))
           /\ \A w \in 1..Len(Grown(cl, record, since)) :
                Sync!Grouped(cl, record, since)[w] =
                  IF w = Len(Grown(cl, record, since)) THEN Grown(cl, record, since)[w] \cup {record}
                  ELSE Grown(cl, record, since)[w]
<1>. DEFINE g == Grown(cl, record, since)
            h == [g EXCEPT ![Len(g)] = @ \cup {record}]
<1>1. g \in Seq(SUBSET Record)
  BY DEF Grown
<1>2. Sync!Grouped(cl, record, since) = h
  BY DEF Sync!Grouped, Grown
<1>. HIDE DEF g
<1>3. Len(g) \in Nat /\ DOMAIN g = 1..Len(g)
  BY <1>1
<1>4. CASE Len(g) = 0
  <2>1. g = <<>>
    BY <1>1, <1>4
  <2>2. h = <<>>
    BY <1>3, <1>4, <2>1
  <2>3. <<>> \in Seq(SUBSET Record) /\ Len(<<>>) = 0 /\ 1..0 = {}
    OBVIOUS
  <2>. HIDE DEF h
  <2>4. /\ h \in Seq(SUBSET Record) /\ Len(h) = Len(g)
        /\ \A w \in 1..Len(g) : h[w] = IF w = Len(g) THEN g[w] \cup {record} ELSE g[w]
    BY <1>4, <2>1, <2>2, <2>3
  <2>. QED
    BY <1>1, <1>2, <2>4 DEF g
<1>5. CASE Len(g) > 0
  <2>. DEFINE n == Len(g)
              last == g[n] \cup {record}
  <2>1. n \in 1..Len(g) /\ last \in SUBSET Record
    BY <1>1, <1>3, <1>5
  <2>2. h = [g EXCEPT ![n] = last]
    OBVIOUS
  <2>. HIDE DEF h, n, last
  <2>3. h \in Seq(SUBSET Record) /\ Len(h) = Len(g)
        /\ \A j \in 1..Len(g) : h[j] = IF j = n THEN last ELSE g[j]
    <3>1. h = [j \in 1..Len(g) |-> IF j = n THEN last ELSE g[j]]
      BY <1>3, <2>2
    <3>2. \A j \in 1..Len(g) : g[j] \in SUBSET Record
      BY <1>1
    <3>3. h \in [1..Len(g) -> SUBSET Record]
      BY <2>1, <3>1, <3>2
    <3>4. h \in Seq(SUBSET Record) /\ DOMAIN h = 1..Len(g)
      BY <1>3, <3>3
    <3>5. Len(h) = Len(g)
      BY <1>3, <3>4
    <3>. QED
      BY <3>1, <3>4, <3>5
  <2>4. /\ h \in Seq(SUBSET Record) /\ Len(h) = Len(g)
        /\ \A w \in 1..Len(g) : h[w] = IF w = Len(g) THEN g[w] \cup {record} ELSE g[w]
    BY <2>3, Zenon DEF n, last
  <2>. QED
    BY <1>1, <1>2, <2>4 DEF g
<1>6. Len(g) = 0 \/ Len(g) > 0
  BY <1>3
<1>. QED
  BY <1>4, <1>5, <1>6, Zenon

\* The next record goes to the last entry, or opens the one of its version.
LEMMA GroupingGoesOn ==
    ASSUME NEW since \in Nat, NEW upto \in Nat, NEW records, IsAnswer(records, since, upto),
           NEW k \in Nat, k < Len(records), NEW cl, IsGrouping(cl, records, k, since)
    PROVE  IsGrouping(Sync!Grouped(cl, records[k + 1], since), records, k + 1, since)
<1>. DEFINE record == records[k + 1]
            g == Grown(cl, record, since)
            h == Sync!Grouped(cl, record, since)
            L == Len(cl)
            Of(w, n) == {records[j] : j \in {i \in 1..n : records[i][1] = since + w}}
<1>1. /\ records \in Seq(Record) /\ Len(records) \in Nat
      /\ \A i, j \in 1..Len(records) : i < j => records[i][1] <= records[j][1]
      /\ \A i \in 1..Len(records) : records[i] \in Record /\ records[i][1] \in Nat
  BY DEF IsAnswer, Record
<1>2. k + 1 \in 1..Len(records) /\ record \in Record /\ record[1] \in Nat
  BY <1>1
<1>3. cl \in Seq(SUBSET Record) /\ L \in Nat /\ \A w \in 1..L : cl[w] = Of(w, k)
  BY DEF IsGrouping
<1>4. record[1] = since + L \/ record[1] = since + L + 1
  <2>1. CASE k = 0
    <3>1. since # upto /\ since <= upto
      BY <1>1, <1>2, <2>1 DEF IsAnswer
    <3>2. record[1] = since + 1 /\ L = 0
      BY <1>1, <1>2, <2>1, <3>1 DEF IsAnswer, IsGrouping
    <3>. QED
      BY <3>2
  <2>2. CASE k # 0
    <3>1. k \in 1..(Len(records) - 1) /\ k \in 1..Len(records)
      BY <1>1, <2>2
    <3>2. record[1] <= records[k][1] + 1 /\ records[k][1] <= record[1] /\ records[k][1] \in Nat
      <4>1. record[1] <= records[k][1] + 1
        BY <3>1 DEF IsAnswer
      <4>2. k < k + 1 /\ records[k][1] <= record[1]
        BY <1>1, <1>2, <3>1
      <4>. HIDE DEF record
      <4>. QED
        BY <1>1, <3>1, <4>1, <4>2
    <3>3. L = records[k][1] - since
      BY <2>2 DEF IsGrouping
    <3>4. PICK r \in Nat, last \in Nat : r = record[1] /\ last = records[k][1]
      BY <1>2, <3>2
    <3>5. r <= last + 1 /\ last <= r /\ L = last - since
      BY <3>2, <3>3, <3>4
    <3>6. r = since + L \/ r = since + L + 1
      BY <1>3, <3>5
    <3>. QED
      BY <3>4, <3>6
  <2>. QED
    BY <2>1, <2>2
<1>5. g \in Seq(SUBSET Record) /\ Len(g) = record[1] - since /\ Len(g) >= 1 /\ Len(g) \in Nat
      /\ (\A w \in 1..Len(g) : w < Len(g) => g[w] = Of(w, k))
      /\ g[Len(g)] = Of(Len(g), k)
  <2>0. PICK r \in Nat : r = record[1]
    BY <1>2
  <2>1. CASE r = since + L /\ L > 0
    <3>1. ~(L < r - since) /\ r - since = L /\ L \in 1..L
      BY <1>3, <2>1
    <3>2. g = cl
      BY <2>0, <3>1 DEF Grown
    <3>. HIDE DEF g, Of
    <3>3. Len(g) = L /\ g[L] = Of(L, k) /\ \A w \in 1..Len(g) : g[w] = Of(w, k)
      BY <1>3, <3>1, <3>2
    <3>. QED
      BY <1>3, <2>0, <2>1, <3>1, <3>2, <3>3
  <2>2. CASE r = since + L + 1
    <3>0. L < r - since /\ r - since = L + 1
      BY <1>3, <2>2
    <3>1. g = Append(cl, {})
      BY <2>0, <3>0 DEF Grown
    <3>2. g \in Seq(SUBSET Record) /\ Len(g) = L + 1 /\ (\A w \in 1..L : g[w] = cl[w]) /\ g[L + 1] = {}
      BY <1>3, <3>1
    <3>3. ASSUME NEW i \in 1..k, records[i][1] = since + (L + 1)
          PROVE  FALSE
      <4>1. k # 0 /\ k \in 1..Len(records) /\ i \in 1..Len(records) /\ i <= k
        BY <1>1
      <4>2. L = records[k][1] - since /\ records[k][1] \in Nat
        BY <1>1, <4>1 DEF IsGrouping
      <4>3. records[i][1] <= records[k][1]
        <5>1. CASE i = k
          BY <4>2, <5>1
        <5>2. CASE i < k
          BY <1>1, <4>1, <5>2
        <5>. QED
          BY <4>1, <5>1, <5>2
      <4>4. PICK last \in Nat : last = records[k][1]
        BY <4>2
      <4>5. L = last - since /\ since + (L + 1) <= last
        BY <3>3, <4>2, <4>3, <4>4
      <4>. QED
        BY <1>3, <4>5
    <3>4. Of(L + 1, k) = {}
      BY <3>3
    <3>. HIDE DEF g, L, Of
    <3>5. \A w \in 1..(L + 1) : w < L + 1 => w \in 1..L
      BY <1>3
    <3>6. g[L + 1] = Of(L + 1, k) /\ \A w \in 1..L : g[w] = Of(w, k)
      BY <1>3, <3>2, <3>4
    <3>7. L + 1 >= 1 /\ L + 1 \in Nat
      BY <1>3
    <3>. QED
      BY <2>0, <3>0, <3>2, <3>5, <3>6, <3>7
  <2>3. CASE r = since + L /\ L = 0
    <3>1. r \in (since + 1)..upto
      BY <1>2, <2>0 DEF IsAnswer
    <3>. QED
      BY <2>3, <3>1
  <2>4. \/ r = since + L /\ L > 0
        \/ r = since + L /\ L = 0
        \/ r = since + L + 1
    BY <1>3, <1>4, <2>0
  <2>. QED
    BY <2>1, <2>2, <2>3, <2>4, Zenon
<1>6. /\ h \in Seq(SUBSET Record) /\ Len(h) = Len(g)
      /\ \A w \in 1..Len(g) : h[w] = IF w = Len(g) THEN g[w] \cup {record} ELSE g[w]
  BY <1>2, <1>3, GroupedIs
<1>7. ASSUME NEW w \in 1..Len(g)
      PROVE  h[w] = Of(w, k + 1)
  <2>1. 1..(k + 1) = (1..k) \cup {k + 1}
    OBVIOUS
  <2>2. since + Len(g) = record[1]
    BY <1>2, <1>5
  <2>3. CASE w = Len(g)
    <3>1. {i \in 1..(k + 1) : records[i][1] = since + w} = {i \in 1..k : records[i][1] = since + w} \cup {k + 1}
      BY <2>1, <2>2, <2>3
    <3>2. Of(w, k + 1) = Of(w, k) \cup {record}
      BY <3>1
    <3>3. g[w] = Of(w, k) /\ h[w] = g[w] \cup {record}
      BY <1>5, <1>6, <2>3
    <3>. QED
      BY <3>2, <3>3
  <2>4. CASE w # Len(g)
    <3>1. w < Len(g) /\ since + w # record[1]
      BY <1>2, <1>5, <2>2, <2>4
    <3>2. {i \in 1..(k + 1) : records[i][1] = since + w} = {i \in 1..k : records[i][1] = since + w}
      BY <2>1, <3>1
    <3>3. Of(w, k + 1) = Of(w, k)
      BY <3>2
    <3>4. h[w] = g[w] /\ g[w] = Of(w, k)
      BY <1>5, <1>6, <2>4, <3>1
    <3>. QED
      BY <3>3, <3>4
  <2>. QED
    BY <2>3, <2>4
<1>8. k + 1 # 0 /\ Len(h) = record[1] - since
  BY <1>5, <1>6
<1>. QED
  BY <1>6, <1>7, <1>8 DEF IsGrouping

\* The fold makes one entry for every version up to the one that the answer
\* reaches, with exactly its records.
THEOREM ChangelogIsRegistry ==
    ASSUME Sync!NoEmptyVersion, NEW since \in Nat, NEW upto \in Nat, since <= upto, upto <= MaxVersion
    PROVE  /\ Sync!Changelog(since, upto) \in Seq(SUBSET Record)
           /\ Len(Sync!Changelog(since, upto)) = upto - since
           /\ \A w \in 1..(upto - since) : Sync!Changelog(since, upto)[w] = Sync!ToSet(Sync!RecordsOf(since + w))
<1>. DEFINE answer == Sync!Records(since, upto)
            N == Len(answer)
            S == Seq(SUBSET Record)
            After(n, cl) == IF n < N THEN Sync!Grouped(cl, answer[n + 1], since) ELSE cl
            step == [n \in Nat |-> [cl \in S |-> After(n, cl)]]
            IsFold(f) == f = [k \in 0..N |-> IF k = 0 THEN <<>> ELSE Sync!Grouped(f[k - 1], answer[k], since)]
            grouped == CHOOSE f : IsFold(f)
<1>1. IsAnswer(answer, since, upto)
  BY RecordsAreAnAnswer
<1>2. grouped[N] = Sync!Changelog(since, upto)
  BY DEF Sync!Changelog
<1>. HIDE DEF answer
<1>3. N \in Nat /\ \A n \in 1..N : answer[n] \in Record
  BY <1>1 DEF IsAnswer
<1>. HIDE DEF N
<1>4. step \in [Nat -> [S -> S]]
  <2>1. ASSUME NEW n \in Nat, NEW cl \in S
        PROVE  After(n, cl) \in S
    <3>1. CASE n < N
      <4>1. n + 1 \in 1..N
        BY <1>3, <3>1
      <4>2. Sync!Grouped(cl, answer[n + 1], since) \in S
        BY <1>3, <4>1, GroupedIs
      <4>. QED
        BY <3>1, <4>2
    <3>. QED
      BY <3>1
  <2>. HIDE DEF After, S
  <2>. QED
    BY <2>1
<1>5. <<>> \in S
  OBVIOUS
<1>6. \E f : IsFold(f)
  <2>1. BehaviourUpTo(N, S, <<>>, step) # {}
    <3>. HIDE DEF step, S
    <3>. QED
      BY <1>3, <1>4, <1>5, RecursionUpTo
  <2>2. PICK f : f \in BehaviourUpTo(N, S, <<>>, step)
    BY <2>1
  <2>3. f \in [0..N -> S] /\ f[0] = <<>> /\ \A n \in 1..N : f[n] = step[n - 1][f[n - 1]]
    BY <2>2 DEF BehaviourUpTo
  <2>4. ASSUME NEW n \in 1..N
        PROVE  f[n] = Sync!Grouped(f[n - 1], answer[n], since)
    <3>1. n - 1 \in Nat /\ n - 1 \in 0..N /\ n - 1 < N /\ n - 1 + 1 = n
      BY <1>3
    <3>2. f[n - 1] \in S
      BY <2>3, <3>1
    <3>3. step[n - 1][f[n - 1]] = After(n - 1, f[n - 1])
      BY <3>1, <3>2
    <3>. QED
      BY <2>3, <3>1, <3>3
  <2>5. f = [k \in 0..N |-> IF k = 0 THEN <<>> ELSE Sync!Grouped(f[k - 1], answer[k], since)]
    <3>1. ASSUME NEW k \in 0..N
          PROVE  f[k] = IF k = 0 THEN <<>> ELSE Sync!Grouped(f[k - 1], answer[k], since)
      <4>1. CASE k = 0
        BY <2>3, <4>1
      <4>2. CASE k # 0
        <5>1. k \in 1..N
          BY <1>3, <4>2
        <5>. QED
          BY <2>4, <4>2, <5>1
      <4>. QED
        BY <4>1, <4>2
    <3>2. f = [k \in 0..N |-> f[k]]
      BY <2>3
    <3>. QED
      BY <3>1, <3>2, Zenon
  <2>. QED
    BY <2>5
<1>7. IsFold(grouped)
  BY <1>6
<1>8. grouped[0] = <<>> /\ \A k \in 1..N : grouped[k] = Sync!Grouped(grouped[k - 1], answer[k], since)
  <2>. HIDE DEF grouped
  <2>. QED
    BY <1>3, <1>7
<1>. HIDE DEF grouped
<1>. DEFINE P == {k \in 0..N : IsGrouping(grouped[k], answer, k, since)}
<1>9. 0 \in P
  <2>1. <<>> \in Seq(SUBSET Record) /\ Len(<<>>) = 0 /\ 1..0 = {} /\ 0 \in 0..N
    BY <1>3
  <2>2. IsGrouping(<<>>, answer, 0, since)
    <3>1. Len(<<>>) = (IF 0 = 0 THEN 0 ELSE answer[0][1] - since)
      BY <2>1
    <3>2. \A w \in 1..Len(<<>>) : FALSE
      BY <2>1
    <3>. QED
      BY <2>1, <3>1, <3>2, Zenon DEF IsGrouping
  <2>. QED
    BY <1>8, <2>1, <2>2
<1>10. ASSUME NEW k \in P, k < N
       PROVE  k + 1 \in P
  <2>1. k \in Nat /\ k < Len(answer) /\ k + 1 \in 1..N /\ k + 1 \in 0..N /\ (k + 1) - 1 = k
    BY <1>3, <1>10 DEF N
  <2>2. IsGrouping(Sync!Grouped(grouped[k], answer[k + 1], since), answer, k + 1, since)
    BY <1>1, <2>1, GroupingGoesOn
  <2>3. grouped[k + 1] = Sync!Grouped(grouped[k], answer[k + 1], since)
    BY <1>8, <2>1
  <2>. QED
    BY <2>1, <2>2, <2>3
<1>11. P = 0..N
  <2>1. P \in SUBSET (0..N)
    OBVIOUS
  <2>. HIDE DEF P
  <2>. QED
    BY <1>3, <1>9, <1>10, <2>1, InductionUpTo
<1>12. IsGrouping(grouped[N], answer, N, since)
  BY <1>3, <1>11
<1>. DEFINE changelog == grouped[N]
<1>. HIDE DEF changelog
<1>13. changelog \in Seq(SUBSET Record) /\ Len(changelog) = upto - since
  <2>1. changelog \in Seq(SUBSET Record) /\ Len(changelog) = IF N = 0 THEN 0 ELSE answer[N][1] - since
    BY <1>12 DEF IsGrouping, changelog
  <2>2. CASE N = 0
    <3>1. since = upto
      BY <1>1, <2>2 DEF IsAnswer, N
    <3>. QED
      BY <2>1, <2>2, <3>1
  <2>3. CASE N # 0
    <3>1. since < upto /\ answer[N][1] = upto
      BY <1>1, <2>3 DEF IsAnswer, N
    <3>. QED
      BY <2>1, <2>3, <3>1
  <2>. QED
    BY <2>2, <2>3
<1>14. ASSUME NEW w \in 1..(upto - since)
       PROVE  changelog[w] = Sync!ToSet(Sync!RecordsOf(since + w))
  <2>. DEFINE v == since + w
              K == KeysIn[v]
  <2>1. v \in (since + 1)..upto /\ v \in Sync!Version /\ w \in 1..Len(changelog)
    BY <1>13 DEF Sync!Version, Sync!NoEmptyVersion
  <2>2. changelog[w] = {answer[j] : j \in {i \in 1..N : answer[i][1] = v}}
    BY <1>12, <2>1 DEF IsGrouping, changelog
  <2>3. Sync!ToSet(Sync!RecordsOf(v)) = {<<v, key>> : key \in 1..K}
    <3>1. Sync!RecordsOf(v) = [key \in 1..K |-> <<v, key>>]
      BY DEF Sync!RecordsOf
    <3>. QED
      BY <3>1 DEF Sync!ToSet
  <2>. HIDE DEF v
  <2>4. ASSUME NEW j \in 1..N, answer[j][1] = v
        PROVE  answer[j] \in {<<v, key>> : key \in 1..K}
    <3>1. answer[j] \in Record /\ answer[j][2] \in 1..K
      BY <1>1, <1>3, <2>4 DEF IsAnswer, N
    <3>2. answer[j] = <<v, answer[j][2]>>
      BY <2>4, <3>1 DEF Record
    <3>. QED
      BY <3>1, <3>2
  <2>5. ASSUME NEW key \in 1..K
        PROVE  <<v, key>> \in {answer[j] : j \in {i \in 1..N : answer[i][1] = v}}
    <3>1. PICK i \in 1..N : answer[i] = <<v, key>>
      BY <1>1, <2>1 DEF IsAnswer, N
    <3>. QED
      BY <3>1
  <2>6. changelog[w] = Sync!ToSet(Sync!RecordsOf(v))
    BY <2>2, <2>3, <2>4, <2>5
  <2>. QED
    BY <2>6 DEF v
<1>. QED
  BY <1>2, <1>13, <1>14 DEF changelog

-----------------------------------------------------------------------------
(* The invariant.                                                            *)

\* The call as a record, its numbers in their ranges.
CallInv ==
    /\ registry \in 0..MaxVersion
    /\ DOMAIN store \subseteq 1..registry
    /\ sync.pc \in Sync!SyncPC /\ sync.latest \in 0..registry /\ sync.result \in Sync!Result
    /\ sync = [pc |-> sync.pc, latest |-> sync.latest, updates |-> sync.updates, opened |-> sync.opened,
               lost |-> sync.lost, result |-> sync.result]
    /\ DOMAIN sync.updates \subseteq 1..sync.latest
    /\ sync.lost \subseteq Sync!Version
    /\ sync.pc \in {"idle", "start"} => sync.updates = Sync!Empty

\* What is collected is what the registry says, and what is being written has a
\* file already, which is empty, as a file that was left torn is.
CollectedInv ==
    /\ \A v \in DOMAIN sync.updates : sync.updates[v] = Sync!ToSet(Sync!RecordsOf(v))
    /\ sync.opened \subseteq DOMAIN sync.updates \cap DOMAIN store
    /\ torn \subseteq DOMAIN store
    /\ \A v \in torn \cup sync.opened : store[v] = {}

SyncIndInv == CallInv /\ CollectedInv /\ Sync!NothingSkipped /\ Sync!StoreIsRegistry

-----------------------------------------------------------------------------
(* Lemmas.                                                                   *)

\* The version of the store is that of the last file before a gap.
LEMMA LatestStoredIs ==
    ASSUME Sync!NoEmptyVersion, CallInv
    PROVE  Sync!LatestStored \in 0..registry /\ Sync!Stored(Sync!LatestStored)
<1>. DEFINE Gaps == {v \in Nat : ~Sync!Stored(v)}
            g == Min(Gaps)
<1>0. MaxVersion \in Nat /\ registry \in Nat /\ registry <= MaxVersion
  BY DEF Sync!NoEmptyVersion, CallInv
<1>1. registry + 1 \in Gaps
  BY <1>0 DEF CallInv, Sync!Stored
<1>2. g \in Gaps /\ \A v \in Gaps : g <= v
  <2>1. Gaps \in SUBSET Nat /\ Gaps # {}
    BY <1>1
  <2>. HIDE DEF Gaps
  <2>. QED
    BY <2>1, MinType
<1>3. g <= registry + 1 /\ g \in Nat /\ ~Sync!Stored(g)
  BY <1>1, <1>2
<1>. HIDE DEF g
<1>4. g # 0
  BY <1>3 DEF Sync!Stored
<1>5. g - 1 \in 0..MaxVersion /\ g - 1 \in Nat /\ g - 1 + 1 = g
  BY <1>0, <1>3, <1>4
<1>6. Sync!Stored(g - 1)
  <2>1. g - 1 \notin Gaps
    BY <1>2, <1>3
  <2>. QED
    BY <1>5, <2>1
<1>7. \E v \in 0..MaxVersion : Sync!Stored(v) /\ ~Sync!Stored(v + 1)
  BY <1>3, <1>5, <1>6
<1>8. Sync!LatestStored \in 0..MaxVersion /\ Sync!Stored(Sync!LatestStored)
  BY <1>7 DEF Sync!LatestStored
<1>. DEFINE l == Sync!LatestStored
<1>9. l \in Nat /\ Sync!Stored(l)
  BY <1>8
<1>. HIDE DEF l
<1>10. l <= registry
  <2>. SUFFICES ASSUME ~(l <= registry) PROVE FALSE
    OBVIOUS
  <2>1. l \in 1..l /\ l \notin 1..registry
    BY <1>0, <1>9
  <2>. QED
    BY <1>9, <2>1 DEF Sync!Stored, CallInv
<1>. QED
  BY <1>0, <1>9, <1>10 DEF l

LEMMA SyncInitIndInv == Sync!NoEmptyVersion /\ Sync!Init => SyncIndInv
<1>. SUFFICES ASSUME Sync!NoEmptyVersion, Sync!Init PROVE SyncIndInv
  OBVIOUS
<1>1. MaxVersion \in Nat
  BY DEF Sync!NoEmptyVersion
<1>2. sync = [pc |-> "idle", latest |-> 0, updates |-> Sync!Empty, opened |-> {}, lost |-> {}, result |-> "none"]
  BY DEF Sync!Init, Sync!Idle
<1>3. DOMAIN Sync!Empty = {}
  BY DEF Sync!Empty
<1>4. CallInv
  BY <1>1, <1>2, <1>3 DEF Sync!Init, CallInv, Sync!SyncPC, Sync!Result, Sync!Version
<1>5. CollectedInv
  BY <1>2, <1>3 DEF Sync!Init, CollectedInv
<1>6. Sync!NothingSkipped /\ Sync!StoreIsRegistry
  BY <1>2, <1>3 DEF Sync!Init, Sync!NothingSkipped, Sync!StoreIsRegistry
<1>. QED
  BY <1>4, <1>5, <1>6 DEF SyncIndInv

\* The call ends, whatever it had collected.
LEMMA ReturnKeepsIndInv ==
    ASSUME Sync!NoEmptyVersion, SyncIndInv, NEW result \in Sync!Result, Sync!Return(result), UNCHANGED <<registry, store>>
    PROVE  SyncIndInv'
<1>1. sync' = [pc |-> "idle", latest |-> 0, updates |-> Sync!Empty, opened |-> {}, lost |-> {}, result |-> result]
  BY DEF Sync!Return, Sync!Idle
<1>2. DOMAIN Sync!Empty = {} /\ 0 \in 0..registry /\ 1..0 = {}
  BY DEF Sync!Empty, SyncIndInv, CallInv
<1>3. CallInv'
  BY <1>1, <1>2 DEF SyncIndInv, CallInv, Sync!SyncPC
<1>4. CollectedInv'
  BY <1>1, <1>2 DEF SyncIndInv, CollectedInv, Sync!Return
<1>5. Sync!NothingSkipped'
  BY <1>1, <1>2 DEF Sync!NothingSkipped
<1>6. Sync!StoreIsRegistry'
  BY <1>1 DEF SyncIndInv, Sync!StoreIsRegistry, Sync!Return
<1>. QED
  BY <1>3, <1>4, <1>5, <1>6 DEF SyncIndInv

\* The call goes on with what it has.
LEMMA GoKeepsIndInv ==
    ASSUME Sync!NoEmptyVersion, SyncIndInv, NEW pc \in Sync!SyncPC \ {"idle", "start"}, Sync!Go(pc), UNCHANGED <<registry, store>>
    PROVE  SyncIndInv'
<1>1. sync' = [pc |-> pc, latest |-> sync.latest, updates |-> sync.updates, opened |-> sync.opened,
               lost |-> sync.lost, result |-> sync.result]
  BY DEF Sync!Go, SyncIndInv, CallInv
<1>2. torn' = torn
  BY DEF Sync!Go
<1>3. CallInv'
  BY <1>1 DEF SyncIndInv, CallInv
<1>4. CollectedInv' /\ Sync!NothingSkipped' /\ Sync!StoreIsRegistry'
  BY <1>1, <1>2 DEF SyncIndInv, CollectedInv, Sync!NothingSkipped, Sync!StoreIsRegistry
<1>. QED
  BY <1>3, <1>4 DEF SyncIndInv

LEMMA RegistryChangesKeepsIndInv == Sync!NoEmptyVersion /\ SyncIndInv /\ Sync!RegistryChanges => SyncIndInv'
<1>. SUFFICES ASSUME Sync!NoEmptyVersion, SyncIndInv, Sync!RegistryChanges PROVE SyncIndInv'
  OBVIOUS
<1>1. registry \in Nat /\ registry' = registry + 1 /\ registry' \in 0..MaxVersion /\ MaxVersion \in Nat
  BY DEF SyncIndInv, CallInv, Sync!RegistryChanges, Sync!NoEmptyVersion
<1>2. UNCHANGED <<store, torn, sync>>
  BY DEF Sync!RegistryChanges
<1>3. 1..registry \subseteq 1..registry' /\ 0..registry \subseteq 0..registry'
  BY <1>1
<1>4. CallInv'
  BY <1>1, <1>2, <1>3 DEF SyncIndInv, CallInv
<1>5. CollectedInv' /\ Sync!NothingSkipped' /\ Sync!StoreIsRegistry'
  BY <1>2 DEF SyncIndInv, CollectedInv, Sync!NothingSkipped, Sync!StoreIsRegistry
<1>. QED
  BY <1>4, <1>5 DEF SyncIndInv

LEMMA CallKeepsIndInv == Sync!NoEmptyVersion /\ SyncIndInv /\ Sync!Call => SyncIndInv'
<1>. SUFFICES ASSUME Sync!NoEmptyVersion, SyncIndInv, Sync!Call PROVE SyncIndInv'
  OBVIOUS
<1>1. sync' = [pc |-> "start", latest |-> 0, updates |-> Sync!Empty, opened |-> {}, lost |-> {}, result |-> "none"]
  BY DEF Sync!Call, Sync!Idle
<1>2. UNCHANGED <<registry, store, torn>>
  BY DEF Sync!Call, Sync!OnlySync
<1>3. DOMAIN Sync!Empty = {} /\ 0 \in 0..registry /\ 1..0 = {}
  BY DEF Sync!Empty, SyncIndInv, CallInv
<1>4. sync.pc = "idle"
  BY DEF Sync!Call
<1>5. CallInv'
  BY <1>1, <1>2, <1>3 DEF SyncIndInv, CallInv, Sync!SyncPC, Sync!Result
<1>6. CollectedInv' /\ Sync!NothingSkipped'
  BY <1>1, <1>2, <1>3 DEF SyncIndInv, CollectedInv, Sync!NothingSkipped
<1>7. Sync!StoreIsRegistry'
  <2>1. sync.opened = {}
    BY <1>3, <1>4 DEF SyncIndInv, CallInv, CollectedInv
  <2>. QED
    BY <1>1, <1>2, <2>1 DEF SyncIndInv, Sync!StoreIsRegistry
<1>. QED
  BY <1>5, <1>6, <1>7 DEF SyncIndInv

LEMMA StartKeepsIndInv == Sync!NoEmptyVersion /\ SyncIndInv /\ Sync!Start => SyncIndInv'
<1>. SUFFICES ASSUME Sync!NoEmptyVersion, SyncIndInv, Sync!Start PROVE SyncIndInv'
  OBVIOUS
<1>1. UNCHANGED <<registry, store>> /\ sync.pc = "start"
  BY DEF Sync!Start, Sync!OnlySync
<1>2. CASE UseCurrentVersion /\ Sync!LatestStored # 0
  <2>1. Sync!Return("ok") /\ "ok" \in Sync!Result
    BY <1>2 DEF Sync!Start, Sync!Result
  <2>. QED
    BY <1>1, <2>1, ReturnKeepsIndInv
<1>3. CASE ~(UseCurrentVersion /\ Sync!LatestStored # 0)
  <2>. DEFINE l == Sync!LatestStored
  <2>1. PICK pc \in {"version", "key"} : sync' = [sync EXCEPT !.pc = pc, !.latest = l]
    BY <1>3, Zenon DEF Sync!Start
  <2>2. torn' = torn
    BY <1>3 DEF Sync!Start
  <2>3. l \in 0..registry /\ Sync!Stored(l)
    BY <2>1, LatestStoredIs DEF SyncIndInv
  <2>. HIDE DEF l
  <2>4. sync' = [pc |-> pc, latest |-> l, updates |-> sync.updates, opened |-> sync.opened,
                 lost |-> sync.lost, result |-> sync.result]
    BY <2>1 DEF SyncIndInv, CallInv
  <2>5. sync.updates = Sync!Empty /\ DOMAIN Sync!Empty = {}
    BY <1>1 DEF SyncIndInv, CallInv, Sync!Empty
  <2>6. CallInv'
    BY <1>1, <2>3, <2>4, <2>5 DEF SyncIndInv, CallInv, Sync!SyncPC
  <2>7. CollectedInv' /\ Sync!StoreIsRegistry'
    BY <1>1, <2>2, <2>4 DEF SyncIndInv, CollectedInv, Sync!StoreIsRegistry
  <2>8. Sync!NothingSkipped'
    BY <1>1, <2>3, <2>4 DEF Sync!NothingSkipped, Sync!Stored
  <2>. QED
    BY <2>6, <2>7, <2>8 DEF SyncIndInv
<1>. QED
  BY <1>2, <1>3

\* An answer is collected: the versions after the one that was reached.
LEMMA ChangesKeepsIndInv ==
    ASSUME Sync!NoEmptyVersion, SyncIndInv, NEW upto \in 0..MaxVersion, Sync!Changes(upto)
    PROVE  SyncIndInv'
<1>. DEFINE since == sync.latest
            changelog == Sync!Changelog(since, upto)
            new == Sync!NewUpdates(upto)
<1>1. /\ since \in Nat /\ upto \in Nat /\ since <= upto /\ upto <= registry /\ upto <= MaxVersion
      /\ registry \in 0..MaxVersion /\ MaxVersion \in Nat
  BY DEF Sync!NoEmptyVersion, SyncIndInv, CallInv, Sync!Changes
<1>2. /\ Len(changelog) = upto - since
      /\ \A w \in 1..(upto - since) : changelog[w] = Sync!ToSet(Sync!RecordsOf(since + w))
  BY <1>1, ChangelogIsRegistry
<1>3. UNCHANGED <<registry, store, torn>>
  BY DEF Sync!Changes, Sync!OnlySync, Sync!NoHelp
<1>4. since + Len(changelog) = upto
  BY <1>1, <1>2
<1>5. DOMAIN new = (since + 1)..upto /\ \A v \in (since + 1)..upto : new[v] = Sync!ToSet(Sync!RecordsOf(v))
  <2>1. new = [v \in (since + 1)..upto |-> changelog[v - since]]
    BY <1>4 DEF Sync!NewUpdates
  <2>2. ASSUME NEW v \in (since + 1)..upto
        PROVE  changelog[v - since] = Sync!ToSet(Sync!RecordsOf(v))
    <3>1. v - since \in 1..(upto - since) /\ since + (v - since) = v
      BY <1>1
    <3>. QED
      BY <1>2, <3>1
  <2>. QED
    BY <2>1, <2>2
<1>. HIDE DEF new
<1>6. Sync!Collected(upto) = Sync!Overridden(sync.updates, new)
  BY DEF Sync!Collected, new
<1>7. sync' = [pc |-> "version", latest |-> upto, updates |-> Sync!Overridden(sync.updates, new),
               opened |-> sync.opened, lost |-> sync.lost, result |-> sync.result]
  <2>1. sync' = [sync EXCEPT !.pc = "version", !.latest = since + Len(changelog), !.updates = Sync!Collected(upto)]
    BY DEF Sync!Changes
  <2>. QED
    BY <1>4, <1>6, <2>1 DEF SyncIndInv, CallInv
<1>. DEFINE all == Sync!Overridden(sync.updates, new)
<1>8. /\ DOMAIN all = DOMAIN sync.updates \cup (since + 1)..upto
      /\ \A v \in DOMAIN all : all[v] = Sync!ToSet(Sync!RecordsOf(v))
  BY <1>5 DEF Sync!Overridden, SyncIndInv, CollectedInv
<1>. HIDE DEF all, changelog
<1>9. 1..upto = 1..since \cup (since + 1)..upto
  BY <1>1
<1>10. CallInv'
  <2>1. DOMAIN all \subseteq 1..upto
    BY <1>8, <1>9 DEF SyncIndInv, CallInv
  <2>2. upto \in 0..registry
    BY <1>1
  <2>. QED
    BY <1>3, <1>7, <2>1, <2>2 DEF SyncIndInv, CallInv, Sync!SyncPC, all
<1>11. CollectedInv'
  BY <1>3, <1>7, <1>8 DEF SyncIndInv, CollectedInv, all
<1>12. Sync!NothingSkipped'
  BY <1>3, <1>7, <1>8, <1>9 DEF SyncIndInv, Sync!NothingSkipped, all
<1>13. Sync!StoreIsRegistry'
  BY <1>3, <1>7 DEF SyncIndInv, Sync!StoreIsRegistry
<1>. QED
  BY <1>10, <1>11, <1>12, <1>13 DEF SyncIndInv

LEMMA SyncOpenFileKeepsIndInv ==
    ASSUME Sync!NoEmptyVersion, SyncIndInv, NEW v \in Sync!Version, Sync!OpenFile(v)
    PROVE  SyncIndInv'
<1>1. v \in DOMAIN sync.updates /\ UNCHANGED <<registry, torn>>
  BY DEF Sync!OpenFile
<1>2. DOMAIN store' = DOMAIN store \cup {v} /\ store'[v] = {}
      /\ \A w \in DOMAIN store \ {v} : store'[w] = store[w]
  BY DEF Sync!OpenFile, Sync!Overridden, Sync!File
<1>3. sync' = [pc |-> sync.pc, latest |-> sync.latest, updates |-> sync.updates, opened |-> sync.opened \cup {v},
               lost |-> sync.lost, result |-> sync.result]
  BY DEF Sync!OpenFile, SyncIndInv, CallInv
<1>4. sync.latest \in 0..registry /\ registry \in Nat /\ DOMAIN sync.updates \subseteq 1..sync.latest
  BY DEF SyncIndInv, CallInv
<1>5. v \in 1..registry
  BY <1>1, <1>4
<1>6. CallInv'
  BY <1>1, <1>2, <1>3, <1>5 DEF SyncIndInv, CallInv
<1>7. CollectedInv' /\ Sync!NothingSkipped' /\ Sync!StoreIsRegistry'
  BY <1>1, <1>2, <1>3 DEF SyncIndInv, CollectedInv, Sync!NothingSkipped, Sync!StoreIsRegistry
<1>. QED
  BY <1>6, <1>7 DEF SyncIndInv

\* What was collected is in the file now.
LEMMA WriteFileKeepsIndInv ==
    ASSUME Sync!NoEmptyVersion, SyncIndInv, NEW v \in Sync!Version, Sync!WriteFile(v)
    PROVE  SyncIndInv'
<1>. DEFINE left == [w \in DOMAIN sync.updates \ {v} |-> sync.updates[w]]
<1>1. v \in sync.opened /\ v \in DOMAIN sync.updates /\ v \in DOMAIN store
      /\ torn' = torn \ {v} /\ UNCHANGED registry
  BY DEF Sync!WriteFile, SyncIndInv, CollectedInv
<1>2. /\ DOMAIN store' = DOMAIN store
      /\ \A w \in DOMAIN store : store'[w] = IF w = v THEN Sync!ToSet(Sync!RecordsOf(v)) ELSE store[w]
  BY <1>1 DEF Sync!WriteFile, Sync!Overridden, Sync!File, SyncIndInv, CollectedInv
<1>3. sync' = [pc |-> sync.pc, latest |-> sync.latest, updates |-> left, opened |-> sync.opened \ {v},
               lost |-> sync.lost, result |-> sync.result]
  BY DEF Sync!WriteFile, Sync!Done, SyncIndInv, CallInv
<1>4. DOMAIN left = DOMAIN sync.updates \ {v} /\ \A w \in DOMAIN left : left[w] = sync.updates[w]
  OBVIOUS
<1>. HIDE DEF left
<1>5. sync.pc \notin {"idle", "start"}
  BY <1>1 DEF SyncIndInv, CallInv, Sync!Empty
<1>6. CallInv'
  BY <1>1, <1>2, <1>3, <1>4, <1>5 DEF SyncIndInv, CallInv
<1>7. CollectedInv' /\ Sync!NothingSkipped'
  BY <1>1, <1>2, <1>3, <1>4, v \notin torn' DEF SyncIndInv, CollectedInv, Sync!NothingSkipped
<1>8. Sync!StoreIsRegistry'
  BY <1>1, <1>2, <1>3 DEF SyncIndInv, Sync!StoreIsRegistry
<1>. QED
  BY <1>6, <1>7, <1>8 DEF SyncIndInv

LEMMA SyncWriteFailsKeepsIndInv ==
    ASSUME Sync!NoEmptyVersion, SyncIndInv, NEW v \in Sync!Version, Sync!WriteFails(v)
    PROVE  SyncIndInv'
<1>. DEFINE left == [w \in DOMAIN sync.updates \ {v} |-> sync.updates[w]]
<1>1. v \in DOMAIN sync.updates \ sync.opened /\ UNCHANGED <<registry, store, torn>>
  BY DEF Sync!WriteFails
<1>2. sync' = [pc |-> sync.pc, latest |-> sync.latest, updates |-> left, opened |-> sync.opened,
               lost |-> sync.lost \cup {v}, result |-> sync.result]
  BY DEF Sync!WriteFails, SyncIndInv, CallInv
<1>3. DOMAIN left = DOMAIN sync.updates \ {v} /\ \A w \in DOMAIN left : left[w] = sync.updates[w]
  OBVIOUS
<1>. HIDE DEF left
<1>4. sync.pc \notin {"idle", "start"}
  BY <1>1 DEF SyncIndInv, CallInv, Sync!Empty
<1>5. CallInv'
  BY <1>1, <1>2, <1>3, <1>4 DEF SyncIndInv, CallInv
<1>6. CollectedInv' /\ Sync!NothingSkipped' /\ Sync!StoreIsRegistry'
  BY <1>1, <1>2, <1>3 DEF SyncIndInv, CollectedInv, Sync!NothingSkipped, Sync!StoreIsRegistry
<1>. QED
  BY <1>5, <1>6 DEF SyncIndInv

LEMMA SyncNextKeepsIndInv == Sync!NoEmptyVersion /\ SyncIndInv /\ [Sync!Next]_Sync!vars => SyncIndInv'
<1>. SUFFICES ASSUME Sync!NoEmptyVersion, SyncIndInv, [Sync!Next]_Sync!vars PROVE SyncIndInv'
  OBVIOUS
<1>0. {"none", "ok", "interrupted", "publicKey"} \subseteq Sync!Result
      /\ {"version", "writing", "changes"} \subseteq Sync!SyncPC \ {"idle", "start"}
  BY DEF Sync!Result, Sync!SyncPC
<1>1. CASE Sync!RegistryChanges
  BY <1>1, RegistryChangesKeepsIndInv
<1>2. CASE Sync!Call
  BY <1>2, CallKeepsIndInv
<1>3. CASE Sync!Start
  BY <1>3, StartKeepsIndInv
<1>4. CASE Sync!Interrupt
  BY <1>0, <1>4, ReturnKeepsIndInv DEF Sync!Interrupt
<1>5. CASE Sync!Query
  <2>1. CASE Sync!KeyFetched
    BY <1>0, <2>1, GoKeepsIndInv DEF Sync!KeyFetched, Sync!OnlySync
  <2>2. CASE Sync!KeyFails
    BY <1>0, <2>2, ReturnKeepsIndInv DEF Sync!KeyFails, Sync!NoHelp
  <2>3. CASE Sync!CaughtUp
    BY <1>0, <2>3, GoKeepsIndInv DEF Sync!CaughtUp, Sync!OnlySync, Sync!NoHelp
  <2>4. CASE Sync!NotCaughtUp
    BY <1>0, <2>4, GoKeepsIndInv DEF Sync!NotCaughtUp, Sync!OnlySync, Sync!NoHelp
  <2>5. ASSUME NEW upto \in 0..MaxVersion, Sync!Changes(upto)
        PROVE  SyncIndInv'
    BY <2>5, ChangesKeepsIndInv
  <2>. QED
    BY <1>5, <2>1, <2>2, <2>3, <2>4, <2>5 DEF Sync!Query
<1>6. CASE Sync!Writing
  <2>1. CASE Sync!AllWritten
    BY <1>0, <2>1, ReturnKeepsIndInv DEF Sync!AllWritten, Sync!OnlySync
  <2>2. ASSUME NEW v \in Sync!Version, Sync!OpenFile(v) \/ Sync!WriteFile(v) \/ Sync!WriteFails(v)
        PROVE  SyncIndInv'
    BY <2>2, SyncOpenFileKeepsIndInv, WriteFileKeepsIndInv, SyncWriteFailsKeepsIndInv
  <2>. QED
    BY <1>6, <2>1, <2>2 DEF Sync!Writing
<1>7. CASE Sync!Crash
  BY <1>0, <1>7, ReturnKeepsIndInv DEF Sync!Crash
<1>8. CASE UNCHANGED Sync!vars
  BY <1>8 DEF Sync!vars, SyncIndInv, CallInv, CollectedInv, Sync!NothingSkipped, Sync!StoreIsRegistry
<1>. QED
  BY <1>1, <1>2, <1>3, <1>4, <1>5, <1>6, <1>7, <1>8 DEF Sync!Next

-----------------------------------------------------------------------------
(* Theorems.                                                                 *)

\* However the answers were cut, whatever write failed or call was interrupted:
\* a whole file holds exactly the records of its version (registry_sync.rs:101-130).
THEOREM StoreHoldsRegistry == ASSUME Sync!NoEmptyVersion PROVE Sync!Spec => []Sync!StoreIsRegistry
<1>1. Sync!Init => SyncIndInv
  BY SyncInitIndInv
<1>2. SyncIndInv /\ [Sync!Next]_Sync!vars => SyncIndInv'
  BY SyncNextKeepsIndInv
<1>3. SyncIndInv => Sync!StoreIsRegistry
  BY DEF SyncIndInv
<1>. QED
  BY <1>1, <1>2, <1>3, PTL DEF Sync!Spec

\* Every version up to the one that the call has reached is in the store or
\* collected, or its write failed (registry_sync.rs:103-172).
THEOREM NoVersionSkipped == ASSUME Sync!NoEmptyVersion PROVE Sync!Spec => []Sync!NothingSkipped
<1>1. Sync!Init => SyncIndInv
  BY SyncInitIndInv
<1>2. SyncIndInv /\ [Sync!Next]_Sync!vars => SyncIndInv'
  BY SyncNextKeepsIndInv
<1>3. SyncIndInv => Sync!NothingSkipped
  BY DEF SyncIndInv
<1>. QED
  BY <1>1, <1>2, <1>3, PTL DEF Sync!Spec

LEMMA BoundsAreKept ==
    ASSUME BoundsAreNumbers, syncFailures \in 0..MaxSyncFailures, stops \in 0..MaxStops, [Sync!Next]_Sync!vars
    PROVE  syncFailures' \in 0..MaxSyncFailures /\ stops' \in 0..MaxStops
<1>1. MaxSyncFailures \in Nat /\ MaxStops \in Nat
  BY DEF BoundsAreNumbers
<1>2. \/ UNCHANGED <<syncFailures, stops>>
      \/ syncFailures < MaxSyncFailures /\ syncFailures' = syncFailures + 1 /\ UNCHANGED stops
      \/ stops < MaxStops /\ stops' = stops + 1 /\ UNCHANGED syncFailures
  BY DEF Sync!Next, Sync!vars, Sync!RegistryChanges, Sync!Call, Sync!Start, Sync!Interrupt, Sync!Query, Sync!KeyFetched, Sync!KeyFails, Sync!CaughtUp, Sync!NotCaughtUp,
         Sync!Changes, Sync!Writing, Sync!AllWritten, Sync!OpenFile, Sync!WriteFile, Sync!WriteFails, Sync!Crash, Sync!OnlySync, Sync!NoHelp
<1>. QED
  BY <1>1, <1>2

\* The type invariant: a file that was cut off is empty, any other holds records of
\* the registry.
THEOREM SyncTypes == ASSUME Sync!NoEmptyVersion, BoundsAreNumbers PROVE Sync!Spec => []Sync!TypeOK
<1>. DEFINE TypeInv == SyncIndInv /\ syncFailures \in 0..MaxSyncFailures /\ stops \in 0..MaxStops
<1>1. Sync!Init => TypeInv
  BY SyncInitIndInv DEF Sync!Init, BoundsAreNumbers
<1>2. TypeInv /\ [Sync!Next]_Sync!vars => TypeInv'
  BY SyncNextKeepsIndInv, BoundsAreKept
<1>3. TypeInv => Sync!TypeOK
  <2>. SUFFICES ASSUME TypeInv PROVE Sync!TypeOK
    OBVIOUS
  <2>1. \A v \in Sync!Version : Sync!ToSet(Sync!RecordsOf(v)) \in Sync!Content
    <3>1. ASSUME NEW v \in Sync!Version
          PROVE  Sync!ToSet(Sync!RecordsOf(v)) \in Sync!Content
      <4>1. Sync!RecordsOf(v) = [key \in 1..KeysIn[v] |-> <<v, key>>] /\ KeysIn[v] \in Nat
        BY DEF Sync!RecordsOf, Sync!NoEmptyVersion
      <4>2. \A key \in 1..KeysIn[v] : <<v, key>> \in Sync!Version \X Nat
        BY <4>1
      <4>. QED
        BY <4>1, <4>2 DEF Sync!ToSet, Sync!Content
    <3>. QED
      BY <3>1
  <2>2. 1..registry \subseteq Sync!Version /\ 1..sync.latest \subseteq Sync!Version
    BY DEF SyncIndInv, CallInv, Sync!Version, Sync!NoEmptyVersion
  <2>3. \A v \in DOMAIN store : store[v] \in Sync!Content
    <3>1. {} \in Sync!Content
      BY DEF Sync!Content
    <3>. QED
      BY <2>1, <2>2, <3>1 DEF SyncIndInv, CallInv, CollectedInv, Sync!StoreIsRegistry
  <2>4. \A v \in DOMAIN sync.updates : sync.updates[v] \in Sync!Content
    BY <2>1, <2>2 DEF SyncIndInv, CallInv, CollectedInv
  <2>. QED
    BY <2>3, <2>4 DEF Sync!TypeOK, SyncIndInv, CallInv, CollectedInv
<1>. QED
  BY <1>1, <1>2, <1>3, PTL DEF Sync!Spec


Shapes ==
    /\ DOMAIN loop = {"pc", "page", "todo", "opened", "answer"}
    /\ DOMAIN download = DownloadJob
    /\ loop.opened # None => loop.pc = "writing" /\ loop.opened \in loop.todo
    /\ loop.pc = "writing" => loop.answer = hash

\* What is not to be written any more and did not fail is in its file.
WrittenInv ==
    hash # None =>
      \A j \in DownloadJob \ unwritten : (loop.pc = "writing" => j \notin loop.todo) => download[j] = TargetsOf[hash][j]

DownloadIndInv == Shapes /\ WrittenInv

LEMMA DownloadInitIndInv == Download!Init => DownloadIndInv
BY DEF Download!Init, Download!Waiting, DownloadIndInv, Shapes, WrittenInv

\* Steps between which no file is open and nothing is written.
LEMMA QuietKeepsIndInv ==
    ASSUME DownloadIndInv, UNCHANGED <<hash, download, unwritten>>,
           \/ loop' = loop
           \/ /\ DOMAIN loop' = DOMAIN loop /\ loop'.opened = None /\ loop'.pc # "writing"
              /\ loop.pc = "writing" => loop.todo = {}
    PROVE  DownloadIndInv'
BY DEF DownloadIndInv, Shapes, WrittenInv

LEMMA AskKeepsIndInv ==
    ASSUME DownloadIndInv, Download!Ask
    PROVE  DownloadIndInv'
<1>1. CASE Download!IsNew(known)
  <2>. DEFINE new == [loop EXCEPT !.pc = "writing", !.todo = DownloadJob, !.answer = known]
  <2>1. loop' = new /\ hash' = known /\ UNCHANGED <<download, unwritten>> /\ loop.pc = "asking"
    BY <1>1 DEF Download!Ask
  <2>2. /\ DOMAIN new = DOMAIN loop /\ new.pc = "writing" /\ new.todo = DownloadJob /\ new.answer = known
        /\ new.opened = loop.opened
    BY DEF DownloadIndInv, Shapes
  <2>. HIDE DEF new
  <2>. QED
    BY <2>1, <2>2 DEF DownloadIndInv, Shapes, WrittenInv
<1>2. CASE ~Download!IsNew(known)
  <2>1. loop' = Download!Waiting /\ UNCHANGED <<hash, download, unwritten>> /\ loop.pc = "asking"
    BY <1>2 DEF Download!Ask
  <2>. QED
    BY <2>1, QuietKeepsIndInv DEF Download!Waiting, DownloadIndInv, Shapes
<1>. QED
  BY <1>1, <1>2

\* A file may be torn while it is still to be written.
LEMMA DownloadOpenFileKeepsIndInv ==
    ASSUME DownloadIndInv, NEW j \in DownloadJob, Download!OpenFile(j)
    PROVE  DownloadIndInv'
<1>. DEFINE new == [loop EXCEPT !.opened = j]
<1>1. /\ loop' = new /\ download' = [download EXCEPT ![j] = Torn] /\ UNCHANGED <<hash, unwritten>>
      /\ loop.pc = "writing" /\ j \in loop.todo
  BY DEF Download!OpenFile
<1>2. /\ DOMAIN new = DOMAIN loop /\ new.opened = j
      /\ new.pc = loop.pc /\ new.todo = loop.todo /\ new.answer = loop.answer
  BY DEF DownloadIndInv, Shapes
<1>. HIDE DEF new
<1>. QED
  BY <1>1, <1>2 DEF DownloadIndInv, Shapes, WrittenInv

LEMMA FillFileKeepsIndInv ==
    ASSUME DownloadIndInv, Download!FillFile
    PROVE  DownloadIndInv'
<1>. DEFINE j   == loop.opened
            new == [loop EXCEPT !.opened = None, !.todo = loop.todo \ {j}]
<1>1. /\ loop' = new /\ download' = [download EXCEPT ![j] = TargetsOf[loop.answer][j]]
      /\ hash' = hash /\ unwritten' = unwritten \ {j} /\ j # None
  BY DEF Download!FillFile
<1>2. /\ DOMAIN new = DOMAIN loop /\ new.opened = None
      /\ new.pc = loop.pc /\ new.todo = loop.todo \ {j} /\ new.answer = loop.answer
  BY DEF DownloadIndInv, Shapes
<1>3. loop.pc = "writing" /\ loop.answer = hash
  BY <1>1 DEF DownloadIndInv, Shapes
<1>. HIDE DEF new, j
<1>4. Shapes'
  BY <1>1, <1>2, <1>3 DEF DownloadIndInv, Shapes
<1>5. WrittenInv'
  <2>. SUFFICES ASSUME hash # None, NEW i \in DownloadJob \ unwritten', i \notin loop'.todo
                PROVE  download'[i] = TargetsOf[hash][i]
    BY <1>1, <1>2, <1>3 DEF WrittenInv
  <2>1. CASE i = j
    BY <1>1, <1>3, <2>1 DEF DownloadIndInv, Shapes
  <2>2. CASE i # j
    BY <1>1, <1>2, <1>3, <2>2 DEF DownloadIndInv, Shapes, WrittenInv
  <2>. QED
    BY <2>1, <2>2
<1>. QED
  BY <1>4, <1>5 DEF DownloadIndInv

LEMMA DownloadWriteFailsKeepsIndInv ==
    ASSUME DownloadIndInv, NEW j \in DownloadJob, Download!WriteFails(j)
    PROVE  DownloadIndInv'
<1>. DEFINE new == [loop EXCEPT !.opened = None, !.todo = loop.todo \ {j}]
<1>1. /\ loop' = new /\ UNCHANGED <<hash, download>> /\ unwritten' = unwritten \cup {j}
      /\ loop.pc = "writing"
  BY DEF Download!WriteFails
<1>2. /\ DOMAIN new = DOMAIN loop /\ new.opened = None
      /\ new.pc = loop.pc /\ new.todo = loop.todo \ {j} /\ new.answer = loop.answer
  BY DEF DownloadIndInv, Shapes
<1>. HIDE DEF new
<1>. QED
  BY <1>1, <1>2 DEF DownloadIndInv, Shapes, WrittenInv

LEMMA DownloadNextKeepsIndInv ==
    ASSUME DownloadIndInv, [Download!Next]_Download!vars
    PROVE  DownloadIndInv'
<1>1. CASE \/ Download!KnownChanges \/ Download!NamesFail \/ Download!NamesRecover
         \/ Download!Shutdown \/ UNCHANGED Download!vars
  BY <1>1, QuietKeepsIndInv DEF Download!KnownChanges, Download!NamesFail, Download!NamesRecover,
     Download!Shutdown, Download!vars
<1>2. CASE Download!Tick
  <2>. DEFINE new == [loop EXCEPT !.pc = IF Pages = 0 THEN "asking" ELSE "paging"]
  <2>1. loop' = new /\ UNCHANGED <<hash, download, unwritten>> /\ loop.pc = "waiting"
    BY <1>2 DEF Download!Tick, Download!OnlyLoop
  <2>2. DOMAIN new = DOMAIN loop /\ new.pc # "writing" /\ new.opened = None
    BY <2>1 DEF DownloadIndInv, Shapes
  <2>. QED
    BY <2>1, <2>2, QuietKeepsIndInv
<1>3. CASE Download!NextPage
  <2>1. UNCHANGED <<hash, download, unwritten>> /\ loop.pc = "paging"
    BY <1>3 DEF Download!NextPage, Download!OnlyLoop
  <2>2. DOMAIN loop' = DOMAIN loop /\ loop'.pc # "writing" /\ loop'.opened = None
    BY <1>3, <2>1 DEF Download!NextPage, DownloadIndInv, Shapes
  <2>. QED
    BY <2>1, <2>2, QuietKeepsIndInv
<1>4. CASE Download!AskFails \/ Download!AllWritten
  <2>1. UNCHANGED <<hash, download, unwritten>> /\ loop' = Download!Waiting /\ (loop.pc = "writing" => loop.todo = {})
    BY <1>4 DEF Download!AskFails, Download!AllWritten, Download!OnlyLoop
  <2>. QED
    BY <2>1, QuietKeepsIndInv DEF Download!Waiting, DownloadIndInv, Shapes
<1>5. CASE Download!Stop
  <2>. DEFINE new == [loop EXCEPT !.pc = "exited"]
  <2>1. loop' = new /\ UNCHANGED <<hash, download, unwritten>> /\ loop.pc = "waiting"
    BY <1>5 DEF Download!Stop
  <2>2. DOMAIN new = DOMAIN loop /\ new.pc = "exited" /\ new.opened = None
    BY <2>1 DEF DownloadIndInv, Shapes
  <2>. QED
    BY <2>1, <2>2, QuietKeepsIndInv
<1>6. CASE Download!Restart
  BY <1>6 DEF Download!Restart, Download!HashAtStart, Download!Waiting, DownloadIndInv, Shapes, WrittenInv
<1>. QED
  BY <1>1, <1>2, <1>3, <1>4, <1>5, <1>6, AskKeepsIndInv, DownloadOpenFileKeepsIndInv, FillFileKeepsIndInv,
     DownloadWriteFailsKeepsIndInv DEF Download!Next, Download!LoopStep

\* For any jobs and answers, failures, crashes and restarts: while the loop waits, its
\* hash stands for what is in every file whose last write did not fail
\* (downloader_loop.rs:87-91).
THEOREM HashStands == Download!Spec => []Download!HashStandsForFiles
<1>1. Download!Init => DownloadIndInv
  BY DownloadInitIndInv
<1>2. DownloadIndInv /\ [Download!Next]_Download!vars => DownloadIndInv'
  BY DownloadNextKeepsIndInv
<1>3. DownloadIndInv => Download!HashStandsForFiles
  BY DEF DownloadIndInv, WrittenInv, Download!HashStandsForFiles
<1>. QED
  BY <1>1, <1>2, <1>3, PTL DEF Download!Spec

-----------------------------------------------------------------------------
(* Downloader: types.                                                        *)

LoopState == [pc : Download!LoopPC, page : 0..Pages, todo : SUBSET DownloadJob, opened : DownloadJob \cup {None},
              answer : Reply \cup {None}]

DownloadTypeInv ==
    /\ known \in Reply /\ serving \in BOOLEAN /\ hash \in Reply \cup {None} /\ unwritten \subseteq DownloadJob
    /\ owner \in {"running", "stopping", "exited"}
    /\ loop \in LoopState

LEMMA DownloadNextTypes ==
    ASSUME Pages \in Nat, DownloadIndInv, DownloadTypeInv, [Download!Next]_Download!vars
    PROVE  DownloadTypeInv'
<1>. USE DEF DownloadTypeInv
<1>1. Download!Waiting \in LoopState
  BY DEF Download!Waiting, LoopState, Download!LoopPC
<1>2. CASE \/ Download!KnownChanges \/ Download!NamesFail \/ Download!NamesRecover
         \/ Download!Shutdown \/ UNCHANGED Download!vars
  BY <1>2 DEF Download!KnownChanges, Download!NamesFail, Download!NamesRecover, Download!Shutdown, Download!vars
<1>3. CASE Download!Tick \/ Download!NextPage
  <2>1. loop' \in LoopState
    BY <1>3 DEF Download!Tick, Download!NextPage, LoopState, Download!LoopPC
  <2>. QED
    BY <1>3, <2>1 DEF Download!Tick, Download!NextPage, Download!OnlyLoop
<1>4. CASE Download!AskFails \/ Download!AllWritten \/ Download!Restart
  BY <1>1, <1>4 DEF Download!AskFails, Download!AllWritten, Download!Restart, Download!OnlyLoop, Download!HashAtStart
<1>5. CASE Download!Ask
  <2>1. loop' \in LoopState
    BY <1>1, <1>5 DEF Download!Ask, LoopState, Download!LoopPC
  <2>2. hash' \in Reply \cup {None}
    BY <1>5 DEF Download!Ask
  <2>. QED
    BY <1>5, <2>1, <2>2 DEF Download!Ask
<1>6. ASSUME NEW j \in DownloadJob, Download!OpenFile(j)
      PROVE  DownloadTypeInv'
  <2>1. loop' \in LoopState
    BY <1>6 DEF Download!OpenFile, LoopState
  <2>. QED
    BY <1>6, <2>1 DEF Download!OpenFile
<1>7. CASE Download!FillFile
  <2>1. loop' \in LoopState
    BY <1>7 DEF Download!FillFile, LoopState
  <2>2. unwritten' \subseteq DownloadJob
    BY <1>7 DEF Download!FillFile
  <2>. QED
    BY <1>7, <2>1, <2>2 DEF Download!FillFile
<1>8. ASSUME NEW j \in DownloadJob, Download!WriteFails(j)
      PROVE  DownloadTypeInv'
  <2>1. loop' \in LoopState
    BY <1>8 DEF Download!WriteFails, LoopState
  <2>. QED
    BY <1>8, <2>1 DEF Download!WriteFails
<1>9. CASE Download!Stop
  <2>1. loop' \in LoopState
    BY <1>9 DEF Download!Stop, LoopState, Download!LoopPC
  <2>. QED
    BY <1>9, <2>1 DEF Download!Stop
<1>. QED
  BY <1>2, <1>3, <1>4, <1>5, <1>6, <1>7, <1>8, <1>9 DEF Download!Next, Download!LoopStep

\* The loop's state keeps its type through failures, crashes and restarts.
THEOREM DownloadTypes == ASSUME Pages \in Nat PROVE Download!Spec => []Download!TypeOK
<1>1. Download!Init => DownloadIndInv /\ DownloadTypeInv
  <2>1. Download!Init => DownloadTypeInv
    BY DEF Download!Init, Download!Waiting, DownloadTypeInv, LoopState, Download!LoopPC
  <2>. QED
    BY <2>1, DownloadInitIndInv
<1>2. DownloadIndInv /\ DownloadTypeInv /\ [Download!Next]_Download!vars => (DownloadIndInv /\ DownloadTypeInv)'
  BY DownloadNextKeepsIndInv, DownloadNextTypes
<1>3. DownloadTypeInv => Download!TypeOK
  BY DEF DownloadTypeInv, LoopState, Download!TypeOK
<1>. QED
  BY <1>1, <1>2, <1>3, PTL DEF Download!Spec


-----------------------------------------------------------------------------
(* The least and the greatest number, as the module sees them.               *)

LEMMA LogsLeast ==
    ASSUME NEW S \in SUBSET Nat, S # {}
    PROVE  Logs!Min(S) \in S /\ \A y \in S : Logs!Min(S) <= y
  BY MinType DEF Logs!Min, Min

LEMMA LogsGreatest ==
    ASSUME NEW n \in Nat, NEW S \in SUBSET (0..n), S # {}
    PROVE  Logs!Max(S) \in S /\ \A y \in S : y <= Logs!Max(S)
  BY MaxTypeFromZero DEF Logs!Max, Max

LEMMA LogsCardinality ==
    ASSUME NEW S
    PROVE  Logs!Cardinality(S) = Cardinality(S)
  BY DEF Logs!Cardinality, Cardinality

LEMMA LogsIntervalSize ==
    ASSUME NEW a \in Int, NEW b \in Int
    PROVE  Logs!Cardinality(a..b) = IF a > b THEN 0 ELSE b - a + 1
<1>1. Cardinality(a..b) = IF a > b THEN 0 ELSE b - a + 1
  BY FS_Interval
<1>. QED
  BY <1>1, LogsCardinality


-----------------------------------------------------------------------------
(* canister-log-fetcher.                                                     *)

LogEntry == [time : Nat \ {0}, counter : Nat \cup {None}]

\* Entries are numbered, and come in the order of their times.
LogInOrder ==
    /\ log \in Seq(LogEntry)
    /\ \A i \in 1..Len(log) : log[i].counter = i - 1
    /\ \A i, j \in 1..Len(log) : i <= j => log[i].time <= log[j].time

\* Indices of entries, each after the one before.
Rising(s) == s \in Seq(1..Len(log)) /\ \A i, j \in 1..Len(s) : i < j => s[i] < s[j]

\* The cursor is the entry that was printed last.
CursorIsLast ==
    /\ cursor.time \in Nat
    /\ out # <<>> => cursor = log[out[Len(out)]]

CanisterInv ==
    fetcher = "canister" =>
      /\ oldest \in Nat /\ 1 <= oldest /\ oldest <= Len(log) + 1
      /\ log \in Seq(LogEntry)
      /\ Logs!Counted => LogInOrder /\ Rising(out) /\ CursorIsLast

LEMMA FunctionIsSequence ==
    ASSUME NEW K \in Nat, NEW T, NEW f \in [1..K -> T]
    PROVE  f \in Seq(T) /\ Len(f) = K
  OBVIOUS

\* The entries from a time on are the last ones.
LEMMA AnswerIsRising ==
    ASSUME NEW time \in Nat, LogInOrder, oldest \in Nat, 1 <= oldest, oldest <= Len(log) + 1
    PROVE  /\ Rising(Logs!Answer(time))
           /\ \A i \in oldest..Len(log) :
                log[i].time >= time => \E k \in 1..Len(Logs!Answer(time)) : Logs!Answer(time)[k] = i
           /\ \A k \in 1..Len(Logs!Answer(time)) : Logs!Answer(time)[k] >= oldest
<1>. DEFINE N == Len(log)
            early == {i \in oldest..N : log[i].time < time} \cup {oldest - 1}
            late == {i \in oldest..N : log[i].time >= time}
            answer == Logs!Answer(time)
<1>1. N \in Nat /\ \A i \in 1..N : log[i].time \in Nat
  <2>1. N \in Nat /\ \A i \in 1..N : log[i] \in LogEntry
    BY DEF LogInOrder
  <2>. QED
    BY <2>1 DEF LogEntry
<1>2. \A i, j \in 1..N : i <= j => log[i].time <= log[j].time
  BY DEF LogInOrder
<1>3. early \in SUBSET (0..N) /\ early # {}
  BY <1>1
<1>. PICK m : m = Logs!Max(early)
  OBVIOUS
<1>4. m \in early /\ \A y \in early : y <= m
  BY <1>1, <1>3, LogsGreatest
<1>5. m \in Nat /\ m >= oldest - 1 /\ m <= N
  BY <1>1, <1>4
<1>6. late = (m + 1)..N
  <2>1. ASSUME NEW i \in late
        PROVE  i \in (m + 1)..N
    <3>1. i \in 1..N /\ log[i].time >= time /\ i >= oldest
      BY <1>1
    <3>2. CASE m \in oldest..N /\ log[m].time < time
      <4>1. m \in 1..N
        BY <3>2
      <4>2. ~(i <= m)
        BY <1>1, <1>2, <3>1, <3>2, <4>1
      <4>. QED
        BY <1>5, <3>1, <4>2
    <3>3. CASE m = oldest - 1
      BY <1>5, <3>1, <3>3
    <3>. QED
      BY <1>4, <3>2, <3>3
  <2>2. ASSUME NEW i \in (m + 1)..N
        PROVE  i \in late
    <3>1. i \in oldest..N /\ i > m /\ i \in 1..N
      BY <1>1, <1>5
    <3>2. i \notin early
      BY <1>4, <1>5, <3>1
    <3>. QED
      BY <1>1, <3>1, <3>2
  <2>. QED
    BY <2>1, <2>2
<1>7. Logs!Cardinality(late) = N - m
  <2>. HIDE DEF early, late, N, answer
  <2>. PICK a \in Int : a = m + 1
    BY <1>5
  <2>1. Logs!Cardinality(a..N) = IF a > N THEN 0 ELSE N - a + 1
    <3>1. a \in Int /\ N \in Int
      BY <1>1
    <3>. QED
      BY <3>1, LogsIntervalSize, Zenon
  <2>2. Logs!Cardinality(a..N) = N - m
    BY <1>1, <1>5, <2>1
  <2>. QED
    BY <1>6, <2>2
<1>8. answer = [k \in 1..(N - m) |-> m + k]
  BY <1>7 DEF Logs!Answer
<1>. HIDE DEF early, answer, late, N
<1>9. \A k \in 1..(N - m) : m + k \in 1..N /\ m + k >= oldest
  BY <1>1, <1>5
<1>10. answer \in Seq(1..N) /\ Len(answer) = N - m /\ \A k \in 1..(N - m) : answer[k] = m + k
  <2>. PICK K \in Nat : K = N - m
    BY <1>1, <1>5
  <2>1. answer = [k \in 1..K |-> m + k] /\ \A k \in 1..K : m + k \in 1..N
    BY <1>8, <1>9
  <2>2. answer \in [1..K -> 1..N] /\ \A k \in 1..K : answer[k] = m + k
    BY <2>1
  <2>3. answer \in Seq(1..N) /\ Len(answer) = K
    BY <2>2, FunctionIsSequence
  <2>. QED
    BY <2>2, <2>3
<1>11. \A i, j \in 1..(N - m) : i < j => answer[i] < answer[j]
  BY <1>5, <1>10
<1>12. \A i \in late : i - m \in 1..(N - m) /\ answer[i - m] = i
  <2>1. ASSUME NEW i \in late
        PROVE  i - m \in 1..(N - m) /\ m + (i - m) = i
    BY <1>1, <1>5, <1>6
  <2>. QED
    BY <1>10, <2>1
<1>13. \A i \in late : \E k \in 1..Len(answer) : answer[k] = i
  BY <1>10, <1>12
<1>14. Rising(answer)
  BY <1>10, <1>11 DEF Rising, N
<1>15. \A k \in 1..Len(answer) : answer[k] >= oldest
  BY <1>9, <1>10
<1>. QED
  BY <1>13, <1>14, <1>15 DEF answer, late, N

\* What is printed next comes after what was printed last.
LEMMA UnseenIsNew ==
    ASSUME LogInOrder, Rising(out), CursorIsLast, oldest \in Nat, 1 <= oldest, oldest <= Len(log) + 1
    PROVE  /\ Rising(Logs!Unseen(Logs!Answer(cursor.time)))
           /\ out # <<>> => \A k \in 1..Len(Logs!Unseen(Logs!Answer(cursor.time))) :
                              out[Len(out)] < Logs!Unseen(Logs!Answer(cursor.time))[k]
<1>. DEFINE answer == Logs!Answer(cursor.time)
            K == Len(answer)
            at == {k \in 1..K : log[answer[k]] = cursor}
            unseen == Logs!Unseen(answer)
            N == Len(log)
            last == out[Len(out)]
<1>1. /\ Rising(answer)
      /\ \A i \in oldest..N : log[i].time >= cursor.time => \E k \in 1..K : answer[k] = i
      /\ \A k \in 1..K : answer[k] >= oldest
  BY AnswerIsRising DEF CursorIsLast
<1>2. /\ answer \in Seq(1..N) /\ K \in Nat /\ N \in Nat
      /\ \A i, j \in 1..K : i < j => answer[i] < answer[j]
  <2>. HIDE DEF answer
  <2>1. answer \in Seq(1..N) /\ \A i, j \in 1..K : i < j => answer[i] < answer[j]
    BY <1>1 DEF Rising
  <2>2. log \in Seq(LogEntry)
    BY DEF LogInOrder
  <2>. QED
    BY <2>1, <2>2
<1>3. unseen = IF at = {} THEN answer ELSE SubSeq(answer, Logs!Min(at) + 1, K)
  <2>1. DOMAIN answer = 1..K
    BY <1>2
  <2>. QED
    BY <2>1 DEF Logs!Unseen
<1>4. out # <<>> => last \in 1..N /\ cursor = log[last]
  BY DEF Rising, CursorIsLast
<1>5. \A i, j \in 1..N : log[i] = log[j] => i = j
  <2>1. ASSUME NEW i \in 1..N, NEW j \in 1..N, log[i] = log[j]
        PROVE  i = j
    <3>1. log[i].counter = i - 1 /\ log[j].counter = j - 1
      BY DEF LogInOrder
    <3>2. i - 1 = j - 1
      BY <2>1, <3>1
    <3>. QED
      BY <3>2
  <2>. QED
    BY <2>1
<1>6. \A k \in 1..K : answer[k] \in 1..N
  BY <1>2
<1>. HIDE DEF answer, K, N, last, unseen
<1>7. CASE at = {}
  <2>1. unseen = answer
    BY <1>3, <1>7
  <2>2. ASSUME out # <<>>
        PROVE  last < oldest
    <3>1. last \in 1..N /\ cursor = log[last]
      BY <1>4, <2>2
    <3>2. log[last].time >= cursor.time
      BY <3>1 DEF CursorIsLast
    <3>3. ~(last >= oldest)
      <4>. SUFFICES ASSUME last >= oldest PROVE FALSE
        OBVIOUS
      <4>1. last \in oldest..N
        BY <3>1
      <4>2. PICK k \in 1..K : answer[k] = last
        BY <1>1, <3>2, <4>1
      <4>3. k \in at
        BY <3>1, <4>2
      <4>. QED
        BY <1>7, <4>3
    <3>. QED
      BY <3>1, <3>3
  <2>3. ASSUME out # <<>>, NEW k \in 1..K
        PROVE  last < answer[k]
    <3>1. last \in 1..N /\ last < oldest /\ answer[k] >= oldest /\ answer[k] \in 1..N
      BY <1>1, <1>4, <1>6, <2>2, <2>3
    <3>. QED
      BY <3>1
  <2>. QED
    BY <1>1, <2>1, <2>3 DEF answer, unseen, K, last
<1>8. CASE at # {}
  <2>1. at \in SUBSET Nat
    BY <1>2
  <2>. PICK m : m = Logs!Min(at)
    OBVIOUS
  <2>2. m \in at
    BY <1>8, <2>1, LogsLeast
  <2>3. m \in 1..K /\ log[answer[m]] = cursor
    BY <2>2
  <2>. HIDE DEF at
  <2>4. unseen = SubSeq(answer, m + 1, K)
    BY <1>3, <1>8
  <2>5. \A i \in (m + 1)..K : answer[i] \in 1..N
    BY <1>2, <1>6, <2>3
  <2>6. /\ unseen \in Seq(1..N)
        /\ Len(unseen) = IF m + 1 <= K THEN K - (m + 1) + 1 ELSE 0
        /\ \A i \in 1..(K - (m + 1) + 1) : unseen[i] = answer[m + 1 + i - 1]
    <3>1. m + 1 \in Int /\ K \in Int
      BY <1>2, <2>3
    <3>. QED
      BY <2>4, <2>5, <3>1, SubSeqProperties
  <2>7. Len(unseen) = K - m /\ K - m \in Nat
    <3>1. K \in Nat /\ m \in Nat /\ 1 <= m /\ m <= K
      BY <1>2, <2>3
    <3>2. K - (m + 1) + 1 = K - m /\ (m + 1 <= K \/ K - m = 0) /\ K - m \in Nat
      BY <3>1
    <3>. QED
      BY <2>6, <3>1, <3>2
  <2>8. \A i \in 1..(K - m) : unseen[i] = answer[m + i] /\ m + i \in 1..K /\ m < m + i
    <3>1. ASSUME NEW i \in 1..(K - m)
          PROVE  i \in 1..(K - (m + 1) + 1) /\ m + 1 + i - 1 = m + i /\ m + i \in 1..K /\ m < m + i
      <4>1. K \in Nat /\ m \in Nat /\ 1 <= m /\ m <= K /\ i \in Nat /\ 1 <= i /\ i <= K - m
        BY <1>2, <2>3, <3>1
      <4>2. i <= K - (m + 1) + 1 /\ m + 1 + i - 1 = m + i /\ m + i <= K /\ m < m + i
        BY <4>1
      <4>. QED
        BY <4>1, <4>2
    <3>. QED
      BY <2>6, <3>1
  <2>9. \A i, j \in 1..(K - m) : i < j => unseen[i] < unseen[j]
    <3>1. ASSUME NEW i \in 1..(K - m), NEW j \in 1..(K - m), i < j
          PROVE  unseen[i] < unseen[j]
      <4>1. m + i < m + j /\ m + i \in 1..K /\ m + j \in 1..K
        BY <2>3, <2>8, <3>1
      <4>2. answer[m + i] < answer[m + j]
        BY <1>2, <4>1
      <4>. QED
        BY <2>8, <4>2
    <3>. QED
      BY <3>1
  <2>10. out # <<>> => answer[m] = last
    BY <1>4, <1>5, <1>6, <2>3
  <2>11. \A k \in 1..(K - m) : answer[m] < unseen[k]
    BY <1>2, <2>3, <2>8
  <2>12. Rising(unseen)
    BY <2>6, <2>7, <2>9 DEF Rising, N
  <2>. QED
    BY <2>7, <2>10, <2>11, <2>12 DEF unseen, answer, last
<1>. QED
  BY <1>7, <1>8

\* It is printed behind it.
LEMMA RisingGoesOn ==
    ASSUME Rising(out), NEW s, Rising(s), out # <<>> => \A k \in 1..Len(s) : out[Len(out)] < s[k],
           Len(log) \in Nat
    PROVE  /\ Rising(out \o s)
           /\ Len(out \o s) = Len(out) + Len(s)
           /\ s # <<>> => (out \o s)[Len(out \o s)] = s[Len(s)]
           /\ s = <<>> => out \o s = out
<1>. PICK N \in Nat : N = Len(log)
  OBVIOUS
<1>1. out \in Seq(1..N) /\ s \in Seq(1..N)
  BY DEF Rising
<1>. PICK L \in Nat : L = Len(out)
  BY <1>1
<1>. PICK M \in Nat : M = Len(s)
  BY <1>1
<1>. DEFINE r == out \o s
<1>2. r \in Seq(1..N) /\ Len(r) = L + M /\ \A i \in 1..(L + M) : r[i] = IF i <= L THEN out[i] ELSE s[i - L]
  BY <1>1, ConcatProperties
<1>3. s = <<>> => r = out
  BY <1>1
<1>. HIDE DEF r
<1>4. /\ \A i \in 1..L : out[i] \in 1..N
      /\ \A i \in 1..M : s[i] \in 1..N
      /\ \A i, j \in 1..L : i < j => out[i] < out[j]
      /\ \A i, j \in 1..M : i < j => s[i] < s[j]
  BY <1>1 DEF Rising
<1>5. \A i \in 1..L, k \in 1..M : out[i] < s[k]
  <2>1. ASSUME NEW i \in 1..L, NEW k \in 1..M
        PROVE  out[i] < s[k]
    <3>1. out # <<>> /\ L \in 1..L
      BY <1>1
    <3>2. out[L] < s[k]
      BY <3>1
    <3>3. i = L \/ out[i] < out[L]
      BY <1>4, <3>1
    <3>4. out[i] \in 1..N /\ out[L] \in 1..N /\ s[k] \in 1..N
      BY <1>4, <3>1
    <3>. QED
      BY <3>2, <3>3, <3>4
  <2>. QED
    BY <2>1
<1>6. ASSUME NEW i \in 1..(L + M), NEW j \in 1..(L + M), i < j
      PROVE  r[i] < r[j]
  <2>1. CASE j <= L
    <3>1. i \in 1..L /\ j \in 1..L /\ r[i] = out[i] /\ r[j] = out[j]
      BY <1>2, <1>6, <2>1
    <3>. QED
      BY <1>4, <1>6, <3>1
  <2>2. CASE i <= L /\ ~(j <= L)
    <3>1. i \in 1..L /\ j - L \in 1..M /\ r[i] = out[i] /\ r[j] = s[j - L]
      BY <1>2, <2>2
    <3>. QED
      BY <1>5, <3>1
  <2>3. CASE ~(i <= L)
    <3>1. ~(j <= L) /\ i - L \in 1..M /\ j - L \in 1..M /\ i - L < j - L
      BY <1>6, <2>3
    <3>2. r[i] = s[i - L] /\ r[j] = s[j - L]
      BY <1>2, <2>3, <3>1
    <3>. QED
      BY <1>4, <3>1, <3>2
  <2>. QED
    BY <1>6, <2>1, <2>2, <2>3
<1>7. Rising(r)
  BY <1>2, <1>6 DEF Rising
<1>8. ASSUME s # <<>>
      PROVE  r[L + M] = s[M]
  <2>1. M >= 1
    BY <1>1, <1>8
  <2>2. L + M \in 1..(L + M) /\ ~(L + M <= L) /\ (L + M) - L = M
    BY <2>1
  <2>. QED
    BY <1>2, <2>2
<1>. QED
  BY <1>2, <1>3, <1>7, <1>8 DEF r

LEMMA CanisterStep ==
    ASSUME CanisterInv, [Logs!Next]_Logs!vars
    PROVE  CanisterInv'
<1>. SUFFICES ASSUME fetcher' = "canister" PROVE CanisterInv'
  BY DEF CanisterInv
<1>0. fetcher = "canister"
  BY DEF Logs!Next, Logs!Write, Logs!Drop, Logs!StartJournal, Logs!FetchJournal, Logs!FetchErrorPage, Logs!StopJournal, Logs!WriteCursor, Logs!Crash,
         Logs!FetchCanister, Logs!RestartCanister, Logs!vars
<1>. PICK N \in Nat : N = Len(log)
  BY <1>0 DEF CanisterInv
<1>1. /\ oldest \in Nat /\ 1 <= oldest /\ oldest <= N + 1
      /\ log \in Seq(LogEntry)
      /\ Logs!Counted => LogInOrder /\ Rising(out) /\ CursorIsLast
  BY <1>0 DEF CanisterInv
<1>2. CASE Logs!Drop
  <2>1. UNCHANGED <<log, cursor, out>> /\ oldest' = oldest + 1 /\ oldest <= N
    BY <1>2 DEF Logs!Drop
  <2>2. oldest' \in Nat /\ 1 <= oldest' /\ oldest' <= N + 1
    BY <1>1, <2>1
  <2>. QED
    BY <1>1, <2>1, <2>2 DEF CanisterInv, Logs!Counted, LogInOrder, Rising, CursorIsLast
<1>3. CASE Logs!Write
  <2>. PICK newRound \in BOOLEAN, numbered \in BOOLEAN :
              LET time == IF log = <<>> THEN 1 ELSE Logs!Last(log).time + IF newRound THEN 1 ELSE 0
              IN  log' = Append(log, [time |-> time, counter |-> IF numbered THEN Len(log) ELSE None])
    BY <1>0, <1>3 DEF Logs!Write
  <2>. PICK t : t = IF log = <<>> THEN 1 ELSE log[N].time + IF newRound THEN 1 ELSE 0
    OBVIOUS
  <2>. PICK c : c = IF numbered THEN N ELSE None
    OBVIOUS
  <2>1. log' = Append(log, [time |-> t, counter |-> c])
    BY DEF Logs!Last
  <2>2. UNCHANGED <<oldest, cursor, out>>
    BY <1>3 DEF Logs!Write
  <2>3. t \in Nat \ {0} /\ \A i \in 1..N : i = N => log[i].time <= t
    <3>1. CASE log = <<>>
      <4>1. N = 0
        BY <3>1
      <4>. QED
        BY <3>1, <4>1
    <3>2. CASE log # <<>>
      <4>1. N \in 1..N /\ log[N] \in LogEntry
        BY <1>1, <3>2
      <4>2. log[N].time \in Nat \ {0}
        BY <4>1 DEF LogEntry
      <4>. QED
        BY <3>2, <4>2
    <3>. QED
      BY <3>1, <3>2
  <2>4. c \in Nat \cup {None}
    OBVIOUS
  <2>. PICK e \in LogEntry : e = [time |-> t, counter |-> c]
    BY <2>3, <2>4 DEF LogEntry
  <2>5. /\ log' \in Seq(LogEntry) /\ Len(log') = N + 1
        /\ (\A i \in 1..N : log'[i] = log[i]) /\ log'[N + 1] = e
    BY <1>1, <2>1, AppendProperties
  <2>6. e.time = t /\ e.counter = c
    OBVIOUS
  <2>7. \A i \in 1..(N + 1) : i \in 1..N \/ i = N + 1
    OBVIOUS
  <2>8. ASSUME Logs!Counted'
        PROVE  (LogInOrder /\ Rising(out) /\ CursorIsLast)'
    <3>1. \A i \in 1..(N + 1) : log'[i].counter # None
      BY <2>5, <2>8 DEF Logs!Counted
    <3>2. Logs!Counted
      BY <1>1, <2>5, <3>1 DEF Logs!Counted
    <3>3. LogInOrder /\ Rising(out) /\ CursorIsLast
      BY <1>1, <3>2
    <3>4. c = N
      <4>1. log'[N + 1].counter = c
        BY <2>5, <2>6
      <4>2. c # None
        BY <3>1, <4>1
      <4>. QED
        BY <4>2
    <3>5. \A i \in 1..(N + 1) : log'[i].counter = i - 1
      <4>1. \A i \in 1..N : log'[i].counter = i - 1
        BY <2>5, <3>3 DEF LogInOrder
      <4>2. log'[N + 1].counter = (N + 1) - 1
        BY <2>5, <2>6, <3>4
      <4>. QED
        BY <2>7, <4>1, <4>2
    <3>6. ASSUME NEW i \in 1..N
          PROVE  log[i].time <= t
      <4>1. N \in 1..N /\ i <= N /\ log[i] \in LogEntry
            /\ log[N] \in LogEntry
        BY <1>1
      <4>2. log[i].time <= log[N].time /\ log[N].time <= t /\ log[i].time \in Nat /\ log[N].time \in Nat
        BY <2>3, <3>3, <4>1 DEF LogInOrder, LogEntry
      <4>. QED
        BY <2>3, <4>2
    <3>7. \A i, j \in 1..(N + 1) : i <= j => log'[i].time <= log'[j].time
      <4>1. ASSUME NEW i \in 1..(N + 1), NEW j \in 1..(N + 1), i <= j
            PROVE  log'[i].time <= log'[j].time
        <5>1. CASE i \in 1..N /\ j \in 1..N
          BY <2>5, <3>3, <4>1, <5>1 DEF LogInOrder
        <5>2. CASE i \in 1..N /\ j = N + 1
          BY <2>5, <2>6, <3>6, <5>2
        <5>3. CASE i = N + 1 /\ j = N + 1
          BY <2>3, <2>5, <2>6, <5>3
        <5>. QED
          BY <2>7, <4>1, <5>1, <5>2, <5>3
      <4>. QED
        BY <4>1
    <3>8. LogInOrder'
      <4>. DEFINE M == Len(log')
      <4>1. M = N + 1
        BY <2>5
      <4>2. log' \in Seq(LogEntry) /\ (\A i \in 1..M : log'[i].counter = i - 1)
            /\ \A i, j \in 1..M : i <= j => log'[i].time <= log'[j].time
        BY <2>5, <3>5, <3>7, <4>1
      <4>. QED
        BY <4>2 DEF LogInOrder
    <3>9. out \in Seq(1..N) /\ \A i, j \in 1..Len(out) : i < j => out[i] < out[j]
      BY <3>3 DEF Rising
    <3>10. out \in Seq(1..(N + 1))
      <4>1. 1..N \subseteq 1..(N + 1)
        OBVIOUS
      <4>. QED
        BY <3>9, <4>1
    <3>11. Rising(out)'
      BY <2>2, <2>5, <3>9, <3>10 DEF Rising
    <3>12. CursorIsLast'
      <4>1. out # <<>> => out[Len(out)] \in 1..N
        BY <3>9
      <4>. QED
        BY <2>2, <2>5, <3>3, <4>1 DEF CursorIsLast
    <3>. QED
      BY <3>8, <3>11, <3>12
  <2>9. oldest' \in Nat /\ 1 <= oldest' /\ oldest' <= Len(log') + 1
    BY <1>1, <2>2, <2>5
  <2>. QED
    BY <1>1, <2>2, <2>5, <2>8, <2>9 DEF CanisterInv
<1>4. CASE Logs!FetchCanister
  <2>. DEFINE unseen == Logs!Unseen(Logs!Answer(cursor.time))
  <2>1. /\ out' = out \o unseen
        /\ cursor' = IF unseen = <<>> THEN cursor ELSE log[unseen[Len(unseen)]]
        /\ UNCHANGED <<log, oldest>>
    BY <1>4 DEF Logs!FetchCanister, Logs!Last
  <2>2. ASSUME Logs!Counted
        PROVE  Rising(out)' /\ CursorIsLast'
    <3>1. LogInOrder /\ Rising(out) /\ CursorIsLast
      BY <1>1, <2>2
    <3>2. Rising(unseen) /\ (out # <<>> => \A k \in 1..Len(unseen) : out[Len(out)] < unseen[k])
      BY <1>1, <3>1, UnseenIsNew
    <3>. HIDE DEF unseen
    <3>3. /\ Rising(out \o unseen)
          /\ unseen # <<>> => (out \o unseen)[Len(out \o unseen)] = unseen[Len(unseen)]
          /\ unseen = <<>> => out \o unseen = out
      BY <3>1, <3>2, RisingGoesOn
    <3>4. Rising(out)'
      BY <2>1, <3>3 DEF Rising
    <3>5. unseen # <<>> => log[unseen[Len(unseen)]].time \in Nat
      <4>. SUFFICES ASSUME unseen # <<>> PROVE log[unseen[Len(unseen)]].time \in Nat
        OBVIOUS
      <4>1. unseen \in Seq(1..N)
        BY <3>2 DEF Rising
      <4>2. unseen[Len(unseen)] \in 1..N
        BY <4>1
      <4>3. log[unseen[Len(unseen)]] \in LogEntry
        BY <1>1, <4>2
      <4>. QED
        BY <4>3 DEF LogEntry
    <3>6. cursor'.time \in Nat
      BY <2>1, <3>1, <3>5 DEF CursorIsLast
    <3>7. CursorIsLast'
      <4>1. CASE unseen = <<>>
        BY <2>1, <3>1, <3>3, <4>1 DEF CursorIsLast
      <4>2. CASE unseen # <<>>
        BY <2>1, <3>3, <3>6, <4>2 DEF CursorIsLast
      <4>. QED
        BY <4>1, <4>2
    <3>. QED
      BY <3>4, <3>7
  <2>. QED
    BY <1>1, <2>1, <2>2 DEF CanisterInv, Logs!Counted, LogInOrder
<1>5. CASE Logs!RestartCanister
  <2>1. cursor' = [time |-> 0, counter |-> None] /\ out' = <<>> /\ UNCHANGED <<log, oldest>>
    BY <1>5 DEF Logs!RestartCanister, Logs!Start
  <2>2. cursor'.time = 0 /\ out' \in Seq(1..N) /\ Len(out') = 0
    BY <2>1
  <2>3. Rising(out)' /\ CursorIsLast'
    BY <2>1, <2>2 DEF Rising, CursorIsLast
  <2>. QED
    BY <1>1, <2>1, <2>2, <2>3 DEF CanisterInv, Logs!Counted, LogInOrder
<1>6. CASE UNCHANGED Logs!vars
  BY <1>6 DEF CanisterInv, Logs!Counted, LogInOrder, Rising, CursorIsLast, Logs!vars
<1>7. Logs!WriteCursor => UNCHANGED <<log, oldest, cursor, out>>
  BY DEF Logs!WriteCursor
<1>8. CASE Logs!WriteCursor
  <2>1. UNCHANGED <<log, oldest, cursor, out>>
    BY <1>7, <1>8
  <2>. QED
    BY <1>1, <2>1 DEF CanisterInv, Logs!Counted, LogInOrder, Rising, CursorIsLast
<1>. QED
  BY <1>0, <1>2, <1>3, <1>4, <1>5, <1>6, <1>8 DEF Logs!Next, Logs!StartJournal, Logs!FetchJournal, Logs!FetchErrorPage, Logs!StopJournal, Logs!Crash

LEMMA CanisterInit == Logs!Init => CanisterInv
<1>. SUFFICES ASSUME Logs!Init PROVE CanisterInv
  OBVIOUS
<1>1. log = <<>> /\ out = <<>> /\ oldest = 1 /\ (fetcher = "canister" => cursor = [time |-> 0, counter |-> None])
  BY DEF Logs!Init, Logs!Start
<1>2. log \in Seq(LogEntry) /\ out \in Seq(1..Len(log)) /\ Len(log) = 0 /\ Len(out) = 0
  BY <1>1
<1>3. LogInOrder /\ Rising(out)
  BY <1>2 DEF LogInOrder, Rising
<1>4. fetcher = "canister" => CursorIsLast
  BY <1>1 DEF CursorIsLast
<1>. QED
  BY <1>1, <1>2, <1>3, <1>4 DEF CanisterInv

\* Spec => []CanisterEntriesOnce: whatever the canister writes and drops between
\* two requests, however many entries share a time and however often the program
\* starts again, a life prints no entry twice and keeps their order
\* (canister-log-fetcher/src/main.rs).
THEOREM EntriesOnce == Logs!Spec => []Logs!CanisterEntriesOnce
<1>1. Logs!Init => CanisterInv
  BY CanisterInit
<1>2. CanisterInv /\ [Logs!Next]_Logs!vars => CanisterInv'
  BY CanisterStep
<1>3. CanisterInv => Logs!CanisterEntriesOnce
  <2>. SUFFICES ASSUME CanisterInv, fetcher = "canister", Logs!Counted PROVE \A i, j \in DOMAIN out : i < j => out[i] < out[j]
    BY DEF Logs!CanisterEntriesOnce
  <2>1. Rising(out)
    BY DEF CanisterInv
  <2>2. out \in Seq(1..Len(log))
    BY <2>1 DEF Rising
  <2>3. DOMAIN out = 1..Len(out)
    BY <2>2
  <2>. QED
    BY <2>1, <2>3 DEF Rising
<1>. QED
  BY <1>1, <1>2, <1>3, PTL DEF Logs!Spec


-----------------------------------------------------------------------------
(* log-fetcher: the parser reads back what the gateway wrote.                *)

\* The states of the parser, one byte after the other.
IsRun(f, s, bytes) == f = [n \in 0..Len(bytes) |-> IF n = 0 THEN s ELSE Logs!ReadByte(f[n - 1], bytes[n])]

Reads(s, bytes, t) == \E f : IsRun(f, s, bytes) /\ f[Len(bytes)] = t

Reader(mode, left, line, lines, entries) ==
    [mode |-> mode, left |-> left, line |-> line, lines |-> lines, entries |-> entries]

\* Between two lines.
Idle(lines, entries) == Reader("NotStarted", 0, <<>>, lines, entries)

LEMMA RunStep ==
    ASSUME NEW f, NEW s, NEW bytes \in Seq(Nat), IsRun(f, s, bytes)
    PROVE  /\ f[0] = s
           /\ \A n \in 1..Len(bytes) : f[n] = Logs!ReadByte(f[n - 1], bytes[n])
<1>. DEFINE N == Len(bytes)
<1>1. f = [n \in 0..N |-> IF n = 0 THEN s ELSE Logs!ReadByte(f[n - 1], bytes[n])]
  BY DEF IsRun
<1>2. 0 \in 0..N /\ \A n \in 1..N : n \in 0..N /\ n # 0
  OBVIOUS
<1>. HIDE DEF N
<1>3. f[0] = s
  BY <1>1, <1>2
<1>4. ASSUME NEW n \in 1..N
      PROVE  f[n] = Logs!ReadByte(f[n - 1], bytes[n])
  BY <1>1, <1>2
<1>. QED
  BY <1>3, <1>4 DEF N

LEMMA RunsAgree ==
    ASSUME NEW s, NEW bytes \in Seq(Nat), NEW f, NEW g, IsRun(f, s, bytes), IsRun(g, s, bytes)
    PROVE  f[Len(bytes)] = g[Len(bytes)]
<1>. PICK N \in Nat : N = Len(bytes)
  OBVIOUS
<1>. DEFINE P == {n \in 0..N : f[n] = g[n]}
<1>1. f[0] = s /\ \A n \in 1..N : f[n] = Logs!ReadByte(f[n - 1], bytes[n])
  BY RunStep
<1>2. g[0] = s /\ \A n \in 1..N : g[n] = Logs!ReadByte(g[n - 1], bytes[n])
  BY RunStep
<1>3. ASSUME NEW n \in P, n < N
      PROVE  n + 1 \in P
  <2>1. n + 1 \in 1..N /\ n + 1 \in 0..N /\ n + 1 - 1 = n /\ f[n] = g[n]
    BY <1>3
  <2>2. f[n + 1] = Logs!ReadByte(f[n], bytes[n + 1])
    <3>. PICK m : m = n + 1
      OBVIOUS
    <3>1. m \in 1..N /\ m - 1 = n
      BY <2>1
    <3>. QED
      BY <1>1, <3>1
  <2>3. g[n + 1] = Logs!ReadByte(g[n], bytes[n + 1])
    <3>. PICK m : m = n + 1
      OBVIOUS
    <3>1. m \in 1..N /\ m - 1 = n
      BY <2>1
    <3>. QED
      BY <1>2, <3>1
  <2>. QED
    BY <2>1, <2>2, <2>3
<1>4. P = 0..N
  <2>1. P \in SUBSET (0..N) /\ 0 \in P
    BY <1>1, <1>2
  <2>. HIDE DEF P
  <2>. QED
    BY <1>3, <2>1, InductionUpTo
<1>. QED
  BY <1>4

\* It reads two texts, one behind the other.
LEMMA ReadsConcat ==
    ASSUME NEW s, NEW t, NEW u, NEW b \in Seq(Nat), NEW c \in Seq(Nat), Reads(s, b, t), Reads(t, c, u)
    PROVE  Reads(s, b \o c, u)
<1>. PICK f : f[0] = s /\ f[Len(b)] = t /\ \A n \in 1..Len(b) : f[n] = Logs!ReadByte(f[n - 1], b[n])
  <2>. PICK run : IsRun(run, s, b) /\ run[Len(b)] = t
    BY DEF Reads
  <2>1. run[0] = s /\ \A n \in 1..Len(b) : run[n] = Logs!ReadByte(run[n - 1], b[n])
    BY RunStep
  <2>. QED
    BY <2>1
<1>. PICK g : g[0] = t /\ g[Len(c)] = u /\ \A n \in 1..Len(c) : g[n] = Logs!ReadByte(g[n - 1], c[n])
  <2>. PICK run : IsRun(run, t, c) /\ run[Len(c)] = u
    BY DEF Reads
  <2>1. run[0] = t /\ \A n \in 1..Len(c) : run[n] = Logs!ReadByte(run[n - 1], c[n])
    BY RunStep
  <2>. QED
    BY <2>1
<1>. PICK L \in Nat : L = Len(b)
  OBVIOUS
<1>. PICK M \in Nat : M = Len(c)
  OBVIOUS
<1>. DEFINE d == b \o c
            h == [n \in 0..(L + M) |-> IF n <= L THEN f[n] ELSE g[n - L]]
<1>1. Len(d) = L + M /\ \A n \in 1..(L + M) : d[n] = IF n <= L THEN b[n] ELSE c[n - L]
  <2>1. b \o c \in Seq(Nat) /\ Len(b \o c) = Len(b) + Len(c)
        /\ \A n \in 1..(Len(b) + Len(c)) : (b \o c)[n] = IF n <= Len(b) THEN b[n] ELSE c[n - Len(b)]
    BY ConcatProperties, Zenon
  <2>. QED
    BY <2>1
<1>2. f[0] = s /\ f[L] = t /\ \A n \in 1..L : f[n] = Logs!ReadByte(f[n - 1], b[n])
  OBVIOUS
<1>3. g[0] = t /\ g[M] = u /\ \A n \in 1..M : g[n] = Logs!ReadByte(g[n - 1], c[n])
  OBVIOUS
<1>4. h[0] = s
  BY <1>2
<1>5. h[L + M] = u
  <2>1. CASE M = 0
    BY <1>2, <1>3, <2>1
  <2>2. CASE M # 0
    <3>1. ~(L + M <= L) /\ (L + M) - L = M /\ L + M \in 0..(L + M)
      BY <2>2
    <3>. QED
      BY <1>3, <3>1
  <2>. QED
    BY <2>1, <2>2
<1>6. ASSUME NEW n \in 1..(L + M)
      PROVE  h[n] = Logs!ReadByte(h[n - 1], d[n])
  <2>1. CASE n <= L
    <3>1. n \in 1..L /\ h[n] = f[n] /\ h[n - 1] = f[n - 1] /\ d[n] = b[n]
      BY <1>1, <2>1
    <3>. QED
      BY <1>2, <3>1
  <2>2. CASE n = L + 1
    <3>1. 1 \in 1..M /\ n - L = 1 /\ ~(n <= L) /\ n - 1 = L /\ L <= L /\ L \in 0..(L + M) /\ n \in 0..(L + M)
      BY <2>2
    <3>2. h[n] = g[1] /\ h[n - 1] = f[L] /\ d[n] = c[1]
      BY <1>1, <3>1
    <3>3. g[1] = Logs!ReadByte(g[0], c[1])
      BY <1>3, <3>1
    <3>. QED
      BY <1>2, <1>3, <3>2, <3>3
  <2>3. CASE n > L + 1
    <3>. PICK m : m = n - L
      OBVIOUS
    <3>1. m \in 1..M /\ ~(n <= L) /\ ~(n - 1 <= L) /\ n - 1 - L = m - 1 /\ n \in 0..(L + M) /\ n - 1 \in 0..(L + M)
      BY <2>3
    <3>2. h[n] = g[m] /\ h[n - 1] = g[m - 1] /\ d[n] = c[m]
      BY <1>1, <3>1
    <3>. QED
      BY <1>3, <3>1, <3>2
  <2>. QED
    BY <2>1, <2>2, <2>3
<1>7. h = [n \in 0..(L + M) |-> IF n = 0 THEN s ELSE Logs!ReadByte(h[n - 1], d[n])]
  <2>1. DOMAIN h = 0..(L + M) /\ h = [n \in DOMAIN h |-> h[n]]
    OBVIOUS
  <2>. HIDE DEF h, d
  <2>2. \A n \in 0..(L + M) : h[n] = IF n = 0 THEN s ELSE Logs!ReadByte(h[n - 1], d[n])
    BY <1>4, <1>6
  <2>. QED
    BY <2>1, <2>2
<1>. HIDE DEF h, d
<1>8. IsRun(h, s, d) /\ h[Len(d)] = u
  BY <1>1, <1>5, <1>7 DEF IsRun
<1>. QED
  BY <1>8 DEF Reads, d

LEMMA ReadsOne ==
    ASSUME NEW s, NEW b
    PROVE  Reads(s, <<b>>, Logs!ReadByte(s, b))
<1>. DEFINE f == [n \in 0..1 |-> IF n = 0 THEN s ELSE Logs!ReadByte(s, b)]
            c == <<b>>
<1>1. f[0] = s /\ f[1] = Logs!ReadByte(s, b) /\ Len(c) = 1 /\ c[1] = b
  OBVIOUS
<1>2. f = [n \in 0..1 |-> IF n = 0 THEN s ELSE Logs!ReadByte(f[n - 1], c[n])]
  <2>1. \A n \in 0..1 : n = 0 \/ (n = 1 /\ n - 1 = 0)
    OBVIOUS
  <2>2. f = [n \in 0..1 |-> f[n]]
    OBVIOUS
  <2>3. \A n \in 0..1 : f[n] = IF n = 0 THEN s ELSE Logs!ReadByte(f[n - 1], c[n])
    <3>. HIDE DEF f, c
    <3>. QED
      BY <1>1, <2>1
  <2>. HIDE DEF f, c
  <2>. QED
    BY <2>2, <2>3
<1>. HIDE DEF f
<1>3. IsRun(f, s, c) /\ f[Len(c)] = Logs!ReadByte(s, b)
  BY <1>1, <1>2 DEF IsRun
<1>. QED
  BY <1>3 DEF Reads

\* What the parser does with a byte, mode by mode.
LEMMA ReadsFirst ==
    ASSUME NEW s, s.mode = "NotStarted", NEW b, b # Logs!Newline
    PROVE  Logs!ReadByte(s, b) = [[s EXCEPT !.line = Append(@, b)] EXCEPT !.mode = "Started"]
  BY DEF Logs!ReadByte

LEMMA ReadsEquals ==
    ASSUME NEW s, s.mode = "Started"
    PROVE  Logs!ReadByte(s, Logs!Equals) = [[s EXCEPT !.line = Append(@, Logs!Equals)] EXCEPT !.mode = "Utf8"]
  BY DEF Logs!ReadByte, Logs!Equals, Logs!Newline

LEMMA ReadsName ==
    ASSUME NEW s, s.mode = "Started"
    PROVE  Logs!ReadByte(s, Logs!Newline) = [Logs!EndLine(s) EXCEPT !.mode = "size", !.left = Logs!SizeBytes]
  BY DEF Logs!ReadByte, Logs!Equals, Logs!Newline

LEMMA ReadsSize ==
    ASSUME NEW s, s.mode = "size", s.left \in Int, s.left > 1, NEW b
    PROVE  Logs!ReadByte(s, b) = [[s EXCEPT !.line = Append(@, b)] EXCEPT !.left = @ - 1]
  BY DEF Logs!ReadByte

LEMMA ReadsSizeEnd ==
    ASSUME NEW s, s.mode = "size", s.left = 1, NEW b, Logs!SizeOf([s EXCEPT !.line = Append(@, b)].line) # 0
    PROVE  Logs!ReadByte(s, b) = [[s EXCEPT !.line = Append(@, b)]
                               EXCEPT !.mode = "data", !.left = Logs!SizeOf([s EXCEPT !.line = Append(@, b)].line)]
  BY DEF Logs!ReadByte

LEMMA ReadsData ==
    ASSUME NEW s, s.mode = "data", s.left \in Int, s.left > 1, NEW b
    PROVE  Logs!ReadByte(s, b) = [[s EXCEPT !.line = Append(@, b)] EXCEPT !.left = @ - 1]
  BY DEF Logs!ReadByte

LEMMA ReadsDataEnd ==
    ASSUME NEW s, s.mode = "data", s.left = 1, NEW b
    PROVE  Logs!ReadByte(s, b) = Logs!AfterData([s EXCEPT !.line = Append(@, b)])
  BY DEF Logs!ReadByte

\* One byte.
LEMMA FirstByte ==
    ASSUME NEW b \in Nat, b # Logs!Newline, NEW lines, NEW entries
    PROVE  Logs!ReadByte(Idle(lines, entries), b)
             = Reader("Started", 0, <<b>>, lines, entries)
<1>. DEFINE s == Reader("NotStarted", 0, <<>>, lines, entries)
            t == Reader("NotStarted", 0, <<b>>, lines, entries)
            u == Reader("Started", 0, <<b>>, lines, entries)
<1>1. s.mode = "NotStarted" /\ s.line = <<>>
  BY DEF Reader
<1>2. [s EXCEPT !.line = <<b>>] = t
  BY DEF Reader
<1>3. [t EXCEPT !.mode = "Started"] = u
  BY DEF Reader
<1>. HIDE DEF s, t, u
<1>4. Logs!ReadByte(s, b) = [[s EXCEPT !.line = <<b>>] EXCEPT !.mode = "Started"]
  <2>1. Logs!ReadByte(s, b) = [[s EXCEPT !.line = Append(@, b)] EXCEPT !.mode = "Started"]
    BY <1>1, ReadsFirst
  <2>2. Append(<<>>, b) = <<b>>
    OBVIOUS
  <2>. QED
    BY <1>1, <2>1, <2>2, Zenon
<1>5. Logs!ReadByte(s, b) = u
  BY <1>2, <1>3, <1>4, Zenon
<1>. QED
  BY <1>5, Zenon DEF s, u, Idle

LEMMA EqualsByte ==
    ASSUME NEW line, NEW lines, NEW entries
    PROVE  Logs!ReadByte(Reader("Started", 0, line, lines, entries), Logs!Equals)
             = Reader("Utf8", 0, Append(line, Logs!Equals), lines, entries)
<1>. DEFINE s == Reader("Started", 0, line, lines, entries)
            t == Reader("Started", 0, Append(line, Logs!Equals), lines, entries)
            u == Reader("Utf8", 0, Append(line, Logs!Equals), lines, entries)
<1>1. s.mode = "Started" /\ s.line = line
  BY DEF Reader
<1>2. [s EXCEPT !.line = Append(line, Logs!Equals)] = t
  <2>1. \A x : [Reader("Started", 0, line, lines, entries) EXCEPT !.line = x] = Reader("Started", 0, x, lines, entries)
    BY DEF Reader
  <2>. QED
    BY <2>1, Zenon
<1>3. [t EXCEPT !.mode = "Utf8"] = u
  <2>1. \A x : [Reader("Started", 0, x, lines, entries) EXCEPT !.mode = "Utf8"] = Reader("Utf8", 0, x, lines, entries)
    BY DEF Reader
  <2>. QED
    BY <2>1, Zenon
<1>. HIDE DEF s, t, u
<1>4. Logs!ReadByte(s, Logs!Equals) = [[s EXCEPT !.line = Append(line, Logs!Equals)] EXCEPT !.mode = "Utf8"]
  <2>1. Logs!ReadByte(s, Logs!Equals) = [[s EXCEPT !.line = Append(@, Logs!Equals)] EXCEPT !.mode = "Utf8"]
    BY <1>1, ReadsEquals
  <2>. QED
    BY <1>1, <2>1, Zenon
<1>5. Logs!ReadByte(s, Logs!Equals) = u
  BY <1>2, <1>3, <1>4, Zenon
<1>. QED
  BY <1>5, Zenon DEF s, u

LEMMA SizeByte ==
    ASSUME NEW left \in Nat, left > 1, NEW b, NEW line, NEW lines, NEW entries
    PROVE  Logs!ReadByte(Reader("size", left, line, lines, entries), b)
             = Reader("size", left - 1, Append(line, b), lines, entries)
<1>. DEFINE s == Reader("size", left, line, lines, entries)
            t == Reader("size", left, Append(line, b), lines, entries)
            u == Reader("size", left - 1, Append(line, b), lines, entries)
<1>1. s.mode = "size" /\ s.left = left /\ s.line = line
  BY DEF Reader
<1>2. [s EXCEPT !.line = Append(line, b)] = t
  <2>1. \A x : [Reader("size", left, line, lines, entries) EXCEPT !.line = x] = Reader("size", left, x, lines, entries)
    BY DEF Reader
  <2>. QED
    BY <2>1, Zenon
<1>3. [t EXCEPT !.left = left - 1] = u
  <2>1. \A x, y : [Reader("size", left, x, lines, entries) EXCEPT !.left = y] = Reader("size", y, x, lines, entries)
    BY DEF Reader
  <2>. QED
    BY <2>1, Zenon
<1>. HIDE DEF s, t, u
<1>4. Logs!ReadByte(s, b) = [[s EXCEPT !.line = Append(line, b)] EXCEPT !.left = left - 1]
  <2>0. s.mode = "size" /\ s.left \in Int /\ s.left > 1
    BY <1>1
  <2>1. Logs!ReadByte(s, b) = [[s EXCEPT !.line = Append(@, b)] EXCEPT !.left = @ - 1]
    BY <2>0, ReadsSize, Zenon
  <2>2. t.left = left
    BY DEF t, Reader
  <2>. QED
    BY <1>1, <1>2, <2>1, <2>2, Zenon
<1>5. Logs!ReadByte(s, b) = u
  BY <1>2, <1>3, <1>4, Zenon
<1>. QED
  BY <1>5, Zenon DEF s, u

LEMMA DataByte ==
    ASSUME NEW left \in Nat, left > 1, NEW b, NEW line, NEW lines, NEW entries
    PROVE  Logs!ReadByte(Reader("data", left, line, lines, entries), b)
             = Reader("data", left - 1, Append(line, b), lines, entries)
<1>. DEFINE s == Reader("data", left, line, lines, entries)
            t == Reader("data", left, Append(line, b), lines, entries)
            u == Reader("data", left - 1, Append(line, b), lines, entries)
<1>1. s.mode = "data" /\ s.left = left /\ s.line = line
  BY DEF Reader
<1>2. [s EXCEPT !.line = Append(line, b)] = t
  <2>1. \A x : [Reader("data", left, line, lines, entries) EXCEPT !.line = x] = Reader("data", left, x, lines, entries)
    BY DEF Reader
  <2>. QED
    BY <2>1, Zenon
<1>3. [t EXCEPT !.left = left - 1] = u
  <2>1. \A x, y : [Reader("data", left, x, lines, entries) EXCEPT !.left = y] = Reader("data", y, x, lines, entries)
    BY DEF Reader
  <2>. QED
    BY <2>1, Zenon
<1>. HIDE DEF s, t, u
<1>4. Logs!ReadByte(s, b) = [[s EXCEPT !.line = Append(line, b)] EXCEPT !.left = left - 1]
  <2>0. s.mode = "data" /\ s.left \in Int /\ s.left > 1
    BY <1>1
  <2>1. Logs!ReadByte(s, b) = [[s EXCEPT !.line = Append(@, b)] EXCEPT !.left = @ - 1]
    BY <2>0, ReadsData, Zenon
  <2>2. t.left = left
    BY DEF t, Reader
  <2>. QED
    BY <1>1, <1>2, <2>1, <2>2, Zenon
<1>5. Logs!ReadByte(s, b) = u
  BY <1>2, <1>3, <1>4, Zenon
<1>. QED
  BY <1>5, Zenon DEF s, u

LEMMA SizeEnd ==
    ASSUME NEW b, NEW line, NEW lines, NEW entries, Logs!SizeOf(Append(line, b)) # 0
    PROVE  Logs!ReadByte(Reader("size", 1, line, lines, entries), b)
             = Reader("data", Logs!SizeOf(Append(line, b)), Append(line, b), lines, entries)
<1>. DEFINE s == Reader("size", 1, line, lines, entries)
            t == Reader("size", 1, Append(line, b), lines, entries)
            u == Reader("data", 1, Append(line, b), lines, entries)
            v == Reader("data", Logs!SizeOf(Append(line, b)), Append(line, b), lines, entries)
<1>1. s.mode = "size" /\ s.left = 1 /\ s.line = line
  BY DEF Reader
<1>2. [s EXCEPT !.line = Append(line, b)] = t
  <2>1. \A x : [Reader("size", 1, line, lines, entries) EXCEPT !.line = x] = Reader("size", 1, x, lines, entries)
    BY DEF Reader
  <2>. QED
    BY <2>1, Zenon
<1>3. [t EXCEPT !.mode = "data"] = u
  <2>1. \A x : [Reader("size", 1, x, lines, entries) EXCEPT !.mode = "data"] = Reader("data", 1, x, lines, entries)
    BY DEF Reader
  <2>. QED
    BY <2>1, Zenon
<1>4. [u EXCEPT !.left = Logs!SizeOf(Append(line, b))] = v
  BY DEF Reader
<1>. HIDE DEF s, t, u, v
<1>5. Logs!ReadByte(s, b) = [[[s EXCEPT !.line = Append(line, b)] EXCEPT !.mode = "data"] EXCEPT !.left = Logs!SizeOf(Append(line, b))]
  <2>1. t.line = Append(line, b)
    BY DEF t, Reader
  <2>2. [s EXCEPT !.line = Append(@, b)] = t
    BY <1>1, <1>2, Zenon
  <2>3. [s EXCEPT !.line = Append(@, b)].line = Append(line, b)
    BY <2>1, <2>2, Zenon
  <2>4. Logs!SizeOf([s EXCEPT !.line = Append(@, b)].line) # 0
    BY <2>3, Zenon
  <2>5. Logs!ReadByte(s, b) = [[s EXCEPT !.line = Append(@, b)]
                            EXCEPT !.mode = "data", !.left = Logs!SizeOf([s EXCEPT !.line = Append(@, b)].line)]
    BY <1>1, <2>4, ReadsSizeEnd
  <2>6. Logs!ReadByte(s, b) = [t EXCEPT !.mode = "data", !.left = Logs!SizeOf(Append(line, b))]
    BY <2>1, <2>2, <2>5, Zenon
  <2>7. Logs!ReadByte(s, b) = [[t EXCEPT !.mode = "data"] EXCEPT !.left = Logs!SizeOf(Append(line, b))]
    BY <2>6
  <2>. QED
    BY <1>2, <2>7, Zenon
<1>6. Logs!ReadByte(s, b) = v
  BY <1>2, <1>3, <1>4, <1>5, Zenon
<1>. QED
  BY <1>6, Zenon DEF s, v

\* The end of a line.
LEMMA LineEnd ==
    ASSUME NEW mode, NEW left, NEW line, NEW lines, NEW entries
    PROVE  Logs!EndLine(Reader(mode, left, line, lines, entries)) = Reader("NotStarted", left, <<>>, Append(lines, line), entries)
<1>. DEFINE s == Reader(mode, left, line, lines, entries)
            t == Reader("NotStarted", left, line, lines, entries)
            u == Reader("NotStarted", left, <<>>, lines, entries)
            v == Reader("NotStarted", left, <<>>, Append(lines, line), entries)
<1>1. s.line = line /\ s.lines = lines
  BY DEF Reader
<1>2. [s EXCEPT !.mode = "NotStarted"] = t
  BY DEF Reader
<1>3. [t EXCEPT !.line = <<>>] = u
  BY DEF Reader
<1>4. [u EXCEPT !.lines = Append(lines, line)] = v
  BY DEF Reader
<1>. HIDE DEF s, t, u, v
<1>5. Logs!EndLine(s) = [[[s EXCEPT !.mode = "NotStarted"] EXCEPT !.line = <<>>] EXCEPT !.lines = Append(lines, line)]
  BY <1>1 DEF Logs!EndLine
<1>6. Logs!EndLine(s) = v
  BY <1>2, <1>3, <1>4, <1>5, Zenon
<1>. QED
  BY <1>6, Zenon DEF s, v

LEMMA NameEnd ==
    ASSUME NEW line, NEW lines, NEW entries
    PROVE  Logs!ReadByte(Reader("Started", 0, line, lines, entries), Logs!Newline)
             = Reader("size", Logs!SizeBytes, <<>>, Append(lines, line), entries)
<1>. DEFINE s == Reader("Started", 0, line, lines, entries)
            t == Reader("NotStarted", 0, <<>>, Append(lines, line), entries)
            u == Reader("size", 0, <<>>, Append(lines, line), entries)
            v == Reader("size", Logs!SizeBytes, <<>>, Append(lines, line), entries)
<1>1. s.mode = "Started"
  BY DEF Reader
<1>2. Logs!EndLine(s) = t
  BY LineEnd
<1>3. [t EXCEPT !.mode = "size"] = u
  <2>1. \A x : [Reader("NotStarted", 0, <<>>, x, entries) EXCEPT !.mode = "size"] = Reader("size", 0, <<>>, x, entries)
    BY DEF Reader
  <2>. QED
    BY <2>1, Zenon
<1>4. [u EXCEPT !.left = Logs!SizeBytes] = v
  BY DEF Reader
<1>. HIDE DEF s, t, u, v
<1>5. Logs!ReadByte(s, Logs!Newline) = [Logs!EndLine(s) EXCEPT !.mode = "size", !.left = Logs!SizeBytes]
  BY <1>1, ReadsName
<1>6. Logs!ReadByte(s, Logs!Newline) = [t EXCEPT !.mode = "size", !.left = Logs!SizeBytes]
  BY <1>2, <1>5, Zenon
<1>7. Logs!ReadByte(s, Logs!Newline) = [[t EXCEPT !.mode = "size"] EXCEPT !.left = Logs!SizeBytes]
  BY <1>6
<1>8. Logs!ReadByte(s, Logs!Newline) = v
  BY <1>3, <1>4, <1>7, Zenon
<1>. QED
  BY <1>8, Zenon DEF s, v

LEMMA TextByte ==
    ASSUME NEW b \in Nat, b # Logs!Newline, NEW line, NEW lines, NEW entries
    PROVE  Logs!ReadByte(Reader("Utf8", 0, line, lines, entries), b) = Reader("Utf8", 0, Append(line, b), lines, entries)
  BY DEF Logs!ReadByte, Reader

LEMMA TextEnd ==
    ASSUME NEW line, NEW lines, NEW entries
    PROVE  Logs!ReadByte(Reader("Utf8", 0, line, lines, entries), Logs!Newline) = Idle(Append(lines, line), entries)
<1>. DEFINE s == Reader("Utf8", 0, line, lines, entries)
<1>1. s.mode = "Utf8"
  BY DEF Reader
<1>2. Logs!EndLine(s) = Idle(Append(lines, line), entries)
  BY LineEnd DEF Idle
<1>. HIDE DEF s
<1>3. Logs!ReadByte(s, Logs!Newline) = Logs!EndLine(s)
  BY <1>1 DEF Logs!ReadByte
<1>. QED
  BY <1>2, <1>3 DEF s

LEMMA DataEnd ==
    ASSUME NEW b, NEW line, NEW lines, NEW entries
    PROVE  Logs!ReadByte(Reader("data", 1, line, lines, entries), b)
             = Reader("newline", 0, <<>>, Append(lines, Append(line, b)), entries)
<1>. DEFINE s == Reader("data", 1, line, lines, entries)
            t == Reader("data", 1, Append(line, b), lines, entries)
            u == Reader("NotStarted", 1, <<>>, Append(lines, Append(line, b)), entries)
            v == Reader("newline", 1, <<>>, Append(lines, Append(line, b)), entries)
            w == Reader("newline", 0, <<>>, Append(lines, Append(line, b)), entries)
<1>1. s.mode = "data" /\ s.left = 1 /\ s.line = line
  BY DEF Reader
<1>2. [s EXCEPT !.line = Append(line, b)] = t
  <2>1. \A x : [Reader("data", 1, line, lines, entries) EXCEPT !.line = x] = Reader("data", 1, x, lines, entries)
    BY DEF Reader
  <2>. QED
    BY <2>1, Zenon
<1>3. Logs!EndLine(t) = u
  BY LineEnd
<1>4. [u EXCEPT !.mode = "newline"] = v
  <2>1. \A x : [Reader("NotStarted", 1, <<>>, x, entries) EXCEPT !.mode = "newline"] = Reader("newline", 1, <<>>, x, entries)
    BY DEF Reader
  <2>. QED
    BY <2>1, Zenon
<1>5. [v EXCEPT !.left = 0] = w
  <2>1. \A x : [Reader("newline", 1, <<>>, x, entries) EXCEPT !.left = 0] = Reader("newline", 0, <<>>, x, entries)
    BY DEF Reader
  <2>. QED
    BY <2>1, Zenon
<1>. HIDE DEF s, t, u, v, w
<1>6. Logs!ReadByte(s, b) = Logs!AfterData([s EXCEPT !.line = Append(@, b)])
  BY <1>1, ReadsDataEnd
<1>7. Logs!ReadByte(s, b) = Logs!AfterData(t)
  BY <1>1, <1>2, <1>6, Zenon
<1>8. Logs!ReadByte(s, b) = [u EXCEPT !.mode = "newline", !.left = 0]
  BY <1>3, <1>7, Zenon DEF Logs!AfterData
<1>9. Logs!ReadByte(s, b) = [[u EXCEPT !.mode = "newline"] EXCEPT !.left = 0]
  BY <1>8
<1>10. Logs!ReadByte(s, b) = w
  BY <1>4, <1>5, <1>9, Zenon
<1>. QED
  BY <1>10, Zenon DEF s, w

LEMMA DataNewline ==
    ASSUME NEW b, NEW lines, NEW entries
    PROVE  Logs!ReadByte(Reader("newline", 0, <<>>, lines, entries), b) = Idle(lines, entries)
<1>. DEFINE s == Reader("newline", 0, <<>>, lines, entries)
<1>1. s.mode = "newline"
  BY DEF Reader
<1>2. [s EXCEPT !.mode = "NotStarted"] = Idle(lines, entries)
  BY DEF Idle, Reader
<1>. HIDE DEF s
<1>3. Logs!ReadByte(s, b) = [s EXCEPT !.mode = "NotStarted"]
  BY <1>1 DEF Logs!ReadByte
<1>. QED
  BY <1>2, <1>3 DEF s

LEMMA EntryIsEnded ==
    ASSUME NEW lines, NEW entries
    PROVE  Logs!EndEntry(Idle(lines, entries)) = Idle(<<>>, IF lines = <<>> THEN entries ELSE Append(entries, Logs!Fields(lines)))
<1>. DEFINE more == IF lines = <<>> THEN entries ELSE Append(entries, Logs!Fields(lines))
            s == Reader("NotStarted", 0, <<>>, lines, entries)
            t == Reader("NotStarted", 0, <<>>, <<>>, entries)
            u == Reader("NotStarted", 0, <<>>, <<>>, more)
<1>1. s.lines = lines /\ s.entries = entries
  BY DEF Reader
<1>2. [s EXCEPT !.lines = <<>>] = t
  BY DEF Reader
<1>3. [t EXCEPT !.entries = more] = u
  <2>. HIDE DEF more
  <2>. QED
    BY DEF Reader
<1>. HIDE DEF s, t, u
<1>4. Logs!EndEntry(s) = [[s EXCEPT !.lines = <<>>] EXCEPT !.entries = more]
  BY <1>1 DEF Logs!EndEntry
<1>. HIDE DEF more
<1>5. Logs!EndEntry(s) = u
  BY <1>2, <1>3, <1>4, Zenon
<1>. QED
  BY <1>5, Zenon DEF s, u, Idle, more

LEMMA EntryEnd ==
    ASSUME NEW lines, NEW entries, lines # <<>>
    PROVE  Logs!ReadByte(Idle(lines, entries), Logs!Newline) = Idle(<<>>, Append(entries, Logs!Fields(lines)))
<1>. DEFINE s == Idle(lines, entries)
<1>1. s.mode = "NotStarted"
  BY DEF Idle, Reader
<1>2. Logs!EndEntry(s) = Idle(<<>>, Append(entries, Logs!Fields(lines)))
  BY EntryIsEnded
<1>. HIDE DEF s
<1>3. Logs!ReadByte(s, Logs!Newline) = Logs!EndEntry(s)
  BY <1>1 DEF Logs!ReadByte
<1>. QED
  BY <1>2, <1>3 DEF s
\* A text, byte by byte.
LEMMA AppendToConcat ==
    ASSUME NEW a \in Seq(Nat), NEW b \in Seq(Nat), NEW c \in Nat
    PROVE  Append(a \o b, c) = a \o Append(b, c)
<1>. PICK d \in Seq(Nat) : d = <<c>>
  <2>1. <<c>> \in Seq(Nat)
    OBVIOUS
  <2>. QED
    BY <2>1
<1>1. a \o b \in Seq(Nat) /\ (a \o b) \o d = a \o (b \o d)
  BY ConcatProperties, ConcatAssociative
<1>2. Append(b, c) = b \o d
  BY AppendIsConcat
<1>3. Append(a \o b, c) = (a \o b) \o d
  <2>. PICK e \in Seq(Nat) : e = a \o b
    BY <1>1
  <2>1. Append(e, c) = e \o d
    BY AppendIsConcat
  <2>. QED
    BY <2>1
<1>. QED
  BY <1>1, <1>2, <1>3

LEMMA Grows ==
    ASSUME NEW line \in Seq(Nat), NEW value \in Seq(Nat)
    PROVE  /\ line \o SubSeq(value, 1, 0) = line
           /\ line \o SubSeq(value, 1, Len(value)) = line \o value
           /\ \A n \in 0..Len(value) : line \o SubSeq(value, 1, n) \in Seq(Nat)
           /\ \A n \in 1..Len(value) : Append(line \o SubSeq(value, 1, n - 1), value[n]) = line \o SubSeq(value, 1, n)
<1>. PICK K \in Nat : K = Len(value)
  OBVIOUS
<1>1. SubSeq(value, 1, 0) = <<>> /\ SubSeq(value, 1, K) = value
  OBVIOUS
<1>2. line \o <<>> = line
  OBVIOUS
<1>3. \A n \in 0..K : SubSeq(value, 1, n) \in Seq(Nat)
  OBVIOUS
<1>4. \A n \in 0..K : line \o SubSeq(value, 1, n) \in Seq(Nat)
  BY <1>3, ConcatProperties
<1>5. ASSUME NEW n \in 1..K
      PROVE  Append(line \o SubSeq(value, 1, n - 1), value[n]) = line \o SubSeq(value, 1, n)
  <2>. PICK a \in Seq(Nat) : a = SubSeq(value, 1, n - 1)
    <3>1. n - 1 \in 0..K
      OBVIOUS
    <3>. QED
      BY <1>3, <3>1
  <2>. PICK c \in Nat : c = value[n]
    OBVIOUS
  <2>1. SubSeq(value, 1, n) = Append(a, c)
    OBVIOUS
  <2>2. Append(line \o a, c) = line \o Append(a, c)
    BY AppendToConcat
  <2>. QED
    BY <2>1, <2>2
<1>. QED
  BY <1>1, <1>2, <1>4, <1>5

LEMMA TextBytes ==
    ASSUME NEW line \in Seq(Nat), NEW value \in Seq(Nat), \A i \in 1..Len(value) : value[i] # Logs!Newline,
           NEW lines, NEW entries
    PROVE  Reads(Reader("Utf8", 0, line, lines, entries), value, Reader("Utf8", 0, line \o value, lines, entries))
<1>. PICK K \in Nat : K = Len(value)
  OBVIOUS
<1>. DEFINE g == [n \in 0..K |-> line \o SubSeq(value, 1, n)]
            s == Reader("Utf8", 0, line, lines, entries)
            f == [n \in 0..K |-> Reader("Utf8", 0, g[n], lines, entries)]
<1>1. /\ g[0] = line /\ g[K] = line \o value
      /\ \A n \in 1..K : Append(g[n - 1], value[n]) = g[n]
  <2>1. /\ line \o SubSeq(value, 1, 0) = line
        /\ line \o SubSeq(value, 1, K) = line \o value
        /\ \A n \in 1..K : Append(line \o SubSeq(value, 1, n - 1), value[n]) = line \o SubSeq(value, 1, n)
    BY Grows
  <2>2. \A n \in 0..K : g[n] = line \o SubSeq(value, 1, n)
    OBVIOUS
  <2>3. \A n \in 1..K : n \in 0..K /\ n - 1 \in 0..K
    OBVIOUS
  <2>4. 0 \in 0..K /\ K \in 0..K
    OBVIOUS
  <2>. HIDE DEF g
  <2>. QED
    BY <2>1, <2>2, <2>3, <2>4, Zenon
<1>. HIDE DEF g
<1>2. f[0] = s /\ f[K] = Reader("Utf8", 0, line \o value, lines, entries)
  <2>1. f[0] = Reader("Utf8", 0, g[0], lines, entries) /\ f[K] = Reader("Utf8", 0, g[K], lines, entries)
    OBVIOUS
  <2>. HIDE DEF f
  <2>. QED
    BY <1>1, <2>1, Zenon
<1>3. ASSUME NEW n \in 1..K
      PROVE  f[n] = Logs!ReadByte(f[n - 1], value[n])
  <2>1. value[n] \in Nat /\ value[n] # Logs!Newline
    OBVIOUS
  <2>2. Logs!ReadByte(Reader("Utf8", 0, g[n - 1], lines, entries), value[n])
          = Reader("Utf8", 0, Append(g[n - 1], value[n]), lines, entries)
    BY <2>1, TextByte
  <2>3. f[n] = Reader("Utf8", 0, g[n], lines, entries) /\ f[n - 1] = Reader("Utf8", 0, g[n - 1], lines, entries)
    OBVIOUS
  <2>. QED
    BY <1>1, <2>2, <2>3
<1>4. f = [n \in 0..K |-> IF n = 0 THEN s ELSE Logs!ReadByte(f[n - 1], value[n])]
  <2>1. f = [n \in 0..K |-> f[n]]
    OBVIOUS
  <2>. HIDE DEF f, s
  <2>2. \A n \in 0..K : f[n] = IF n = 0 THEN s ELSE Logs!ReadByte(f[n - 1], value[n])
    BY <1>2, <1>3
  <2>. QED
    BY <2>1, <2>2
<1>. HIDE DEF f
<1>5. IsRun(f, s, value)
  BY <1>4 DEF IsRun
<1>. QED
  BY <1>2, <1>5 DEF Reads

\* Bytes that are counted, but for the last one.
LEMMA CountedBytes ==
    ASSUME NEW mode \in {"size", "data"}, NEW line \in Seq(Nat), NEW value \in Seq(Nat),
           NEW left \in Nat, left > Len(value), NEW lines, NEW entries
    PROVE  Reads(Reader(mode, left, line, lines, entries), value,
                 Reader(mode, left - Len(value), line \o value, lines, entries))
<1>. PICK K \in Nat : K = Len(value)
  OBVIOUS
<1>. DEFINE g == [n \in 0..K |-> line \o SubSeq(value, 1, n)]
            s == Reader(mode, left, line, lines, entries)
            f == [n \in 0..K |-> Reader(mode, left - n, g[n], lines, entries)]
<1>1. /\ g[0] = line /\ g[K] = line \o value
      /\ \A n \in 1..K : Append(g[n - 1], value[n]) = g[n]
  <2>1. /\ line \o SubSeq(value, 1, 0) = line
        /\ line \o SubSeq(value, 1, K) = line \o value
        /\ \A n \in 1..K : Append(line \o SubSeq(value, 1, n - 1), value[n]) = line \o SubSeq(value, 1, n)
    BY Grows
  <2>2. \A n \in 0..K : g[n] = line \o SubSeq(value, 1, n)
    OBVIOUS
  <2>3. \A n \in 1..K : n \in 0..K /\ n - 1 \in 0..K
    OBVIOUS
  <2>4. 0 \in 0..K /\ K \in 0..K
    OBVIOUS
  <2>. HIDE DEF g
  <2>. QED
    BY <2>1, <2>2, <2>3, <2>4, Zenon
<1>. HIDE DEF g
<1>2. f[0] = s /\ f[K] = Reader(mode, left - K, line \o value, lines, entries)
  <2>1. f[0] = Reader(mode, left, g[0], lines, entries) /\ f[K] = Reader(mode, left - K, g[K], lines, entries)
    OBVIOUS
  <2>. HIDE DEF f
  <2>. QED
    BY <1>1, <2>1, Zenon
<1>3. ASSUME NEW n \in 1..K
      PROVE  f[n] = Logs!ReadByte(f[n - 1], value[n])
  <2>. PICK l \in Nat : l = left - (n - 1)
    OBVIOUS
  <2>1. l > 1 /\ l - 1 = left - n
    OBVIOUS
  <2>2. Logs!ReadByte(Reader(mode, l, g[n - 1], lines, entries), value[n])
          = Reader(mode, l - 1, Append(g[n - 1], value[n]), lines, entries)
    BY <2>1, SizeByte, DataByte
  <2>3. f[n] = Reader(mode, left - n, g[n], lines, entries) /\ f[n - 1] = Reader(mode, left - (n - 1), g[n - 1], lines, entries)
    OBVIOUS
  <2>. QED
    BY <1>1, <2>1, <2>2, <2>3
<1>4. f = [n \in 0..K |-> IF n = 0 THEN s ELSE Logs!ReadByte(f[n - 1], value[n])]
  <2>1. f = [n \in 0..K |-> f[n]]
    OBVIOUS
  <2>. HIDE DEF f, s
  <2>2. \A n \in 0..K : f[n] = IF n = 0 THEN s ELSE Logs!ReadByte(f[n - 1], value[n])
    BY <1>2, <1>3
  <2>. QED
    BY <2>1, <2>2
<1>. HIDE DEF f
<1>5. IsRun(f, s, value)
  BY <1>4 DEF IsRun
<1>. QED
  BY <1>2, <1>5 DEF Reads

\* One line: a field as text, and one as binary data.
LEMMA TextLine ==
    ASSUME NEW c \in Nat, c # Logs!Newline, NEW value \in Seq(Nat), \A i \in 1..Len(value) : value[i] # Logs!Newline,
           NEW lines, NEW entries
    PROVE  Reads(Idle(lines, entries), <<c>> \o <<Logs!Equals>> \o value \o <<Logs!Newline>>,
                 Idle(Append(lines, <<c>> \o <<Logs!Equals>> \o value), entries))
<1>. DEFINE first == Reader("Started", 0, <<c>>, lines, entries)
            named == Reader("Utf8", 0, <<c>> \o <<Logs!Equals>>, lines, entries)
            full == Reader("Utf8", 0, <<c>> \o <<Logs!Equals>> \o value, lines, entries)
<1>1. Logs!Newline \in Nat /\ Logs!Equals \in Nat
  BY DEF Logs!Newline, Logs!Equals
<1>2. <<c>> \in Seq(Nat) /\ <<Logs!Equals>> \in Seq(Nat) /\ <<c>> \o <<Logs!Equals>> \in Seq(Nat)
      /\ <<c>> \o <<Logs!Equals>> \o value \in Seq(Nat) /\ <<Logs!Newline>> \in Seq(Nat)
  BY <1>1
<1>3. Append(<<c>>, Logs!Equals) = <<c>> \o <<Logs!Equals>>
  OBVIOUS
<1>4. Reads(Idle(lines, entries), <<c>>, first)
  BY ReadsOne, FirstByte
<1>5. Reads(first, <<Logs!Equals>>, named)
  BY <1>3, ReadsOne, EqualsByte
<1>6. Reads(named, value, full)
  BY <1>2, TextBytes
<1>7. Reads(full, <<Logs!Newline>>, Idle(Append(lines, <<c>> \o <<Logs!Equals>> \o value), entries))
  BY ReadsOne, TextEnd
<1>. HIDE DEF first, named, full
<1>8. Reads(Idle(lines, entries), <<c>> \o <<Logs!Equals>>, named)
  BY <1>2, <1>4, <1>5, ReadsConcat
<1>9. Reads(Idle(lines, entries), <<c>> \o <<Logs!Equals>> \o value, full)
  BY <1>2, <1>6, <1>8, ReadsConcat
<1>. DEFINE last == Idle(Append(lines, <<c>> \o <<Logs!Equals>> \o value), entries)
<1>10. Reads(full, <<Logs!Newline>>, last)
  BY <1>7
<1>. HIDE DEF last
<1>11. Reads(Idle(lines, entries), <<c>> \o <<Logs!Equals>> \o value \o <<Logs!Newline>>, last)
  BY <1>2, <1>9, <1>10, ReadsConcat
<1>. QED
  BY <1>11 DEF last

LEMMA SizeIs ==
    ASSUME NEW K \in Nat
    PROVE  /\ Logs!Size(K) \in Seq(Nat) /\ Len(Logs!Size(K)) = 8
           /\ Logs!SizeOf(Logs!Size(K)) = K
<1>. DEFINE g == Logs!Size(K)
<1>1. g = [i \in 1..8 |-> CASE i = 1 -> K % 256 [] i = 2 -> K \div 256 [] OTHER -> 0]
  BY DEF Logs!Size, Logs!SizeBytes
<1>2. K % 256 \in Nat /\ K \div 256 \in Nat /\ (K % 256) + 256 * (K \div 256) = K
  OBVIOUS
<1>3. g \in [1..8 -> Nat] /\ g[1] = K % 256 /\ g[2] = K \div 256
  <2>1. \A i \in 1..8 : (CASE i = 1 -> K % 256 [] i = 2 -> K \div 256 [] OTHER -> 0) \in Nat
    BY <1>2
  <2>. QED
    BY <1>1, <2>1
<1>. HIDE DEF g
<1>4. g \in Seq(Nat) /\ Len(g) = 8
  BY <1>3, FunctionIsSequence
<1>5. Logs!SizeOf(g) = K
  BY <1>2, <1>3 DEF Logs!SizeOf
<1>. QED
  BY <1>4, <1>5 DEF g

LEMMA LastByte ==
    ASSUME NEW value \in Seq(Nat), Len(value) # 0
    PROVE  /\ SubSeq(value, 1, Len(value) - 1) \in Seq(Nat)
           /\ Len(SubSeq(value, 1, Len(value) - 1)) = Len(value) - 1
           /\ value = SubSeq(value, 1, Len(value) - 1) \o <<value[Len(value)]>>
           /\ value = Append(SubSeq(value, 1, Len(value) - 1), value[Len(value)])
           /\ value[Len(value)] \in Nat
  OBVIOUS

LEMMA DataLine ==
    ASSUME NEW c \in Nat, c # Logs!Newline, NEW value \in Seq(Nat), Len(value) # 0, NEW lines, NEW entries
    PROVE  Reads(Idle(lines, entries), <<c>> \o <<Logs!Newline>> \o Logs!Size(Len(value)) \o value \o <<Logs!Newline>>,
                 Idle(Append(Append(lines, <<c>>), Logs!Size(Len(value)) \o value), entries))
<1>. PICK K \in Nat : K = Len(value)
  OBVIOUS
<1>. DEFINE size == Logs!Size(K)
            more == Append(lines, <<c>>)
            first == Reader("Started", 0, <<c>>, lines, entries)
            named == Reader("size", Logs!SizeBytes, <<>>, more, entries)
            sized == Reader("data", K, size, more, entries)
            full == Reader("newline", 0, <<>>, Append(more, size \o value), entries)
            last == Idle(Append(more, size \o value), entries)
<1>1. Logs!Newline \in Nat /\ <<c>> \in Seq(Nat) /\ <<Logs!Newline>> \in Seq(Nat)
  BY DEF Logs!Newline
<1>2. size \in Seq(Nat) /\ Len(size) = 8 /\ Logs!SizeOf(size) = K
  BY SizeIs
<1>3. Reads(Idle(lines, entries), <<c>>, first)
  BY ReadsOne, FirstByte
<1>4. Reads(first, <<Logs!Newline>>, named)
  BY ReadsOne, NameEnd
<1>5. Reads(full, <<Logs!Newline>>, last)
  <2>1. \A x : Reads(Reader("newline", 0, <<>>, x, entries), <<Logs!Newline>>, Idle(x, entries))
    BY ReadsOne, DataNewline
  <2>. QED
    BY <2>1, Zenon
<1>. HIDE DEF size, more
<1>6. Reads(named, size, sized)
  <2>. DEFINE a == SubSeq(size, 1, 8 - 1)
              b == size[8]
              almost == Reader("size", 1, a, more, entries)
  <2>1. a \in Seq(Nat) /\ Len(a) = 7 /\ size = a \o <<b>> /\ size = Append(a, b) /\ b \in Nat
    <3>1. size \in Seq(Nat) /\ Len(size) # 0
      BY <1>2
    <3>2. /\ SubSeq(size, 1, Len(size) - 1) \in Seq(Nat)
          /\ Len(SubSeq(size, 1, Len(size) - 1)) = Len(size) - 1
          /\ size = SubSeq(size, 1, Len(size) - 1) \o <<size[Len(size)]>>
          /\ size = Append(SubSeq(size, 1, Len(size) - 1), size[Len(size)])
          /\ size[Len(size)] \in Nat
      BY <3>1, LastByte, Zenon
    <3>3. Len(size) = 8 /\ 8 - 1 = 7
      BY <1>2
    <3>. QED
      BY <3>2, <3>3, Zenon
  <2>. HIDE DEF a, b
  <2>2. <<>> \o a = a /\ <<>> \in Seq(Nat) /\ 8 - Len(a) = 1 /\ 8 > Len(a) /\ 8 \in Nat
    BY <2>1
  <2>3. Reads(Reader("size", 8, <<>>, more, entries), a, Reader("size", 8 - Len(a), <<>> \o a, more, entries))
    BY <2>1, <2>2, CountedBytes, Zenon
  <2>4. Reads(named, a, almost)
    BY <2>2, <2>3 DEF Logs!SizeBytes
  <2>5. Logs!SizeOf(Append(a, b)) = K /\ K # 0
    BY <1>2, <2>1
  <2>6. Logs!ReadByte(almost, b) = sized
    BY <2>1, <2>5, SizeEnd
  <2>7. Reads(almost, <<b>>, sized)
    BY <2>6, ReadsOne
  <2>8. <<b>> \in Seq(Nat)
    BY <2>1
  <2>. HIDE DEF almost, named, sized
  <2>9. Reads(named, a \o <<b>>, sized)
    BY <2>1, <2>4, <2>7, <2>8, ReadsConcat
  <2>. QED
    BY <2>1, <2>9
<1>7. Reads(sized, value, full)
  <2>. DEFINE a == SubSeq(value, 1, K - 1)
              b == value[K]
              almost == Reader("data", 1, size \o a, more, entries)
  <2>1. a \in Seq(Nat) /\ Len(a) = K - 1 /\ value = a \o <<b>> /\ value = Append(a, b) /\ b \in Nat
    BY LastByte
  <2>. HIDE DEF a, b
  <2>2. K - Len(a) = 1 /\ K > Len(a)
    BY <2>1
  <2>3. Reads(Reader("data", K, size, more, entries), a, Reader("data", K - Len(a), size \o a, more, entries))
    BY <1>2, <2>1, <2>2, CountedBytes, Zenon
  <2>4. Reads(sized, a, almost)
    BY <2>2, <2>3
  <2>5. Append(size \o a, b) = size \o value
    <3>1. Append(size \o a, b) = size \o Append(a, b)
      BY <1>2, <2>1, AppendToConcat
    <3>. QED
      BY <2>1, <3>1, Zenon
  <2>6. Logs!ReadByte(almost, b) = full
    BY <2>5, DataEnd
  <2>7. Reads(almost, <<b>>, full)
    BY <2>6, ReadsOne
  <2>8. <<b>> \in Seq(Nat)
    BY <2>1
  <2>. HIDE DEF almost, full, sized
  <2>9. Reads(sized, a \o <<b>>, full)
    BY <2>1, <2>4, <2>7, <2>8, ReadsConcat
  <2>. QED
    BY <2>1, <2>9, Zenon
<1>8. <<c>> \o <<Logs!Newline>> \in Seq(Nat) /\ <<c>> \o <<Logs!Newline>> \o size \in Seq(Nat)
      /\ <<c>> \o <<Logs!Newline>> \o size \o value \in Seq(Nat)
  BY <1>1, <1>2
<1>. HIDE DEF first, named, sized, full, last
<1>9. Reads(Idle(lines, entries), <<c>> \o <<Logs!Newline>>, named)
  BY <1>1, <1>3, <1>4, ReadsConcat
<1>10. Reads(Idle(lines, entries), <<c>> \o <<Logs!Newline>> \o size, sized)
  BY <1>2, <1>6, <1>8, <1>9, ReadsConcat
<1>11. Reads(Idle(lines, entries), <<c>> \o <<Logs!Newline>> \o size \o value, full)
  BY <1>7, <1>8, <1>10, ReadsConcat
<1>12. Reads(Idle(lines, entries), <<c>> \o <<Logs!Newline>> \o size \o value \o <<Logs!Newline>>, last)
  BY <1>1, <1>5, <1>8, <1>11, ReadsConcat
<1>. QED
  BY <1>12 DEF last, size, more

\* The fields of an entry, from its lines.
NoField == [name |-> <<>>, fields |-> <<>>]

IsFieldRun(f, lines) ==
    f = [n \in 0..Len(lines) |-> IF n = 0 THEN [name |-> <<>>, fields |-> <<>>] ELSE Logs!TakeLine(f[n - 1], lines[n])]

FieldRuns(lines, K, T) ==
    {g \in [0..K -> T] : g[0] = NoField /\ \A n \in 1..K : g[n] = Logs!TakeLine(g[n - 1], lines[n])}

LEMMA FieldsAre ==
    ASSUME NEW lines, NEW K \in Nat, Len(lines) = K, NEW T, NEW g \in FieldRuns(lines, K, T)
    PROVE  Logs!Fields(lines) = g[K].fields
<1>0. g \in [0..K -> T] /\ g[0] = NoField /\ \A n \in 1..K : g[n] = Logs!TakeLine(g[n - 1], lines[n])
  BY DEF FieldRuns
<1>. DEFINE upTo == CHOOSE f : IsFieldRun(f, lines)
<1>1. Logs!Fields(lines) = upTo[K].fields
  BY DEF Logs!Fields, IsFieldRun
<1>2. IsFieldRun(g, lines)
  <2>0. \A n \in 0..K : n = 0 \/ n \in 1..K
    OBVIOUS
  <2>1. \A n \in 0..K : g[n] = IF n = 0 THEN NoField ELSE Logs!TakeLine(g[n - 1], lines[n])
    BY <1>0, <2>0
  <2>2. g = [n \in 0..K |-> IF n = 0 THEN NoField ELSE Logs!TakeLine(g[n - 1], lines[n])]
    BY <1>0, <2>1
  <2>. QED
    BY <2>2 DEF IsFieldRun, NoField
<1>3. IsFieldRun(upTo, lines)
  BY <1>2
<1>. HIDE DEF upTo
<1>4. upTo = [n \in 0..K |-> IF n = 0 THEN NoField ELSE Logs!TakeLine(upTo[n - 1], lines[n])]
  BY <1>3 DEF IsFieldRun, NoField
<1>. DEFINE P == {n \in 0..K : upTo[n] = g[n]}
<1>5. 0 \in P
  <2>1. 0 \in 0..K
    OBVIOUS
  <2>2. upTo[0] = NoField
    BY <1>4, <2>1
  <2>. QED
    BY <1>0, <2>1, <2>2
<1>6. ASSUME NEW n \in P, n < K
      PROVE  n + 1 \in P
  <2>. PICK m \in 1..K : m = n + 1
    BY <1>6
  <2>1. m \in 0..K /\ m # 0 /\ m - 1 = n /\ upTo[n] = g[n]
    OBVIOUS
  <2>2. upTo[m] = Logs!TakeLine(upTo[m - 1], lines[m])
    BY <1>4, <2>1
  <2>3. g[m] = Logs!TakeLine(g[m - 1], lines[m])
    BY <1>0
  <2>4. upTo[m] = g[m]
    BY <2>1, <2>2, <2>3
  <2>. QED
    BY <2>1, <2>4
<1>7. P = 0..K
  <2>1. P \in SUBSET (0..K)
    OBVIOUS
  <2>. HIDE DEF P
  <2>. QED
    BY <1>5, <1>6, <2>1, InductionUpTo
<1>8. upTo[K] = g[K]
  BY <1>7
<1>. QED
  BY <1>1, <1>8

LEMMA TextField ==
    ASSUME NEW c \in Nat, c # Logs!Equals, NEW value \in Seq(Nat), NEW fields
    PROVE  Logs!TakeLine([name |-> <<>>, fields |-> fields], <<c>> \o <<Logs!Equals>> \o value)
             = [name |-> <<>>, fields |-> Append(fields, Logs!Field(<<c>>, value))]
<1>. PICK K \in Nat : K = Len(value)
  OBVIOUS
<1>0. Logs!Equals \in Nat
  BY DEF Logs!Equals
<1>. PICK line : line = <<c>> \o <<Logs!Equals>> \o value
  OBVIOUS
<1>1. /\ line \in Seq(Nat) /\ Len(line) = K + 2
      /\ \A i \in 1..(K + 2) : line[i] = IF i = 1 THEN c ELSE IF i = 2 THEN Logs!Equals ELSE value[i - 2]
  BY <1>0
<1>2. Logs!Contains(line, Logs!Equals)
  <2>1. 2 \in 1..Len(line) /\ line[2] = Logs!Equals
    BY <1>1
  <2>. QED
    BY <2>1 DEF Logs!Contains
<1>. DEFINE at == Logs!Min({i \in DOMAIN line : line[i] = Logs!Equals})
<1>3. at = 2
  <2>. DEFINE S == {i \in DOMAIN line : line[i] = Logs!Equals}
  <2>1. DOMAIN line = 1..(K + 2)
    BY <1>1
  <2>2. S \in SUBSET Nat /\ 2 \in S /\ 1 \notin S /\ 0 \notin S
    BY <1>1, <2>1
  <2>. HIDE DEF S
  <2>3. Logs!Min(S) \in S /\ \A y \in S : Logs!Min(S) <= y
    BY <2>2, LogsLeast
  <2>4. Logs!Min(S) \in Nat /\ Logs!Min(S) <= 2 /\ Logs!Min(S) # 1 /\ Logs!Min(S) # 0
    BY <2>2, <2>3
  <2>5. Logs!Min(S) = 2
    BY <2>4
  <2>. QED
    BY <2>5, Zenon DEF S
<1>4. SubSeq(line, 1, 1) = <<c>>
  <2>. PICK rest : rest = SubSeq(line, 1, 1)
    OBVIOUS
  <2>1. line[1] \in Nat /\ line[1] = c
    BY <1>1
  <2>2. rest \in Seq(Nat) /\ Len(rest) = 1 /\ rest[1] = c
    BY <1>1, <2>1
  <2>. DEFINE d == <<c>>
  <2>3. d \in Seq(Nat) /\ Len(d) = 1 /\ d[1] = c
    OBVIOUS
  <2>. HIDE DEF d
  <2>4. \A i \in 1..Len(rest) : rest[i] = d[i]
    BY <2>2, <2>3
  <2>5. rest = d
    BY <2>2, <2>3, <2>4, SeqEqual
  <2>6. rest = <<c>>
    BY <2>5 DEF d
  <2>. QED
    BY <2>6
<1>5. SubSeq(line, 3, K + 2) = value
  <2>. PICK rest : rest = SubSeq(line, 3, K + 2)
    OBVIOUS
  <2>1. \A i \in 3..(K + 2) : line[i] \in Nat
    BY <1>1
  <2>2. rest \in Seq(Nat) /\ Len(rest) = K /\ \A i \in 1..K : rest[i] = line[3 + i - 1]
    BY <1>1, <2>1
  <2>3. \A i \in 1..K : 3 + i - 1 \in 1..(K + 2) /\ 3 + i - 1 # 1 /\ 3 + i - 1 # 2 /\ 3 + i - 1 - 2 = i
    OBVIOUS
  <2>4. \A i \in 1..K : rest[i] = value[i]
    BY <1>1, <2>2, <2>3
  <2>5. rest = value
    BY <2>2, <2>4, SeqEqual
  <2>. QED
    BY <2>5
<1>. HIDE DEF at
<1>6. Logs!Split(line) = Logs!Field(<<c>>, value)
  <2>1. Logs!Split(line) = Logs!Field(SubSeq(line, 1, at - 1), SubSeq(line, at + 1, Len(line)))
    BY DEF Logs!Split, at
  <2>2. at - 1 = 1 /\ at + 1 = 3 /\ Len(line) = K + 2
    BY <1>1, <1>3
  <2>3. Logs!Split(line) = Logs!Field(SubSeq(line, 1, 1), SubSeq(line, 3, K + 2))
    BY <2>1, <2>2, Zenon
  <2>. QED
    BY <1>4, <1>5, <2>3, Zenon
<1>. DEFINE s == [name |-> <<>>, fields |-> fields]
<1>7. s.name = <<>> /\ s.fields = fields
  OBVIOUS
<1>. HIDE DEF s
<1>8. Logs!TakeLine(s, line) = [name |-> <<>>, fields |-> Append(fields, Logs!Field(<<c>>, value))]
  BY <1>2, <1>6, <1>7, Zenon DEF Logs!TakeLine
<1>. QED
  BY <1>8 DEF s

LEMMA NameField ==
    ASSUME NEW c \in Nat, c # Logs!Equals, NEW fields
    PROVE  Logs!TakeLine([name |-> <<>>, fields |-> fields], <<c>>) = [name |-> <<c>>, fields |-> fields]
<1>. PICK line : line = <<c>>
  OBVIOUS
<1>1. ~Logs!Contains(line, Logs!Equals)
  BY DEF Logs!Contains
<1>. DEFINE s == [name |-> <<>>, fields |-> fields]
<1>2. s.name = <<>> /\ s.fields = fields
  OBVIOUS
<1>. HIDE DEF s
<1>3. Logs!TakeLine(s, line) = [name |-> line, fields |-> fields]
  BY <1>1, <1>2, Zenon DEF Logs!TakeLine
<1>. QED
  BY <1>3 DEF s

LEMMA DataField ==
    ASSUME NEW c \in Nat, NEW size \in Seq(Nat), Len(size) = 8, NEW value \in Seq(Nat), NEW fields
    PROVE  Logs!TakeLine([name |-> <<c>>, fields |-> fields], size \o value)
             = [name |-> <<>>, fields |-> Append(fields, Logs!Field(<<c>>, value))]
<1>. PICK K \in Nat : K = Len(value)
  OBVIOUS
<1>. PICK line : line = size \o value
  OBVIOUS
<1>1. line \in Seq(Nat) /\ Len(line) = K + 8 /\ \A i \in 1..(K + 8) : line[i] = IF i <= 8 THEN size[i] ELSE value[i - 8]
  <2>1. /\ size \o value \in Seq(Nat)
        /\ Len(size \o value) = Len(size) + Len(value)
        /\ \A i \in 1..(Len(size) + Len(value)) :
             (size \o value)[i] = IF i <= Len(size) THEN size[i] ELSE value[i - Len(size)]
    BY ConcatProperties
  <2>2. Len(size) + Len(value) = K + 8
    OBVIOUS
  <2>. QED
    BY <2>1, <2>2
<1>2. SubSeq(line, Logs!SizeBytes + 1, Len(line)) = value
  <2>. PICK rest : rest = SubSeq(line, 9, K + 8)
    OBVIOUS
  <2>1. \A i \in 9..(K + 8) : line[i] \in Nat
    BY <1>1
  <2>2. rest \in Seq(Nat) /\ Len(rest) = K /\ \A i \in 1..K : rest[i] = line[9 + i - 1]
    BY <1>1, <2>1
  <2>3. \A i \in 1..K : 9 + i - 1 \in 1..(K + 8) /\ ~(9 + i - 1 <= 8) /\ 9 + i - 1 - 8 = i
    OBVIOUS
  <2>4. \A i \in 1..K : rest[i] = value[i]
    BY <1>1, <2>2, <2>3
  <2>5. rest = value
    BY <2>2, <2>4, SeqEqual
  <2>. QED
    BY <1>1, <2>5 DEF Logs!SizeBytes
<1>. DEFINE s == [name |-> <<c>>, fields |-> fields]
<1>3. s.name = <<c>> /\ s.fields = fields /\ <<c>> # <<>>
  OBVIOUS
<1>. HIDE DEF s
<1>4. Logs!TakeLine(s, line) = [name |-> <<>>, fields |-> Append(fields, Logs!Field(<<c>>, value))]
  BY <1>2, <1>3, Zenon DEF Logs!TakeLine
<1>. QED
  BY <1>4 DEF s

\* Short sequences.
LEMMA AppendedIs ==
    ASSUME NEW S, NEW s \in Seq(S), NEW t \in Seq(S), NEW d \in S,
           Len(t) = Len(s) + 1, \A i \in 1..Len(s) : t[i] = s[i], t[Len(s) + 1] = d
    PROVE  Append(s, d) = t
<1>. PICK N \in Nat : N = Len(s)
  OBVIOUS
<1>. DEFINE r == Append(s, d)
<1>1. r \in Seq(S) /\ Len(r) = N + 1 /\ (\A i \in 1..N : r[i] = s[i]) /\ r[N + 1] = d
  BY AppendProperties
<1>. HIDE DEF r
<1>2. \A i \in 1..(N + 1) : i \in 1..N \/ i = N + 1
  OBVIOUS
<1>3. \A i \in 1..(N + 1) : r[i] = t[i]
  BY <1>1, <1>2
<1>4. r = t
  BY <1>1, <1>3, SeqEqual
<1>. QED
  BY <1>4 DEF r

LEMMA AppendToFew ==
    ASSUME NEW a, NEW b, NEW c, NEW d
    PROVE  /\ Append(<<a>>, b) = <<a, b>>
           /\ Append(<<a, b>>, c) = <<a, b, c>>
           /\ Append(<<a, b, c>>, d) = <<a, b, c, d>>
<1>. DEFINE S == {a, b, c, d}
            s == <<a>>
            t == <<a, b>>
            u == <<a, b, c>>
            v == <<a, b, c, d>>
<1>1. s \in Seq(S) /\ Len(s) = 1 /\ s[1] = a
  OBVIOUS
<1>2. t \in Seq(S) /\ Len(t) = 2 /\ t[1] = a /\ t[2] = b
  OBVIOUS
<1>3. u \in Seq(S) /\ Len(u) = 3 /\ u[1] = a /\ u[2] = b /\ u[3] = c
  OBVIOUS
<1>4. v \in Seq(S) /\ Len(v) = 4 /\ v[1] = a /\ v[2] = b /\ v[3] = c /\ v[4] = d
  OBVIOUS
<1>5. b \in S /\ c \in S /\ d \in S
  OBVIOUS
<1>. HIDE DEF S, s, t, u, v
<1>6. Append(s, b) = t
  <2>1. \A i \in 1..Len(s) : t[i] = s[i]
    BY <1>1, <1>2
  <2>2. Len(t) = Len(s) + 1 /\ t[Len(s) + 1] = b
    BY <1>1, <1>2
  <2>. QED
    BY <1>1, <1>2, <1>5, <2>1, <2>2, AppendedIs
<1>7. Append(t, c) = u
  <2>1. \A i \in 1..Len(t) : u[i] = t[i]
    BY <1>2, <1>3
  <2>2. Len(u) = Len(t) + 1 /\ u[Len(t) + 1] = c
    BY <1>2, <1>3
  <2>. QED
    BY <1>2, <1>3, <1>5, <2>1, <2>2, AppendedIs
<1>8. Append(u, d) = v
  <2>1. \A i \in 1..Len(u) : v[i] = u[i]
    BY <1>3, <1>4
  <2>2. Len(v) = Len(u) + 1 /\ v[Len(u) + 1] = d
    BY <1>3, <1>4
  <2>. QED
    BY <1>3, <1>4, <1>5, <2>1, <2>2, AppendedIs
<1>. QED
  BY <1>6, <1>7, <1>8, Zenon DEF s, t, u, v

LEMMA AppendToNone == ASSUME NEW a PROVE Append(<<>>, a) = <<a>>
<1>. DEFINE S == {a}
            s == <<a>>
<1>1. s \in Seq(S) /\ Len(s) = 1 /\ s[1] = a /\ a \in S /\ <<>> \in Seq(S) /\ Len(<<>>) = 0
  OBVIOUS
<1>. HIDE DEF S, s
<1>2. \A i \in 1..Len(<<>>) : s[i] = <<>>[i]
  BY <1>1
<1>3. Append(<<>>, a) = s
  BY <1>1, <1>2, AppendedIs
<1>. QED
  BY <1>3 DEF s
LEMMA FieldsOfThree ==
    ASSUME NEW l1, NEW l2, NEW l3, NEW a1, NEW a2, NEW a3,
           Logs!TakeLine(NoField, l1) = a1, Logs!TakeLine(a1, l2) = a2, Logs!TakeLine(a2, l3) = a3
    PROVE  Logs!Fields(<<l1, l2, l3>>) = a3.fields
<1>. DEFINE lines == <<l1, l2, l3>>
            T == {NoField, a1, a2, a3}
            g == [n \in 0..3 |-> IF n = 0 THEN NoField ELSE IF n = 1 THEN a1 ELSE IF n = 2 THEN a2 ELSE a3]
<1>1. Len(lines) = 3 /\ lines[1] = l1 /\ lines[2] = l2 /\ lines[3] = l3
  OBVIOUS
<1>2. g \in [0..3 -> T] /\ g[0] = NoField /\ g[1] = a1 /\ g[2] = a2 /\ g[3] = a3
  OBVIOUS
<1>. HIDE DEF lines, g, T
<1>3. ASSUME NEW n \in 1..3
      PROVE  g[n] = Logs!TakeLine(g[n - 1], lines[n])
  <2>1. CASE n = 1
    <3>1. n - 1 = 0
      BY <2>1
    <3>. QED
      BY <1>1, <1>2, <2>1, <3>1, Zenon
  <2>2. CASE n = 2
    <3>1. n - 1 = 1
      BY <2>2
    <3>. QED
      BY <1>1, <1>2, <2>2, <3>1, Zenon
  <2>3. CASE n = 3
    <3>1. n - 1 = 2
      BY <2>3
    <3>. QED
      BY <1>1, <1>2, <2>3, <3>1, Zenon
  <2>. QED
    BY <2>1, <2>2, <2>3
<1>4. Logs!Fields(lines) = g[3].fields
  <2>1. g \in FieldRuns(lines, 3, T)
    BY <1>2, <1>3 DEF FieldRuns
  <2>2. 3 \in Nat
    OBVIOUS
  <2>. QED
    BY <1>1, <2>1, <2>2, FieldsAre
<1>. QED
  BY <1>2, <1>4 DEF lines

LEMMA FieldsOfFour ==
    ASSUME NEW l1, NEW l2, NEW l3, NEW l4, NEW a1, NEW a2, NEW a3, NEW a4,
           Logs!TakeLine(NoField, l1) = a1, Logs!TakeLine(a1, l2) = a2, Logs!TakeLine(a2, l3) = a3, Logs!TakeLine(a3, l4) = a4
    PROVE  Logs!Fields(<<l1, l2, l3, l4>>) = a4.fields
<1>. DEFINE lines == <<l1, l2, l3, l4>>
            T == {NoField, a1, a2, a3, a4}
            g == [n \in 0..4 |-> IF n = 0 THEN NoField ELSE IF n = 1 THEN a1 ELSE IF n = 2 THEN a2
                                 ELSE IF n = 3 THEN a3 ELSE a4]
<1>1. Len(lines) = 4 /\ lines[1] = l1 /\ lines[2] = l2 /\ lines[3] = l3 /\ lines[4] = l4
  OBVIOUS
<1>2. g \in [0..4 -> T] /\ g[0] = NoField /\ g[1] = a1 /\ g[2] = a2 /\ g[3] = a3 /\ g[4] = a4
  OBVIOUS
<1>. HIDE DEF lines, g, T
<1>3. ASSUME NEW n \in 1..4
      PROVE  g[n] = Logs!TakeLine(g[n - 1], lines[n])
  <2>1. CASE n = 1
    <3>1. n - 1 = 0
      BY <2>1
    <3>. QED
      BY <1>1, <1>2, <2>1, <3>1, Zenon
  <2>2. CASE n = 2
    <3>1. n - 1 = 1
      BY <2>2
    <3>. QED
      BY <1>1, <1>2, <2>2, <3>1, Zenon
  <2>3. CASE n = 3
    <3>1. n - 1 = 2
      BY <2>3
    <3>. QED
      BY <1>1, <1>2, <2>3, <3>1, Zenon
  <2>4. CASE n = 4
    <3>1. n - 1 = 3
      BY <2>4
    <3>. QED
      BY <1>1, <1>2, <2>4, <3>1, Zenon
  <2>. QED
    BY <2>1, <2>2, <2>3, <2>4
<1>4. Logs!Fields(lines) = g[4].fields
  <2>1. g \in FieldRuns(lines, 4, T)
    BY <1>2, <1>3 DEF FieldRuns
  <2>2. 4 \in Nat
    OBVIOUS
  <2>. QED
    BY <1>1, <2>1, <2>2, FieldsAre
<1>. QED
  BY <1>2, <1>4 DEF lines

\* What the parser makes of one entry of the journal.
EntryOf(i) ==
    <<Logs!Field(Logs!Name("__CURSOR"), Logs!Cursor(i)), Logs!Field(Logs!Name("MESSAGE"), log[i]), Logs!Field(Logs!Name("PRIORITY"), <<54>>)>>

\* Plain text is left as it is.
IsPlain(v) == v \in Seq(Nat) /\ \A i \in 1..Len(v) : v[i] < 128

IsDecoding(f, bytes) ==
    f = [n \in 0..Len(bytes) |->
           IF n = 0 THEN [text |-> <<>>, part |-> <<>>] ELSE Logs!Decode(f[n - 1], bytes[n])]

LEMMA DecodePlain ==
    ASSUME NEW text, NEW b \in Nat, b < 128
    PROVE  Logs!Decode([text |-> text, part |-> <<>>], b) = [text |-> Append(text, b), part |-> <<>>]
<1>. DEFINE s == [text |-> text, part |-> <<>>]
<1>1. s.part = <<>> /\ s.text = text
  OBVIOUS
<1>. HIDE DEF s
<1>2. ~Logs!Follows(s.part, b)
  BY <1>1 DEF Logs!Follows
<1>3. Logs!Completed(s) = text
  BY <1>1 DEF Logs!Completed
<1>4. Logs!Width(b) = 1
  BY DEF Logs!Width
<1>5. Logs!Decode(s, b) = [text |-> Append(text, b), part |-> <<>>]
  BY <1>2, <1>3, <1>4 DEF Logs!Decode
<1>. QED
  BY <1>5 DEF s

LEMMA PlainStays ==
    ASSUME NEW v, IsPlain(v)
    PROVE  Logs!Lossy(v) = v
<1>. PICK N \in Nat : N = Len(v)
  BY DEF IsPlain
<1>0. v \in Seq(Nat) /\ \A i \in 1..N : v[i] \in Nat /\ v[i] < 128
  BY DEF IsPlain
<1>. DEFINE D(n) == [text |-> SubSeq(v, 1, n), part |-> <<>>]
            g == [n \in 0..N |-> D(n)]
            upTo == CHOOSE f : IsDecoding(f, v)
<1>1. D(0) = [text |-> <<>>, part |-> <<>>]
  BY <1>0
<1>2. ASSUME NEW n \in 1..N
      PROVE  D(n) = Logs!Decode(D(n - 1), v[n])
  <2>1. SubSeq(v, 1, n) = Append(SubSeq(v, 1, n - 1), v[n])
    <3>1. SubSeq(v, 1, n) = SubSeq(v, 1, n - 1) \o <<v[n]>>
      BY <1>0, SubSeqRecursiveSecond
    <3>2. SubSeq(v, 1, n - 1) \in Seq(Nat) /\ v[n] \in Nat
      BY <1>0
    <3>3. Append(SubSeq(v, 1, n - 1), v[n]) = SubSeq(v, 1, n - 1) \o <<v[n]>>
      BY <3>2, AppendIsConcat
    <3>. QED
      BY <3>1, <3>3
  <2>2. Logs!Decode(D(n - 1), v[n]) = [text |-> Append(SubSeq(v, 1, n - 1), v[n]), part |-> <<>>]
    BY <1>0, DecodePlain
  <2>. QED
    BY <2>1, <2>2
<1>3. \A n \in 0..N : g[n] = D(n)
  OBVIOUS
<1>4. g[0] = [text |-> <<>>, part |-> <<>>] /\ \A n \in 1..N : g[n] = Logs!Decode(g[n - 1], v[n])
  <2>1. 0 \in 0..N /\ \A n \in 1..N : n \in 0..N /\ n - 1 \in 0..N
    OBVIOUS
  <2>. HIDE DEF g, D
  <2>. QED
    BY <1>1, <1>2, <1>3, <2>1
<1>5. Logs!Completed(g[N]) = v
  <2>1. g[N] = D(N)
    BY <1>3
  <2>2. D(N).part = <<>> /\ D(N).text = SubSeq(v, 1, N)
    OBVIOUS
  <2>3. SubSeq(v, 1, N) = v
    BY <1>0, SubSeqFull
  <2>. HIDE DEF D, g
  <2>. QED
    BY <2>1, <2>2, <2>3 DEF Logs!Completed
<1>6. g = [n \in 0..N |-> g[n]]
  OBVIOUS
<1>. HIDE DEF g, D
<1>7. IsDecoding(g, v)
  <2>1. \A n \in 0..N : n = 0 \/ n \in 1..N
    OBVIOUS
  <2>2. \A n \in 0..N : g[n] = IF n = 0 THEN [text |-> <<>>, part |-> <<>>] ELSE Logs!Decode(g[n - 1], v[n])
    BY <1>4, <2>1
  <2>3. g = [n \in 0..N |-> IF n = 0 THEN [text |-> <<>>, part |-> <<>>] ELSE Logs!Decode(g[n - 1], v[n])]
    BY <1>6, <2>2
  <2>. QED
    BY <2>3 DEF IsDecoding
<1>8. Logs!Lossy(v) = Logs!Completed(upTo[N])
  BY DEF Logs!Lossy, IsDecoding
<1>9. IsDecoding(upTo, v)
  BY <1>7
<1>. HIDE DEF upTo
<1>10. upTo[0] = [text |-> <<>>, part |-> <<>>] /\ \A n \in 1..N : upTo[n] = Logs!Decode(upTo[n - 1], v[n])
  <2>1. upTo = [n \in 0..N |-> IF n = 0 THEN [text |-> <<>>, part |-> <<>>] ELSE Logs!Decode(upTo[n - 1], v[n])]
    BY <1>9 DEF IsDecoding
  <2>2. 0 \in 0..N /\ \A n \in 1..N : n \in 0..N /\ n # 0
    OBVIOUS
  <2>. QED
    BY <2>1, <2>2
<1>. DEFINE P == {n \in 0..N : upTo[n] = g[n]}
<1>11. P = 0..N
  <2>1. P \in SUBSET (0..N) /\ 0 \in P
    BY <1>4, <1>10
  <2>2. ASSUME NEW n \in P, n < N
        PROVE  n + 1 \in P
    <3>. PICK m \in 1..N : m = n + 1
      BY <2>2
    <3>1. m - 1 = n /\ m \in 0..N /\ upTo[n] = g[n]
      OBVIOUS
    <3>2. upTo[m] = Logs!Decode(upTo[n], v[m]) /\ g[m] = Logs!Decode(g[n], v[m])
      BY <1>4, <1>10, <3>1
    <3>. QED
      BY <3>1, <3>2
  <2>. HIDE DEF P
  <2>. QED
    BY <2>1, <2>2, InductionUpTo
<1>12. upTo[N] = g[N]
  BY <1>11
<1>. QED
  BY <1>5, <1>8, <1>12

LEMMA PlainLine ==
    ASSUME NEW c \in Nat, c # Logs!Newline, NEW value, IsPlain(value), \A i \in 1..Len(value) : value[i] # Logs!Newline
    PROVE  /\ ~Logs!Binary(value)
           /\ \A lines, entries : Reads(Idle(lines, entries), <<c>> \o <<Logs!Equals>> \o value \o <<Logs!Newline>>,
                                        Idle(Append(lines, <<c>> \o <<Logs!Equals>> \o value), entries))
<1>1. ~Logs!Binary(value)
  BY PlainStays, Zenon DEF Logs!Contains, Logs!Binary
<1>2. value \in Seq(Nat)
  BY DEF IsPlain
<1>. QED
  BY <1>1, <1>2, TextLine

LEMMA CursorIsPlain ==
    ASSUME NEW i \in Nat
    PROVE  /\ IsPlain(Logs!Cursor(i)) /\ Len(Logs!Cursor(i)) = i
           /\ \A k \in 1..Len(Logs!Cursor(i)) : Logs!Cursor(i)[k] # Logs!Newline
<1>. DEFINE v == Logs!Cursor(i)
<1>1. v \in [1..i -> {99}] /\ \A k \in 1..i : v[k] = 99
  BY DEF Logs!Cursor
<1>. HIDE DEF v
<1>2. v \in Seq({99}) /\ Len(v) = i
  BY <1>1, FunctionIsSequence
<1>3. v \in Seq(Nat)
  BY <1>2
<1>4. IsPlain(v) /\ \A k \in 1..Len(v) : v[k] # Logs!Newline
  BY <1>1, <1>2, <1>3 DEF IsPlain, Logs!Newline
<1>. QED
  BY <1>2, <1>4 DEF v

LEMMA LettersArePlain ==
    ASSUME NEW b \in Nat, b < 128, b # Logs!Newline
    PROVE  IsPlain(<<b>>) /\ (\A k \in 1..Len(<<b>>) : <<b>>[k] # Logs!Newline) /\ Logs!Lossy(<<b>>) = <<b>>
<1>. DEFINE v == <<b>>
<1>1. v \in Seq(Nat) /\ Len(v) = 1 /\ v[1] = b
  OBVIOUS
<1>. HIDE DEF v
<1>2. \A k \in 1..Len(v) : v[k] = b
  BY <1>1
<1>3. IsPlain(v) /\ \A k \in 1..Len(v) : v[k] # Logs!Newline
  BY <1>1, <1>2 DEF IsPlain
<1>. QED
  BY <1>3, PlainStays DEF v

LEMMA NamesAre ==
    /\ Logs!Name("__CURSOR") = <<67>> /\ Logs!Name("MESSAGE") = <<77>> /\ Logs!Name("PRIORITY") = <<80>>
  BY DEF Logs!Name

LEMMA ExportedIsRead ==
    ASSUME NEW i \in Nat, log[i] \in Seq(Nat), NEW entries
    PROVE  /\ Logs!Exported(i) \in Seq(Nat)
           /\ Reads(Idle(<<>>, entries), Logs!Exported(i), Idle(<<>>, Append(entries, EntryOf(i))))
<1>. PICK message \in Seq(Nat) : message = log[i]
  OBVIOUS
<1>. DEFINE cursorBytes == <<67>> \o <<Logs!Equals>> \o Logs!Cursor(i) \o <<Logs!Newline>>
            messageBytes == Logs!Line("MESSAGE", message)
            priorityBytes == <<80>> \o <<Logs!Equals>> \o <<54>> \o <<Logs!Newline>>
            l1 == <<67>> \o <<Logs!Equals>> \o Logs!Cursor(i)
            l4 == <<80>> \o <<Logs!Equals>> \o <<54>>
            F1 == Logs!Field(<<67>>, Logs!Cursor(i))
            F2 == Logs!Field(<<77>>, message)
            F3 == Logs!Field(<<80>>, <<54>>)
            read == Idle(<<>>, Append(entries, EntryOf(i)))
<1>1. 67 \in Nat /\ 77 \in Nat /\ 80 \in Nat /\ 54 \in Nat /\ 54 < 128 /\ Logs!Newline \in Nat /\ Logs!Equals \in Nat
      /\ 67 # Logs!Newline /\ 77 # Logs!Newline /\ 80 # Logs!Newline /\ 54 # Logs!Newline
      /\ 67 # Logs!Equals /\ 77 # Logs!Equals /\ 80 # Logs!Equals
  BY DEF Logs!Newline, Logs!Equals
<1>2. /\ ~Logs!Binary(Logs!Cursor(i))
      /\ \A lines : Reads(Idle(lines, entries), cursorBytes, Idle(Append(lines, l1), entries))
  BY <1>1, CursorIsPlain, PlainLine
<1>3. /\ ~Logs!Binary(<<54>>)
      /\ \A lines : Reads(Idle(lines, entries), priorityBytes, Idle(Append(lines, l4), entries))
  <2>1. IsPlain(<<54>>) /\ \A k \in 1..Len(<<54>>) : <<54>>[k] # Logs!Newline
    BY <1>1, LettersArePlain
  <2>. QED
    BY <1>1, <2>1, PlainLine
<1>4. Logs!Exported(i) = cursorBytes \o messageBytes \o priorityBytes \o <<Logs!Newline>>
  <2>1. Logs!Line("__CURSOR", Logs!Cursor(i)) = cursorBytes
    BY <1>2, NamesAre, Zenon DEF Logs!Line
  <2>2. Logs!Line("PRIORITY", <<54>>) = priorityBytes
    BY <1>3, NamesAre, Zenon DEF Logs!Line
  <2>. QED
    BY <2>1, <2>2, Zenon DEF Logs!Exported
<1>5. cursorBytes \in Seq(Nat) /\ priorityBytes \in Seq(Nat) /\ <<Logs!Newline>> \in Seq(Nat)
      /\ Logs!Cursor(i) \in Seq(Nat) /\ <<54>> \in Seq(Nat)
  <2>1. Logs!Cursor(i) \in Seq(Nat)
    BY CursorIsPlain DEF IsPlain
  <2>. QED
    BY <1>1, <2>1
<1>6. EntryOf(i) = <<F1, F2, F3>>
  BY NamesAre, Zenon DEF EntryOf
<1>7. /\ \A fields : Logs!TakeLine([name |-> <<>>, fields |-> fields], l1) = [name |-> <<>>, fields |-> Append(fields, F1)]
      /\ \A fields : Logs!TakeLine([name |-> <<>>, fields |-> fields], l4) = [name |-> <<>>, fields |-> Append(fields, F3)]
  BY <1>1, <1>5, TextField
<1>. DEFINE a1 == [name |-> <<>>, fields |-> <<F1>>]
            a2 == [name |-> <<>>, fields |-> <<F1, F2>>]
            a3 == [name |-> <<>>, fields |-> <<F1, F2, F3>>]
<1>. HIDE DEF l1, l4, F1, F2, F3, cursorBytes, messageBytes, priorityBytes
<1>8. Logs!TakeLine(NoField, l1) = a1 /\ Logs!TakeLine(a2, l4) = a3
  <2>1. Append(<<>>, F1) = <<F1>> /\ Append(<<F1, F2>>, F3) = <<F1, F2, F3>>
    BY AppendToNone, AppendToFew
  <2>. QED
    BY <1>7, <2>1, Zenon DEF NoField
<1>9. a3.fields = EntryOf(i)
  BY <1>6
<1>10. Reads(Idle(<<>>, entries), cursorBytes, Idle(<<l1>>, entries))
  <2>1. Append(<<>>, l1) = <<l1>>
    BY AppendToNone
  <2>. QED
    BY <1>2, <2>1, Zenon
<1>11. /\ messageBytes \in Seq(Nat)
       /\ \E lines : /\ lines # <<>> /\ Logs!Fields(lines) = EntryOf(i)
                     /\ \E most : /\ lines = Append(most, l4)
                                  /\ Reads(Idle(<<l1>>, entries), messageBytes, Idle(most, entries))
  <2>1. CASE Logs!Binary(message)
    <3>. DEFINE size == Logs!Size(Len(message))
    <3>0. size \in Seq(Nat) /\ Len(size) = 8
      BY SizeIs
    <3>1. Len(message) # 0
      <4>. SUFFICES ASSUME Len(message) = 0 PROVE FALSE
        OBVIOUS
      <4>1. IsPlain(message)
        BY DEF IsPlain
      <4>2. ~Logs!Contains(message, Logs!Newline)
        BY DEF Logs!Contains
      <4>. QED
        BY <2>1, <4>1, <4>2, PlainStays DEF Logs!Binary
    <3>2. messageBytes = <<77>> \o <<Logs!Newline>> \o size \o message \o <<Logs!Newline>>
      BY <2>1, NamesAre, Zenon DEF Logs!Line, messageBytes
    <3>3. messageBytes \in Seq(Nat)
      BY <1>1, <1>5, <3>0, <3>2
    <3>. DEFINE l2 == <<77>>
                l3 == size \o message
                b == [name |-> <<77>>, fields |-> <<F1>>]
    <3>4. Reads(Idle(<<l1>>, entries), messageBytes, Idle(Append(Append(<<l1>>, l2), l3), entries))
      BY <1>1, <3>1, <3>2, DataLine
    <3>5. Logs!TakeLine(a1, l2) = b
      BY <1>1, NameField
    <3>6. Logs!TakeLine(b, l3) = [name |-> <<>>, fields |-> Append(<<F1>>, F2)]
      <4>1. \A fields : Logs!TakeLine([name |-> <<77>>, fields |-> fields], size \o message)
                           = [name |-> <<>>, fields |-> Append(fields, Logs!Field(<<77>>, message))]
        <5>. HIDE DEF size
        <5>1. 77 \in Nat /\ message \in Seq(Nat)
          OBVIOUS
        <5>. QED
          BY <3>0, <5>1, DataField, Zenon
      <4>. QED
        BY <4>1, Zenon DEF F2
    <3>7. Append(<<F1>>, F2) = <<F1, F2>>
      BY AppendToFew
    <3>8. Logs!TakeLine(b, l3) = a2
      BY <3>6, <3>7, Zenon
    <3>. HIDE DEF l2, l3, a1, a2, a3, b
    <3>9. Append(Append(<<l1>>, l2), l3) = <<l1, l2, l3>> /\ Append(<<l1, l2, l3>>, l4) = <<l1, l2, l3, l4>>
          /\ <<l1, l2, l3, l4>> # <<>>
      <4>1. <<l1, l2, l3, l4>> # <<>>
        OBVIOUS
      <4>2. Append(<<l1>>, l2) = <<l1, l2>> /\ Append(<<l1, l2>>, l3) = <<l1, l2, l3>>
            /\ Append(<<l1, l2, l3>>, l4) = <<l1, l2, l3, l4>>
        BY AppendToFew
      <4>. QED
        BY <4>1, <4>2, Zenon
    <3>10. Logs!Fields(<<l1, l2, l3, l4>>) = a3.fields
      BY <1>8, <3>5, <3>8, FieldsOfFour
    <3>. QED
      BY <1>9, <3>3, <3>4, <3>9, <3>10, Zenon
  <2>2. CASE ~Logs!Binary(message)
    <3>1. \A k \in 1..Len(message) : message[k] # Logs!Newline
      BY <2>2, Zenon DEF Logs!Contains, Logs!Binary
    <3>2. messageBytes = <<77>> \o <<Logs!Equals>> \o message \o <<Logs!Newline>>
      BY <2>2, NamesAre, Zenon DEF Logs!Line, messageBytes
    <3>3. messageBytes \in Seq(Nat)
      BY <1>1, <1>5, <3>2
    <3>. DEFINE l2 == <<77>> \o <<Logs!Equals>> \o message
    <3>4. Reads(Idle(<<l1>>, entries), messageBytes, Idle(Append(<<l1>>, l2), entries))
      BY <1>1, <3>1, <3>2, TextLine
    <3>5. Logs!TakeLine(a1, l2) = [name |-> <<>>, fields |-> Append(<<F1>>, F2)]
      BY <1>1, TextField DEF F2
    <3>6. Append(<<F1>>, F2) = <<F1, F2>>
      BY AppendToFew
    <3>7. Logs!TakeLine(a1, l2) = a2
      BY <3>5, <3>6, Zenon
    <3>. HIDE DEF l2, a1, a2, a3
    <3>8. Append(<<l1>>, l2) = <<l1, l2>> /\ Append(<<l1, l2>>, l4) = <<l1, l2, l4>> /\ <<l1, l2, l4>> # <<>>
      <4>1. <<l1, l2, l4>> # <<>>
        OBVIOUS
      <4>. QED
        BY <4>1, AppendToFew, Zenon
    <3>9. Logs!Fields(<<l1, l2, l4>>) = a3.fields
      BY <1>8, <3>7, FieldsOfThree
    <3>. QED
      BY <1>9, <3>3, <3>4, <3>8, <3>9, Zenon
  <2>. QED
    BY <2>1, <2>2
<1>12. PICK lines, most :
         /\ lines # <<>> /\ Logs!Fields(lines) = EntryOf(i) /\ lines = Append(most, l4)
         /\ Reads(Idle(<<l1>>, entries), messageBytes, Idle(most, entries))
  BY <1>11, Zenon
<1>13. Reads(Idle(most, entries), priorityBytes, Idle(lines, entries))
  BY <1>3, <1>12, Zenon
<1>14. Logs!ReadByte(Idle(lines, entries), Logs!Newline) = read
  BY <1>12, EntryEnd
<1>15. Reads(Idle(lines, entries), <<Logs!Newline>>, read)
  BY <1>14, ReadsOne
<1>16. cursorBytes \o messageBytes \in Seq(Nat) /\ cursorBytes \o messageBytes \o priorityBytes \in Seq(Nat)
       /\ cursorBytes \o messageBytes \o priorityBytes \o <<Logs!Newline>> \in Seq(Nat)
  BY <1>5, <1>11
<1>. HIDE DEF read
<1>17. Reads(Idle(<<>>, entries), cursorBytes \o messageBytes, Idle(most, entries))
  BY <1>5, <1>10, <1>11, <1>12, ReadsConcat
<1>18. Reads(Idle(<<>>, entries), cursorBytes \o messageBytes \o priorityBytes, Idle(lines, entries))
  BY <1>5, <1>13, <1>16, <1>17, ReadsConcat
<1>19. Reads(Idle(<<>>, entries), cursorBytes \o messageBytes \o priorityBytes \o <<Logs!Newline>>, read)
  BY <1>5, <1>15, <1>16, <1>18, ReadsConcat
<1>. QED
  BY <1>4, <1>16, <1>19, Zenon DEF read

\* Some of the journal, and what is printed of it.
LogIsText == log \in Seq(Seq(Nat))

EntriesOf(after, count) == [k \in 1..count |-> EntryOf(after + k)]

LEMMA ReadsNothing ==
    ASSUME NEW s
    PROVE  Reads(s, <<>>, s)
<1>. DEFINE f == [n \in 0..0 |-> s]
            c == <<>>
<1>1. f[0] = s /\ Len(c) = 0
  OBVIOUS
<1>2. f = [n \in 0..0 |-> IF n = 0 THEN s ELSE Logs!ReadByte(f[n - 1], c[n])]
  <2>1. \A n \in 0..0 : n = 0
    OBVIOUS
  <2>. QED
    BY <2>1
<1>. HIDE DEF f
<1>3. IsRun(f, s, c) /\ f[Len(c)] = s
  BY <1>1, <1>2 DEF IsRun
<1>. QED
  BY <1>3 DEF Reads

LEMMA MoreEntries ==
    ASSUME NEW after, NEW count \in Nat
    PROVE  Append(EntriesOf(after, count), EntryOf(after + (count + 1))) = EntriesOf(after, count + 1)
<1>. DEFINE T == {EntryOf(after + k) : k \in 1..(count + 1)}
            s == EntriesOf(after, count)
            t == EntriesOf(after, count + 1)
            d == EntryOf(after + (count + 1))
<1>1. s \in [1..count -> T] /\ \A k \in 1..count : s[k] = EntryOf(after + k)
  BY DEF EntriesOf
<1>2. t \in [1..(count + 1) -> T] /\ \A k \in 1..(count + 1) : t[k] = EntryOf(after + k)
  BY DEF EntriesOf
<1>3. d \in T
  <2>1. count + 1 \in 1..(count + 1)
    OBVIOUS
  <2>. QED
    BY <2>1
<1>. HIDE DEF s, t, T
<1>4. s \in Seq(T) /\ Len(s) = count
  BY <1>1, FunctionIsSequence
<1>5. t \in Seq(T) /\ Len(t) = count + 1
  <2>. PICK K \in Nat : K = count + 1
    OBVIOUS
  <2>1. t \in [1..K -> T]
    BY <1>2
  <2>2. t \in Seq(T) /\ Len(t) = K
    BY <2>1, FunctionIsSequence
  <2>. QED
    BY <2>2
<1>6. (\A k \in 1..Len(s) : t[k] = s[k]) /\ Len(t) = Len(s) + 1
  <2>1. \A k \in 1..count : k \in 1..(count + 1)
    OBVIOUS
  <2>. QED
    BY <1>1, <1>2, <1>4, <1>5, <2>1
<1>7. t[Len(s) + 1] = d
  <2>1. count + 1 \in 1..(count + 1)
    OBVIOUS
  <2>. QED
    BY <1>2, <1>4, <2>1
<1>. HIDE DEF d
<1>8. Append(s, d) = t
  BY <1>3, <1>4, <1>5, <1>6, <1>7, AppendedIs
<1>. QED
  BY <1>8 DEF s, t, d

IsExport(f, after, count) == f = [n \in 0..count |-> IF n = 0 THEN <<>> ELSE f[n - 1] \o Logs!Exported(after + n)]

LEMMA ExportIsRead ==
    ASSUME LogIsText, NEW after \in Nat, NEW last \in Nat, after <= last, last <= Len(log)
    PROVE  /\ Logs!Export(after, last) \in Seq(Nat)
           /\ Reads(Idle(<<>>, <<>>), Logs!Export(after, last), Idle(<<>>, EntriesOf(after, last - after)))
<1>. PICK N \in Nat : N = last - after
  OBVIOUS
<1>. DEFINE upTo == CHOOSE f : IsExport(f, after, N)
            start == Idle(<<>>, <<>>)
<1>1. Logs!Export(after, last) = upTo[N]
  BY DEF Logs!Export, IsExport
<1>2. \A n \in 1..N : after + n \in Nat /\ log[after + n] \in Seq(Nat)
  BY DEF LogIsText
<1>3. \A n \in 1..N : Logs!Exported(after + n) \in Seq(Nat)
  BY <1>2, ExportedIsRead
<1>4. \E f : IsExport(f, after, N)
  <2>. DEFINE Next1(n, s) == IF n < N THEN s \o Logs!Exported(after + (n + 1)) ELSE s
              step == [n \in Nat |-> [s \in Seq(Nat) |-> Next1(n, s)]]
  <2>1. ASSUME NEW n \in Nat, NEW s \in Seq(Nat)
        PROVE  Next1(n, s) \in Seq(Nat)
    <3>1. CASE n < N
      <4>1. n + 1 \in 1..N
        BY <3>1
      <4>2. Logs!Exported(after + (n + 1)) \in Seq(Nat)
        BY <1>3, <4>1
      <4>3. s \o Logs!Exported(after + (n + 1)) \in Seq(Nat)
        BY <4>2, ConcatProperties
      <4>. QED
        BY <3>1, <4>3
    <3>2. CASE ~(n < N)
      BY <3>2
    <3>. QED
      BY <3>1, <3>2
  <2>. HIDE DEF Next1
  <2>2. step \in [Nat -> [Seq(Nat) -> Seq(Nat)]] /\ \A n \in Nat, s \in Seq(Nat) : step[n][s] = Next1(n, s)
    BY <2>1
  <2>. HIDE DEF step
  <2>3. <<>> \in Seq(Nat)
    OBVIOUS
  <2>4. BehaviourUpTo(N, Seq(Nat), <<>>, step) # {}
    BY <2>2, <2>3, RecursionUpTo
  <2>. PICK f : f \in BehaviourUpTo(N, Seq(Nat), <<>>, step)
    BY <2>4
  <2>5. f \in [0..N -> Seq(Nat)] /\ f[0] = <<>> /\ \A n \in 1..N : f[n] = step[n - 1][f[n - 1]]
    BY DEF BehaviourUpTo
  <2>6. ASSUME NEW n \in 1..N
        PROVE  f[n] = f[n - 1] \o Logs!Exported(after + n)
    <3>. PICK m \in Nat : m = n - 1
      OBVIOUS
    <3>1. m < N /\ m + 1 = n /\ m \in 0..N
      OBVIOUS
    <3>2. f[m] \in Seq(Nat) /\ f[n] = step[m][f[m]]
      BY <2>5, <3>1
    <3>3. f[n] = Next1(m, f[m])
      BY <2>2, <3>2
    <3>4. f[n] = f[m] \o Logs!Exported(after + (m + 1))
      BY <3>1, <3>3 DEF Next1
    <3>. QED
      BY <3>1, <3>4
  <2>7. \A n \in 0..N : n = 0 \/ n \in 1..N
    OBVIOUS
  <2>8. \A n \in 0..N : f[n] = IF n = 0 THEN <<>> ELSE f[n - 1] \o Logs!Exported(after + n)
    BY <2>5, <2>6, <2>7
  <2>9. f = [n \in 0..N |-> IF n = 0 THEN <<>> ELSE f[n - 1] \o Logs!Exported(after + n)]
    BY <2>5, <2>8
  <2>. QED
    BY <2>9 DEF IsExport
<1>5. IsExport(upTo, after, N)
  BY <1>4
<1>. HIDE DEF upTo
<1>6. upTo = [n \in 0..N |-> IF n = 0 THEN <<>> ELSE upTo[n - 1] \o Logs!Exported(after + n)]
  BY <1>5 DEF IsExport
<1>7. upTo[0] = <<>> /\ \A n \in 1..N : upTo[n] = upTo[n - 1] \o Logs!Exported(after + n)
  <2>1. 0 \in 0..N /\ \A n \in 1..N : n \in 0..N /\ n # 0
    OBVIOUS
  <2>2. upTo[0] = <<>>
    BY <1>6, <2>1
  <2>3. ASSUME NEW n \in 1..N
        PROVE  upTo[n] = upTo[n - 1] \o Logs!Exported(after + n)
    BY <1>6, <2>1
  <2>. QED
    BY <2>2, <2>3
<1>. DEFINE P == {n \in 0..N : upTo[n] \in Seq(Nat) /\ Reads(start, upTo[n], Idle(<<>>, EntriesOf(after, n)))}
<1>8. 0 \in P
  <2>1. EntriesOf(after, 0) = <<>>
    BY DEF EntriesOf
  <2>2. Reads(start, <<>>, start) /\ <<>> \in Seq(Nat) /\ 0 \in 0..N
    BY ReadsNothing
  <2>. QED
    BY <1>7, <2>1, <2>2
<1>9. ASSUME NEW n \in P, n < N
      PROVE  n + 1 \in P
  <2>. PICK m \in 1..N : m = n + 1
    BY <1>9
  <2>1. m - 1 = n /\ m \in 0..N /\ n \in Nat /\ after + m \in Nat /\ after + m = after + (n + 1)
    OBVIOUS
  <2>. DEFINE e == EntriesOf(after, n)
              r == Idle(<<>>, EntriesOf(after, m))
  <2>2. upTo[n] \in Seq(Nat) /\ Reads(start, upTo[n], Idle(<<>>, e))
    OBVIOUS
  <2>3. Logs!Exported(after + m) \in Seq(Nat)
    BY <1>3
  <2>4. Append(e, EntryOf(after + m)) = EntriesOf(after, m)
    BY <2>1, MoreEntries
  <2>5. Reads(Idle(<<>>, e), Logs!Exported(after + m), Idle(<<>>, Append(e, EntryOf(after + m))))
    <3>. HIDE DEF e
    <3>. QED
      BY <1>2, ExportedIsRead
  <2>6. Reads(Idle(<<>>, e), Logs!Exported(after + m), r)
    BY <2>4, <2>5, Zenon
  <2>. HIDE DEF e, r, start
  <2>7. Reads(start, upTo[n] \o Logs!Exported(after + m), r)
    BY <2>2, <2>3, <2>6, ReadsConcat
  <2>8. upTo[m] = upTo[n] \o Logs!Exported(after + m)
    BY <1>7, <2>1
  <2>9. upTo[m] \in Seq(Nat) /\ Reads(start, upTo[m], r)
    <3>1. upTo[n] \o Logs!Exported(after + m) \in Seq(Nat)
      BY <2>2, <2>3, ConcatProperties
    <3>. QED
      BY <2>7, <2>8, <3>1
  <2>10. m \in P
    BY <2>1, <2>9 DEF r
  <2>. QED
    BY <2>10
<1>10. P = 0..N
  <2>1. P \in SUBSET (0..N)
    OBVIOUS
  <2>. HIDE DEF P
  <2>. QED
    BY <1>8, <1>9, <2>1, InductionUpTo
<1>11. N \in P
  BY <1>10
<1>. QED
  BY <1>1, <1>11

LEMMA ParsedIs ==
    ASSUME NEW body \in Seq(Nat), NEW entries, Reads(Idle(<<>>, <<>>), body, Idle(<<>>, entries))
    PROVE  Logs!Parsed(body) = Idle(<<>>, entries)
<1>. DEFINE upTo == CHOOSE f : IsRun(f, Logs!NotStarted, body)
            read == upTo[Len(body)]
<1>1. Logs!Parsed(body) = IF read.mode \in {"size", "data"} THEN read ELSE Logs!EndEntry(read)
  BY DEF Logs!Parsed, IsRun
<1>2. Logs!NotStarted = Idle(<<>>, <<>>)
  BY DEF Logs!NotStarted, Idle, Reader
<1>. PICK f : IsRun(f, Logs!NotStarted, body) /\ f[Len(body)] = Idle(<<>>, entries)
  BY <1>2 DEF Reads
<1>3. IsRun(upTo, Logs!NotStarted, body)
  OBVIOUS
<1>. HIDE DEF upTo
<1>4. read = f[Len(body)]
  BY <1>3, RunsAgree
<1>5. read = Idle(<<>>, entries)
  BY <1>4
<1>6. Idle(<<>>, entries).mode = "NotStarted"
  BY DEF Idle, Reader
<1>7. Logs!EndEntry(Idle(<<>>, entries)) = Idle(<<>>, entries)
  BY EntryIsEnded
<1>. HIDE DEF read
<1>. QED
  BY <1>1, <1>5, <1>6, <1>7

\* The fields of an entry.
LEMMA ValuesAre ==
    ASSUME NEW i \in Nat
    PROVE  /\ Logs!HasCursor(EntryOf(i))
           /\ Logs!ValueOf(EntryOf(i), "__CURSOR") = Logs!Cursor(i)
           /\ Logs!ValueOf(EntryOf(i), "MESSAGE") = Logs!Lossy(log[i])
<1>. DEFINE e == EntryOf(i)
            First == {k \in DOMAIN e : e[k].name = Logs!Name("__CURSOR")}
            Second == {k \in DOMAIN e : e[k].name = Logs!Name("MESSAGE")}
<1>1. /\ DOMAIN e = 1..3
      /\ e[1] = Logs!Field(<<67>>, Logs!Cursor(i)) /\ e[2] = Logs!Field(<<77>>, log[i]) /\ e[3] = Logs!Field(<<80>>, <<54>>)
  BY NamesAre DEF EntryOf
<1>. HIDE DEF e
<1>2. /\ e[1].name = <<67>> /\ e[2].name = <<77>> /\ e[3].name = <<80>>
      /\ e[1].value = Logs!Cursor(i) /\ e[2].value = Logs!Lossy(log[i])
  <2>1. Logs!Lossy(<<67>>) = <<67>> /\ Logs!Lossy(<<77>>) = <<77>> /\ Logs!Lossy(<<80>>) = <<80>>
    BY LettersArePlain DEF Logs!Newline
  <2>2. Logs!Lossy(Logs!Cursor(i)) = Logs!Cursor(i)
    BY CursorIsPlain, PlainStays
  <2>. QED
    BY <1>1, <2>1, <2>2 DEF Logs!Field
<1>3. <<67>> # <<77>> /\ <<67>> # <<80>> /\ <<77>> # <<80>>
  OBVIOUS
<1>4. \A k \in 1..3 : k = 1 \/ k = 2 \/ k = 3
  OBVIOUS
<1>5. First = {1}
  BY <1>1, <1>2, <1>3, <1>4, NamesAre
<1>6. Second = {2}
  BY <1>1, <1>2, <1>3, <1>4, NamesAre
<1>7. Logs!Min({1}) = 1 /\ Logs!Min({2}) = 2
  <2>1. {1} \in SUBSET Nat /\ {2} \in SUBSET Nat /\ {1} # {} /\ {2} # {}
    OBVIOUS
  <2>2. Logs!Min({1}) \in {1} /\ Logs!Min({2}) \in {2}
    BY <2>1, LogsLeast
  <2>. QED
    BY <2>2
<1>8. Logs!HasCursor(e)
  <2>1. 1 \in DOMAIN e
    BY <1>1
  <2>. QED
    BY <1>2, <2>1, NamesAre DEF Logs!HasCursor
<1>9. Logs!ValueOf(e, "__CURSOR") = e[Logs!Min(First)].value /\ Logs!ValueOf(e, "MESSAGE") = e[Logs!Min(Second)].value
  BY DEF Logs!ValueOf
<1>. HIDE DEF First, Second
<1>10. Logs!ValueOf(e, "__CURSOR") = Logs!Cursor(i) /\ Logs!ValueOf(e, "MESSAGE") = Logs!Lossy(log[i])
  BY <1>2, <1>5, <1>6, <1>7, <1>9, Zenon
<1>. QED
  BY <1>8, <1>10 DEF e

\* log-fetcher does not panic, and knows all of what it asked for.
LEMMA JournalIsParsed ==
    ASSUME LogIsText, NEW after \in Nat, NEW last \in Nat, after <= last, last <= Len(log)
    PROVE  /\ ~Logs!Panics(Logs!Parsed(Logs!Export(after, last)))
           /\ Logs!Parsed(Logs!Export(after, last)).entries = EntriesOf(after, last - after)
<1>. PICK N \in Nat : N = last - after
  OBVIOUS
<1>. DEFINE parsed == Logs!Parsed(Logs!Export(after, last))
            entries == EntriesOf(after, N)
<1>1. parsed = Idle(<<>>, entries)
  BY ExportIsRead, ParsedIs
<1>. HIDE DEF parsed
<1>2. parsed.mode = "NotStarted" /\ parsed.entries = entries
  BY <1>1 DEF Idle, Reader
<1>3. \A i \in DOMAIN entries : Logs!HasCursor(entries[i])
  BY ValuesAre DEF EntriesOf
<1>. HIDE DEF entries
<1>4. ~Logs!Panics(parsed)
  BY <1>2, <1>3 DEF Logs!Panics
<1>. QED
  BY <1>2, <1>4 DEF parsed, entries

IsPrinted(f, entries, at) ==
    f = [n \in 0..Len(entries) |->
           IF n = 0 THEN <<>>
           ELSE IF Logs!ValueOf(entries[n], "__CURSOR") = Logs!Cursor(at) THEN f[n - 1]
           ELSE Append(f[n - 1], Logs!ValueOf(entries[n], "MESSAGE"))]

LEMMA ShownIs ==
    ASSUME NEW S, NEW l \in Seq(S)
    PROVE  /\ Logs!Shown(l) \in Seq({Logs!Lossy(l[i]) : i \in 1..Len(l)})
           /\ Len(Logs!Shown(l)) = Len(l)
           /\ \A i \in 1..Len(l) : Logs!Shown(l)[i] = Logs!Lossy(l[i])
<1>. PICK N \in Nat : N = Len(l)
  OBVIOUS
<1>. DEFINE Text == {Logs!Lossy(l[i]) : i \in 1..N}
            shown == Logs!Shown(l)
<1>1. shown = [i \in 1..N |-> Logs!Lossy(l[i])]
  BY DEF Logs!Shown
<1>2. shown \in [1..N -> Text] /\ \A i \in 1..N : shown[i] = Logs!Lossy(l[i])
  BY <1>1
<1>. HIDE DEF shown, Text
<1>3. shown \in Seq(Text) /\ Len(shown) = N
  BY <1>2, FunctionIsSequence
<1>. QED
  BY <1>2, <1>3 DEF shown, Text

\* Each of the entries after the cursor is printed.
LEMMA PrintedIs ==
    ASSUME LogIsText, NEW at \in Nat, NEW last \in Nat, at <= last, last <= Len(log)
    PROVE  Logs!Printed(EntriesOf(at, last - at), at) = SubSeq(Logs!Shown(log), at + 1, last)
<1>. PICK N \in Nat : N = last - at
  OBVIOUS
<1>. DEFINE Text == {Logs!Lossy(log[i]) : i \in 1..Len(log)}
<1>. PICK shown : shown = Logs!Shown(log)
  OBVIOUS
<1>0. shown \in Seq(Text) /\ Len(shown) = Len(log) /\ \A i \in 1..Len(log) : shown[i] = Logs!Lossy(log[i])
  BY ShownIs DEF LogIsText
<1>. PICK L \in Nat : L = Len(log)
  BY DEF LogIsText
<1>. HIDE DEF Text
<1>. DEFINE entries == EntriesOf(at, N)
            upTo == CHOOSE f : IsPrinted(f, entries, at)
            g == [n \in 0..N |-> SubSeq(shown, at + 1, at + n)]
<1>1. entries \in [1..N -> {EntryOf(at + k) : k \in 1..N}] /\ \A n \in 1..N : entries[n] = EntryOf(at + n)
  BY DEF EntriesOf
<1>. HIDE DEF entries
<1>2. Len(entries) = N
  BY <1>1, FunctionIsSequence
<1>3. \A n \in 1..N : Logs!ValueOf(entries[n], "__CURSOR") = Logs!Cursor(at + n) /\ Logs!ValueOf(entries[n], "MESSAGE") = shown[at + n]
  <2>1. ASSUME NEW n \in 1..N
        PROVE  Logs!ValueOf(entries[n], "__CURSOR") = Logs!Cursor(at + n) /\ Logs!ValueOf(entries[n], "MESSAGE") = shown[at + n]
    <3>. PICK i \in 1..L : i = at + n
      OBVIOUS
    <3>1. i \in Nat
      OBVIOUS
    <3>2. Logs!ValueOf(EntryOf(i), "__CURSOR") = Logs!Cursor(i) /\ Logs!ValueOf(EntryOf(i), "MESSAGE") = Logs!Lossy(log[i])
      BY <3>1, ValuesAre
    <3>. QED
      BY <1>0, <1>1, <3>2
  <2>. QED
    BY <2>1
<1>4. \A n \in 1..N : Logs!ValueOf(entries[n], "__CURSOR") # Logs!Cursor(at)
  <2>1. ASSUME NEW n \in 1..N
        PROVE  Logs!Cursor(at + n) # Logs!Cursor(at)
    <3>1. Len(Logs!Cursor(at + n)) = at + n /\ Len(Logs!Cursor(at)) = at
      BY CursorIsPlain
    <3>2. at + n # at
      OBVIOUS
    <3>. QED
      BY <3>1, <3>2
  <2>. QED
    BY <1>3, <2>1
<1>5. g[0] = <<>> /\ \A n \in 1..N : g[n] = Append(g[n - 1], shown[at + n])
  <2>0. shown \in Seq(Text) /\ Len(shown) = Len(log)
    BY <1>0
  <2>1. SubSeq(shown, at + 1, at) = <<>>
    BY <2>0
  <2>2. g[0] = SubSeq(shown, at + 1, at)
    OBVIOUS
  <2>3. ASSUME NEW n \in 1..N
        PROVE  g[n] = Append(g[n - 1], shown[at + n])
    <3>. PICK M \in Nat : M = at + n
      OBVIOUS
    <3>1. at + 1 \in 1..Len(log) /\ M \in (at + 1)..Len(log) /\ at + (n - 1) = M - 1
      BY <2>0
    <3>2. SubSeq(shown, at + 1, M) = SubSeq(shown, at + 1, M - 1) \o <<shown[M]>>
      BY <2>0, <3>1, SubSeqRecursiveSecond
    <3>3. SubSeq(shown, at + 1, M - 1) \in Seq(Text) /\ shown[M] \in Text
      <4>1. \A i \in (at + 1)..(M - 1) : shown[i] \in Text
        BY <2>0, <3>1
      <4>2. at + 1 \in Int /\ M - 1 \in Int
        OBVIOUS
      <4>3. SubSeq(shown, at + 1, M - 1) \in Seq(Text)
        BY <4>1, <4>2, SubSeqProperties
      <4>. QED
        BY <2>0, <3>1, <4>3
    <3>4. Append(SubSeq(shown, at + 1, M - 1), shown[M]) = SubSeq(shown, at + 1, M - 1) \o <<shown[M]>>
      BY <3>3, AppendIsConcat
    <3>5. g[n] = SubSeq(shown, at + 1, M) /\ g[n - 1] = SubSeq(shown, at + 1, M - 1)
      <4>1. n \in 0..N /\ n - 1 \in 0..N
        OBVIOUS
      <4>2. g[n] = SubSeq(shown, at + 1, at + n) /\ g[n - 1] = SubSeq(shown, at + 1, at + (n - 1))
        BY <4>1
      <4>3. at + n = M /\ at + (n - 1) = M - 1
        OBVIOUS
      <4>. HIDE DEF g
      <4>. QED
        BY <4>2, <4>3, Zenon
    <3>. HIDE DEF g
    <3>6. at + n = M
      OBVIOUS
    <3>. QED
      BY <3>2, <3>4, <3>5, <3>6, Zenon
  <2>. HIDE DEF g
  <2>. QED
    BY <2>1, <2>2, <2>3
<1>6. g[N] = SubSeq(shown, at + 1, last)
  OBVIOUS
<1>7. g = [n \in 0..N |-> g[n]]
  OBVIOUS
<1>. HIDE DEF g
<1>8. IsPrinted(g, entries, at)
  <2>1. \A n \in 0..N : n = 0 \/ n \in 1..N
    OBVIOUS
  <2>2. \A n \in 0..N : g[n] = IF n = 0 THEN <<>>
                               ELSE IF Logs!ValueOf(entries[n], "__CURSOR") = Logs!Cursor(at) THEN g[n - 1]
                               ELSE Append(g[n - 1], Logs!ValueOf(entries[n], "MESSAGE"))
    BY <1>3, <1>4, <1>5, <2>1
  <2>3. g = [n \in 0..N |-> IF n = 0 THEN <<>>
                            ELSE IF Logs!ValueOf(entries[n], "__CURSOR") = Logs!Cursor(at) THEN g[n - 1]
                            ELSE Append(g[n - 1], Logs!ValueOf(entries[n], "MESSAGE"))]
    BY <1>7, <2>2
  <2>. QED
    BY <1>2, <2>3 DEF IsPrinted
<1>9. Logs!Printed(entries, at) = upTo[N]
  BY <1>2 DEF Logs!Printed, IsPrinted
<1>10. IsPrinted(upTo, entries, at)
  BY <1>8
<1>. HIDE DEF upTo
<1>11. upTo = [n \in 0..N |-> IF n = 0 THEN <<>>
                            ELSE IF Logs!ValueOf(entries[n], "__CURSOR") = Logs!Cursor(at) THEN upTo[n - 1]
                            ELSE Append(upTo[n - 1], Logs!ValueOf(entries[n], "MESSAGE"))]
  BY <1>2, <1>10 DEF IsPrinted
<1>12. upTo[0] = <<>> /\ \A n \in 1..N : upTo[n] = Append(upTo[n - 1], shown[at + n])
  <2>1. 0 \in 0..N /\ \A n \in 1..N : n \in 0..N /\ n # 0
    OBVIOUS
  <2>2. upTo[0] = <<>>
    BY <1>11, <2>1
  <2>3. ASSUME NEW n \in 1..N
        PROVE  upTo[n] = Append(upTo[n - 1], shown[at + n])
    <3>1. upTo[n] = Append(upTo[n - 1], Logs!ValueOf(entries[n], "MESSAGE"))
      BY <1>4, <1>11, <2>1
    <3>. QED
      BY <1>3, <3>1
  <2>. QED
    BY <2>2, <2>3
<1>. DEFINE P == {n \in 0..N : upTo[n] = g[n]}
<1>13. P = 0..N
  <2>1. P \in SUBSET (0..N) /\ 0 \in P
    BY <1>5, <1>12
  <2>2. ASSUME NEW n \in P, n < N
        PROVE  n + 1 \in P
    <3>. PICK m \in 1..N : m = n + 1
      BY <2>2
    <3>1. m - 1 = n /\ m \in 0..N /\ upTo[n] = g[n]
      OBVIOUS
    <3>2. upTo[m] = Append(upTo[n], shown[at + m]) /\ g[m] = Append(g[n], shown[at + m])
      BY <1>5, <1>12, <3>1
    <3>. QED
      BY <3>1, <3>2
  <2>. HIDE DEF P
  <2>. QED
    BY <2>1, <2>2, InductionUpTo
<1>14. upTo[N] = g[N]
  BY <1>13
<1>. QED
  BY <1>6, <1>9, <1>14 DEF entries

-----------------------------------------------------------------------------
\* What is printed is the journal from one cursor to another.
JournalInv ==
    fetcher = "journal" =>
      /\ log \in Seq(Messages)
      /\ cursor \in 0..Len(log) /\ file \in 0..Len(log) /\ from \in 0..cursor
      /\ out = SubSeq(Logs!Shown(log), from + 1, cursor)

LEMMA PrefixStays ==
    ASSUME NEW m, log \in Seq(Messages), m \in Messages, NEW c \in 0..Len(log), NEW f \in 0..c
    PROVE  /\ Append(log, m) \in Seq(Messages) /\ Len(Append(log, m)) = Len(log) + 1
           /\ SubSeq(Logs!Shown(Append(log, m)), f + 1, c) = SubSeq(Logs!Shown(log), f + 1, c)
<1>. PICK N \in Nat : N = Len(log)
  OBVIOUS
<1>. DEFINE more == Append(log, m)
<1>1. more \in Seq(Messages) /\ Len(more) = N + 1 /\ \A i \in 1..N : more[i] = log[i]
  BY AppendProperties
<1>. HIDE DEF more
<1>. DEFINE T == {Logs!Lossy(more[i]) : i \in 1..(N + 1)}
            shown == Logs!Shown(log)
            shownMore == Logs!Shown(more)
            s == SubSeq(shownMore, f + 1, c)
            t == SubSeq(shown, f + 1, c)
<1>2. f + 1 \in Int /\ c \in Int /\ \A i \in (f + 1)..c : i \in 1..N /\ i \in 1..(N + 1)
  OBVIOUS
<1>3. \A i \in 1..N : shown[i] = Logs!Lossy(log[i])
  BY ShownIs
<1>4. \A i \in 1..(N + 1) : shownMore[i] = Logs!Lossy(more[i])
  BY <1>1, ShownIs
<1>5. \A i \in 1..(N + 1) : shownMore[i] \in T
  BY <1>4
<1>. HIDE DEF shown, shownMore, T
<1>6. \A i \in (f + 1)..c : shownMore[i] \in T /\ shown[i] = shownMore[i]
  BY <1>1, <1>2, <1>3, <1>4, <1>5
<1>7. \A i \in (f + 1)..c : shown[i] \in T /\ shownMore[i] \in T
  BY <1>6
<1>8. /\ t \in Seq(T) /\ Len(t) = IF f + 1 <= c THEN c - (f + 1) + 1 ELSE 0
      /\ \A i \in 1..(c - (f + 1) + 1) : t[i] = shown[f + 1 + i - 1]
  BY <1>2, <1>7, SubSeqProperties
<1>9. /\ s \in Seq(T) /\ Len(s) = IF f + 1 <= c THEN c - (f + 1) + 1 ELSE 0
      /\ \A i \in 1..(c - (f + 1) + 1) : s[i] = shownMore[f + 1 + i - 1]
  BY <1>2, <1>7, SubSeqProperties
<1>. HIDE DEF s, t
<1>10. \A i \in 1..(c - (f + 1) + 1) : f + 1 + i - 1 \in (f + 1)..c
  OBVIOUS
<1>11. Len(s) = Len(t) /\ \A i \in 1..Len(s) : i \in 1..(c - (f + 1) + 1)
  BY <1>8, <1>9
<1>12. \A i \in 1..Len(s) : s[i] = t[i]
  BY <1>6, <1>8, <1>9, <1>10, <1>11
<1>13. s = t
  BY <1>8, <1>9, <1>11, <1>12, SeqEqual
<1>. QED
  BY <1>1, <1>13 DEF s, t, more, shown, shownMore

LEMMA TextIsText ==
    ASSUME TextsAreBytes, log \in Seq(Messages)
    PROVE  LogIsText
<1>1. \A m \in Messages : m \in Seq(Nat)
  <2>1. \A m \in Messages : m \in Seq(0..255)
    BY DEF TextsAreBytes
  <2>2. 0..255 \subseteq Nat
    OBVIOUS
  <2>3. Seq(0..255) \subseteq Seq(Nat)
    BY <2>2, SeqMonotonic
  <2>. QED
    BY <2>1, <2>3
<1>2. Messages \subseteq Seq(Nat)
  BY <1>1
<1>. QED
  BY <1>2, SeqMonotonic DEF LogIsText

LEMMA AdjacentParts ==
    ASSUME NEW T, NEW q \in Seq(T), NEW a \in Nat, NEW b \in Nat, NEW d \in Nat, a <= b, b <= d, d <= Len(q)
    PROVE  SubSeq(q, a + 1, b) \o SubSeq(q, b + 1, d) = SubSeq(q, a + 1, d)
<1>1. a + 1 \in 1..(Len(q) + 1) /\ b \in (a + 1 - 1)..Len(q) /\ d \in b..Len(q)
  OBVIOUS
<1>. QED
  BY <1>1, ConcatAdjacentSubSeq

LEMMA JournalFetch ==
    ASSUME TextsAreBytes, Batch \in Nat \ {0}, fetcher = "journal", JournalInv, Logs!FetchJournal
    PROVE  /\ cursor' \in cursor..Len(log)
           /\ out' = SubSeq(Logs!Shown(log), from + 1, cursor')
           /\ UNCHANGED <<fetcher, log, oldest, file, reader, from, crashes, failures>>
<1>. DEFINE skip == IF cursor = 0 THEN 0 ELSE 1
            first == IF cursor = 0 THEN 1 ELSE cursor
            last == Logs!Min({Len(log), first + skip + Batch - 1})
            parsed == Logs!Parsed(Logs!Export(first + skip - 1, last))
<1>1. /\ log \in Seq(Messages) /\ cursor \in 0..Len(log) /\ from \in 0..cursor
      /\ out = SubSeq(Logs!Shown(log), from + 1, cursor)
  BY DEF JournalInv
<1>. PICK N \in Nat : N = Len(log)
  BY <1>1
<1>. PICK c \in Nat : c = cursor
  BY <1>1
<1>2. LogIsText
  BY <1>1, TextIsText
<1>3. /\ ~Logs!Panics(parsed) => /\ out' = out \o Logs!Printed(parsed.entries, cursor)
                                 /\ cursor' = IF parsed.entries = <<>> THEN cursor ELSE Logs!NewCursor(parsed.entries)
                                 /\ UNCHANGED <<file, reader, from>>
      /\ UNCHANGED <<fetcher, log, oldest, crashes, failures>>
  BY DEF Logs!FetchJournal
<1>4. first + skip - 1 = c
  BY <1>1
<1>5. last \in Nat /\ c <= last /\ last <= N
  <2>. DEFINE S == {N, c + Batch}
  <2>1. first + skip + Batch - 1 = c + Batch
    BY <1>4
  <2>2. last = Logs!Min(S)
    BY <2>1
  <2>3. S \in SUBSET Nat /\ S # {} /\ N \in S
    OBVIOUS
  <2>4. \A y \in S : c <= y
    BY <1>1
  <2>. HIDE DEF S, last
  <2>5. Logs!Min(S) \in S /\ Logs!Min(S) <= N
    BY <2>3, LogsLeast
  <2>. QED
    BY <2>2, <2>3, <2>4, <2>5
<1>. HIDE DEF skip, first, last
<1>. DEFINE entries == EntriesOf(c, last - c)
<1>6. ~Logs!Panics(parsed) /\ parsed.entries = entries
  BY <1>2, <1>4, <1>5, JournalIsParsed
<1>. HIDE DEF parsed, entries
<1>7. /\ out' = out \o Logs!Printed(entries, c)
      /\ cursor' = IF entries = <<>> THEN c ELSE Logs!NewCursor(entries)
      /\ UNCHANGED <<fetcher, log, oldest, file, reader, from, crashes, failures>>
  BY <1>3, <1>6
<1>8. Logs!Printed(entries, c) = SubSeq(Logs!Shown(log), c + 1, last)
  BY <1>2, <1>5, PrintedIs DEF entries
<1>9. cursor' = last
  <2>1. entries \in [1..(last - c) -> {EntryOf(c + k) : k \in 1..(last - c)}] /\ \A k \in 1..(last - c) : entries[k] = EntryOf(c + k)
    BY DEF entries, EntriesOf
  <2>2. Len(entries) = last - c
    <3>. PICK K \in Nat : K = last - c
      BY <1>5
    <3>. QED
      BY <2>1, FunctionIsSequence
  <2>3. CASE last = c
    <3>1. entries = <<>>
      BY <2>3 DEF entries, EntriesOf
    <3>. QED
      BY <1>7, <2>3, <3>1
  <2>4. CASE last # c
    <3>. PICK K \in Nat : K = last - c
      BY <1>5
    <3>1. K \in 1..K /\ c + K = last
      BY <1>5, <2>4
    <3>2. entries # <<>> /\ Logs!Last(entries) = EntryOf(last)
      <4>1. Logs!Last(entries) = entries[K]
        BY <2>2 DEF Logs!Last
      <4>2. entries[K] = EntryOf(last)
        BY <2>1, <3>1
      <4>3. Len(entries) # 0
        BY <2>2, <3>1
      <4>. QED
        BY <4>1, <4>2, <4>3
    <3>3. Logs!ValueOf(Logs!Last(entries), "__CURSOR") = Logs!Cursor(last)
      BY <1>5, <3>2, ValuesAre
    <3>4. Logs!NewCursor(entries) = last
      <4>1. Logs!NewCursor(entries) = Len(Logs!Cursor(last))
        BY <3>3, Zenon DEF Logs!NewCursor
      <4>. QED
        BY <1>5, <4>1, CursorIsPlain
    <3>. QED
      BY <1>7, <3>2, <3>4
  <2>. QED
    BY <2>3, <2>4
<1>10. SubSeq(Logs!Shown(log), from + 1, c) \o SubSeq(Logs!Shown(log), c + 1, last) = SubSeq(Logs!Shown(log), from + 1, last)
  <2>. DEFINE T == {Logs!Lossy(log[i]) : i \in 1..Len(log)}
              shown == Logs!Shown(log)
  <2>2. shown \in Seq(T) /\ Len(shown) = N
    <3>1. log \in Seq(Messages)
      BY <1>1
    <3>2. Logs!Shown(log) \in Seq({Logs!Lossy(log[i]) : i \in 1..Len(log)}) /\ Len(Logs!Shown(log)) = Len(log)
      BY <3>1, ShownIs, Zenon
    <3>. QED
      BY <3>2, Zenon
  <2>. HIDE DEF T, shown
  <2>3. SubSeq(shown, from + 1, c) \o SubSeq(shown, c + 1, last) = SubSeq(shown, from + 1, last)
    <3>1. from \in Nat /\ c \in Nat /\ from <= c /\ c <= last /\ last <= Len(shown) /\ last \in Nat
      BY <1>1, <1>5, <2>2
    <3>. QED
      BY <2>2, <3>1, AdjacentParts
  <2>. QED
    BY <2>3 DEF shown
<1>11. out' = SubSeq(Logs!Shown(log), from + 1, last)
  BY <1>1, <1>7, <1>8, <1>10
<1>12. last \in c..N
  BY <1>5
<1>. QED
  BY <1>7, <1>9, <1>11, <1>12

LEMMA JournalStep ==
    ASSUME TextsAreBytes, Batch \in Nat \ {0}, JournalInv, [Logs!Next]_Logs!vars
    PROVE  JournalInv'
<1>. SUFFICES ASSUME fetcher' = "journal" PROVE JournalInv'
  BY DEF JournalInv
<1>0. fetcher = "journal"
  BY DEF Logs!Next, Logs!Write, Logs!Drop, Logs!StartJournal, Logs!FetchJournal, Logs!FetchErrorPage, Logs!StopJournal, Logs!WriteCursor, Logs!Crash,
         Logs!FetchCanister, Logs!RestartCanister, Logs!vars
<1>1. /\ log \in Seq(Messages)
      /\ cursor \in 0..Len(log) /\ file \in 0..Len(log) /\ from \in 0..cursor
      /\ out = SubSeq(Logs!Shown(log), from + 1, cursor)
  BY <1>0 DEF JournalInv
<1>. PICK N \in Nat : N = Len(log)
  BY <1>1
<1>2. CASE Logs!Write
  <2>. PICK m \in Messages : log' = Append(log, m)
    BY <1>0, <1>2 DEF Logs!Write
  <2>1. UNCHANGED <<cursor, file, from, out>>
    BY <1>2 DEF Logs!Write
  <2>2. log' \in Seq(Messages) /\ Len(log') = N + 1 /\ SubSeq(Logs!Shown(log'), from + 1, cursor) = SubSeq(Logs!Shown(log), from + 1, cursor)
    BY <1>1, PrefixStays
  <2>. QED
    BY <1>1, <2>1, <2>2 DEF JournalInv
<1>3. CASE Logs!StartJournal
  <2>1. cursor' = file /\ from' = file /\ out' = <<>> /\ UNCHANGED <<log, file>>
    BY <1>3 DEF Logs!StartJournal
  <2>2. SubSeq(Logs!Shown(log), file + 1, file) = <<>>
    BY <1>1
  <2>. QED
    BY <1>1, <2>1, <2>2 DEF JournalInv
<1>4. CASE Logs!FetchJournal
  <2>1. /\ cursor' \in cursor..Len(log)
        /\ out' = SubSeq(Logs!Shown(log), from + 1, cursor')
        /\ UNCHANGED <<log, file, from>>
    BY <1>0, <1>4, JournalFetch
  <2>2. cursor' \in 0..N /\ from \in 0..cursor'
    BY <1>1, <2>1
  <2>. QED
    BY <1>1, <2>1, <2>2 DEF JournalInv
<1>5. CASE Logs!FetchErrorPage
  <2>1. UNCHANGED <<log, cursor, file, from, out>>
    BY <1>5 DEF Logs!FetchErrorPage, Logs!Dies
  <2>. QED
    BY <1>1, <2>1 DEF JournalInv
<1>6. CASE Logs!StopJournal
  <2>1. UNCHANGED <<log, cursor, from, out>> /\ file' = 0
    BY <1>6 DEF Logs!StopJournal
  <2>. QED
    BY <1>1, <2>1 DEF JournalInv
<1>7. CASE Logs!WriteCursor
  <2>1. UNCHANGED <<log, cursor, from, out>> /\ file' = cursor
    BY <1>7 DEF Logs!WriteCursor
  <2>. QED
    BY <1>1, <2>1 DEF JournalInv
<1>8. CASE Logs!Crash
  <2>1. UNCHANGED <<log, cursor, file, from, out>>
    BY <1>8 DEF Logs!Crash, Logs!Dies
  <2>. QED
    BY <1>1, <2>1 DEF JournalInv
<1>9. CASE UNCHANGED Logs!vars
  BY <1>1, <1>9 DEF JournalInv, Logs!vars
<1>. QED
  BY <1>0, <1>2, <1>3, <1>4, <1>5, <1>6, <1>7, <1>8, <1>9 DEF Logs!Next, Logs!Drop, Logs!FetchCanister, Logs!RestartCanister

LEMMA JournalInit == Logs!Init => JournalInv
<1>. SUFFICES ASSUME Logs!Init, fetcher = "journal" PROVE JournalInv
  BY DEF JournalInv
<1>1. log = <<>> /\ cursor = 0 /\ file = 0 /\ from = 0 /\ out = <<>>
  BY DEF Logs!Init
<1>2. log \in Seq(Messages) /\ Len(log) = 0 /\ SubSeq(Logs!Shown(log), 0 + 1, 0) = <<>>
  BY <1>1
<1>. QED
  BY <1>1, <1>2 DEF JournalInv

\* Spec => []PrintsTheJournal, for messages of any bytes: whatever the journal
\* holds, in whatever batches it is read and wherever the program is killed, a
\* life of log-fetcher prints each message from the cursor it read up to the one
\* it has, changed only where it is not UTF-8, in order, once, and the parser of the
\* export format dies of no answer that a request can get (log-fetcher/src/main.rs,
\* journald_parser.rs).
THEOREM JournalPrinted == TextsAreBytes /\ Batch \in Nat \ {0} /\ Logs!Spec => []Logs!PrintsTheJournal
<1>. SUFFICES ASSUME TextsAreBytes, Batch \in Nat \ {0} PROVE Logs!Spec => []Logs!PrintsTheJournal
  OBVIOUS
<1>1. JournalInv /\ [Logs!Next]_Logs!vars => JournalInv'
  BY JournalStep
<1>2. JournalInv => Logs!PrintsTheJournal
  <2>. SUFFICES ASSUME JournalInv, fetcher = "journal"
                PROVE  /\ out = SubSeq(Logs!Shown(log), from + 1, cursor)
                       /\ \A after \in 0..Len(log) :
                            ~Logs!Panics(Logs!Parsed(Logs!Export(after, Logs!Min({Len(log), after + Batch}))))
    BY DEF Logs!PrintsTheJournal
  <2>1. log \in Seq(Messages)
    BY DEF JournalInv
  <2>. PICK N \in Nat : N = Len(log)
    BY <2>1
  <2>2. ASSUME NEW after \in 0..N
        PROVE  ~Logs!Panics(Logs!Parsed(Logs!Export(after, Logs!Min({N, after + Batch}))))
    <3>. DEFINE S == {N, after + Batch}
                last == Logs!Min(S)
    <3>1. S \in SUBSET Nat /\ S # {} /\ N \in S /\ \A y \in S : after <= y
      OBVIOUS
    <3>. HIDE DEF S
    <3>2. last \in S /\ last <= N
      <4>1. Logs!Min(S) \in S /\ Logs!Min(S) <= N
        BY <3>1, LogsLeast
      <4>. QED
        BY <4>1
    <3>. HIDE DEF last
    <3>3. LogIsText /\ after \in Nat /\ last \in Nat /\ after <= last /\ last <= Len(log)
      BY <2>1, <3>1, <3>2, TextIsText
    <3>4. ~Logs!Panics(Logs!Parsed(Logs!Export(after, last)))
      BY <3>3, JournalIsParsed
    <3>. QED
      BY <3>4 DEF last, S
  <2>. QED
    BY <2>2 DEF JournalInv
<1>. QED
  BY <1>1, <1>2, JournalInit, PTL DEF Logs!Spec

\* Spec => []TypeOK.
LogRest ==
    /\ fetcher \in {"journal", "canister"} /\ Len(log) \in 0..MaxEntries
    /\ oldest \in 1..(Len(log) + 1)
    /\ fetcher = "canister" => file = 0 /\ from = 0 /\ reader # "writing"
    /\ reader \in {"running", "writing", "down"}
    /\ crashes \in 0..MaxCrashes /\ failures \in 0..MaxLogFailures

THEOREM LogTypes == LogNumbers /\ TextsAreBytes /\ Batch \in Nat \ {0} /\ Logs!Spec => []Logs!TypeOK
<1>. SUFFICES ASSUME LogNumbers, TextsAreBytes, Batch \in Nat \ {0} PROVE Logs!Spec => []Logs!TypeOK
  OBVIOUS
<1>1. Logs!Init => LogRest
  <2>. SUFFICES ASSUME Logs!Init PROVE LogRest
    OBVIOUS
  <2>1. log = <<>> /\ Len(log) = 0
    BY DEF Logs!Init
  <2>. QED
    BY <2>1 DEF Logs!Init, LogRest, LogNumbers
<1>2. JournalInv /\ CanisterInv /\ LogRest /\ [Logs!Next]_Logs!vars => LogRest'
  <2>. SUFFICES ASSUME JournalInv, CanisterInv, LogRest, [Logs!Next]_Logs!vars PROVE LogRest'
    OBVIOUS
  <2>0. MaxEntries \in Nat /\ MaxCrashes \in Nat /\ MaxLogFailures \in Nat
    BY DEF LogNumbers
  <2>. PICK N \in Nat : N = Len(log)
    BY DEF LogRest
  <2>1. /\ fetcher \in {"journal", "canister"} /\ N \in 0..MaxEntries
        /\ oldest \in 1..(N + 1)
        /\ fetcher = "canister" => file = 0 /\ from = 0 /\ reader # "writing"
        /\ reader \in {"running", "writing", "down"}
        /\ crashes \in 0..MaxCrashes /\ failures \in 0..MaxLogFailures
    BY DEF LogRest
  <2>2. CASE Logs!Write
    <3>1. UNCHANGED <<fetcher, oldest, file, reader, from, crashes, failures>> /\ N < MaxEntries
      BY <2>2 DEF Logs!Write
    <3>2. log \in Seq(IF fetcher = "journal" THEN Messages ELSE LogEntry) /\ \E m : log' = Append(log, m)
      BY <2>1, <2>2 DEF Logs!Write, JournalInv, CanisterInv
    <3>3. Len(log') = N + 1
      BY <3>2
    <3>. QED
      BY <2>0, <2>1, <3>1, <3>3 DEF LogRest
  <2>3. CASE Logs!Drop
    BY <2>0, <2>1, <2>3 DEF Logs!Drop, LogRest
  <2>4. CASE Logs!StartJournal
    BY <2>0, <2>1, <2>4 DEF Logs!StartJournal, LogRest
  <2>5. CASE Logs!FetchJournal
    <3>1. UNCHANGED <<fetcher, log, oldest, file, from, crashes, failures>> /\ fetcher = "journal"
          /\ (reader' = reader \/ reader' = "down")
      BY <2>5 DEF Logs!FetchJournal, Logs!Dies
    <3>. QED
      BY <2>0, <2>1, <3>1 DEF LogRest
  <2>6. CASE Logs!FetchErrorPage
    <3>1. UNCHANGED <<fetcher, log, oldest, file, from, crashes>> /\ fetcher = "journal"
          /\ (reader' = reader \/ reader' = "down") /\ failures < MaxLogFailures /\ failures' = failures + 1
      BY <2>6 DEF Logs!FetchErrorPage, Logs!Dies
    <3>. QED
      BY <2>0, <2>1, <3>1 DEF LogRest
  <2>7. CASE Logs!StopJournal
    BY <2>0, <2>1, <2>7 DEF Logs!StopJournal, LogRest
  <2>8. CASE Logs!WriteCursor
    BY <2>0, <2>1, <2>8 DEF Logs!WriteCursor, LogRest
  <2>9. CASE Logs!Crash
    BY <2>0, <2>1, <2>9 DEF Logs!Crash, Logs!Dies, LogRest
  <2>10. CASE Logs!FetchCanister
    <3>1. UNCHANGED <<fetcher, log, oldest, file, reader, from, crashes, failures>>
      BY <2>10 DEF Logs!FetchCanister
    <3>. QED
      BY <2>0, <2>1, <3>1 DEF LogRest
  <2>11. CASE Logs!RestartCanister
    BY <2>0, <2>1, <2>11 DEF Logs!RestartCanister, LogRest
  <2>12. CASE UNCHANGED Logs!vars
    BY <2>0, <2>1, <2>12 DEF Logs!vars, LogRest
  <2>. QED
    BY <2>2, <2>3, <2>4, <2>5, <2>6, <2>7, <2>8, <2>9, <2>10, <2>11, <2>12 DEF Logs!Next
<1>3. JournalInv /\ LogRest => Logs!TypeOK
  <2>. SUFFICES ASSUME JournalInv, LogRest PROVE Logs!TypeOK
    OBVIOUS
  <2>. PICK N \in Nat : N = Len(log)
    BY DEF LogRest
  <2>1. file \in 0..MaxEntries /\ from \in 0..MaxEntries
    BY DEF JournalInv, LogRest, LogNumbers
  <2>2. oldest \in 1..(MaxEntries + 1)
    BY DEF LogRest, LogNumbers
  <2>. QED
    BY <2>1, <2>2 DEF Logs!TypeOK, LogRest
<1>4. JournalInv /\ [Logs!Next]_Logs!vars => JournalInv'
  BY JournalStep
<1>5. CanisterInv /\ [Logs!Next]_Logs!vars => CanisterInv'
  BY CanisterStep
<1>. QED
  BY <1>1, <1>2, <1>3, <1>4, <1>5, JournalInit, CanisterInit, PTL DEF Logs!Spec
-----------------------------------------------------------------------------
(* The programs together: every behaviour is one of the program at hand.     *)

LEMMA ExitedStays ==
    ASSUME NEW name, program # name, [Next]_<<program, updatersVars, syncVars, downloadVars, logVars>>
    PROVE  program' # name
  BY DEF Next

LEMMA UpdatersRun ==
    Spec => (Updaters!Spec /\ [](program = "updaters")) \/ []~(program = "updaters")
<1>1. Init /\ program = "updaters" => Updaters!Init
  BY DEF Init
<1>2. program = "updaters" /\ [Next]_<<program, updatersVars, syncVars, downloadVars, logVars>>
        => (program = "updaters")' /\ [Updaters!Next]_Updaters!vars
  BY DEF Next, updatersVars, Updaters!vars
<1>3. ~(program = "updaters") /\ [Next]_<<program, updatersVars, syncVars, downloadVars, logVars>>
        => ~(program = "updaters")'
  BY ExitedStays
<1>. QED
  BY <1>1, <1>2, <1>3, PTL DEF Spec, Updaters!Spec

LEMMA SyncRuns ==
    Spec => (Sync!Spec /\ [](program = "sync")) \/ []~(program = "sync")
<1>1. Init /\ program = "sync" => Sync!Init
  BY DEF Init
<1>2. program = "sync" /\ [Next]_<<program, updatersVars, syncVars, downloadVars, logVars>>
        => (program = "sync")' /\ [Sync!Next]_Sync!vars
  BY DEF Next, syncVars, Sync!vars
<1>3. ~(program = "sync") /\ [Next]_<<program, updatersVars, syncVars, downloadVars, logVars>>
        => ~(program = "sync")'
  BY ExitedStays
<1>. QED
  BY <1>1, <1>2, <1>3, PTL DEF Spec, Sync!Spec

LEMMA DownloadRuns ==
    Spec => (Download!Spec /\ [](program = "download")) \/ []~(program = "download")
<1>1. Init /\ program = "download" => Download!Init
  BY DEF Init
<1>2. program = "download" /\ [Next]_<<program, updatersVars, syncVars, downloadVars, logVars>>
        => (program = "download")' /\ [Download!Next]_Download!vars
  BY DEF Next, downloadVars, Download!vars
<1>3. ~(program = "download") /\ [Next]_<<program, updatersVars, syncVars, downloadVars, logVars>>
        => ~(program = "download")'
  BY ExitedStays
<1>. QED
  BY <1>1, <1>2, <1>3, PTL DEF Spec, Download!Spec

LEMMA LogsRun ==
    Spec => (Logs!Spec /\ [](program = "logs")) \/ []~(program = "logs")
<1>1. Init /\ program = "logs" => Logs!Init
  BY DEF Init
<1>2. program = "logs" /\ [Next]_<<program, updatersVars, syncVars, downloadVars, logVars>>
        => (program = "logs")' /\ [Logs!Next]_Logs!vars
  BY DEF Next, logVars, Logs!vars
<1>3. ~(program = "logs") /\ [Next]_<<program, updatersVars, syncVars, downloadVars, logVars>>
        => ~(program = "logs")'
  BY ExitedStays
<1>. QED
  BY <1>1, <1>2, <1>3, PTL DEF Spec, Logs!Spec

\* For any registries, jobs and answers: what a process remembers in order not to
\* write again is in the files (prometheus_config.rs:94, downloader_loop.rs:87-91).
THEOREM MemosAreWritten == ASSUME DisjointJobs PROVE Spec => []MemoIsWritten
<1>1. Updaters!Spec => []Updaters!MemoIsWritten
  BY MemoKept
<1>2. Download!Spec => []Download!HashStandsForFiles
  BY HashStands
<1>3. (program = "updaters" => Updaters!MemoIsWritten) /\ (program = "download" => Download!HashStandsForFiles)
        => MemoIsWritten
  BY DEF MemoIsWritten
<1>. QED
  BY <1>1, <1>2, <1>3, UpdatersRun, DownloadRuns, PTL

\* For any registry in which every version changes a key, any batches of answers,
\* failed writes, crashes and stops: the files of the local store are the registry's
\* versions, and none below the newest file is missing.
THEOREM StoresHoldRegistry == ASSUME Sync!NoEmptyVersion PROVE Spec => []StoreIsRegistry
<1>1. Sync!Spec => []Sync!StoreIsRegistry
  BY StoreHoldsRegistry
<1>2. Sync!Spec => []Sync!NothingSkipped
  BY NoVersionSkipped
<1>3. (program = "sync" => Sync!StoreIsRegistry) /\ (program = "sync" => Sync!NothingSkipped) => StoreIsRegistry
  BY DEF StoreIsRegistry
<1>. QED
  BY <1>1, <1>2, <1>3, SyncRuns, PTL

\* For any log of any texts of bytes, batches, rotations, crashes and failed requests:
\* every line of a log is printed once, in order, and changed only where it is not UTF-8.
THEOREM LogsArePrinted == ASSUME TextsAreBytes, Batch \in Nat \ {0} PROVE Spec => []PrintsTheLog
<1>1. Logs!Spec => []Logs!PrintsTheJournal
  BY JournalPrinted
<1>2. Logs!Spec => []Logs!CanisterEntriesOnce
  BY EntriesOnce
<1>3. (program = "logs" => Logs!PrintsTheJournal) /\ (program = "logs" => Logs!CanisterEntriesOnce) => PrintsTheLog
  BY DEF PrintsTheLog
<1>. QED
  BY <1>1, <1>2, <1>3, LogsRun, PTL

\* The state of every program keeps its type.
THEOREM DiscoveryTypes ==
    ASSUME RegistriesKnown, DisjointJobs, Sync!NoEmptyVersion, BoundsAreNumbers, Pages \in Nat,
           LogNumbers, TextsAreBytes, Batch \in Nat \ {0}
    PROVE  Spec => []TypeOK
<1>1. Updaters!Spec => []Updaters!TypeOK
  BY UpdatersTypes
<1>2. Sync!Spec => []Sync!TypeOK
  BY SyncTypes
<1>3. Download!Spec => []Download!TypeOK
  BY DownloadTypes
<1>4. Logs!Spec => []Logs!TypeOK
  BY LogTypes
<1>5. /\ program = "updaters" => Updaters!TypeOK
      /\ program = "sync" => Sync!TypeOK
      /\ program = "download" => Download!TypeOK
      /\ program = "logs" => Logs!TypeOK
      => TypeOK
  BY DEF TypeOK
<1>. QED
  BY <1>1, <1>2, <1>3, <1>4, <1>5, UpdatersRun, SyncRuns, DownloadRuns, LogsRun, PTL
=============================================================================
