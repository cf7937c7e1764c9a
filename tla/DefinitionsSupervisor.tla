------------------------ MODULE DefinitionsSupervisor ------------------------
(***************************************************************************)
(* The multiservice discovery server: the supervisor's map of running      *)
(* definitions behind one asynchronous mutex, the HTTP handlers and the    *)
(* main task that change it, the networks state file, and the restarts of  *)
(* the process (multiservice-discovery/src/definition.rs, main.rs and      *)
(* server_handlers/).  The threads the map points to are RunningDefinition.*)
(*                                                                         *)
(* Abstractions.  A definition is its name and its boundary nodes: URLs,   *)
(* keys and intervals do not influence the supervisor.  The state file is  *)
(* always configured.  Every definition serialises to one unit of file     *)
(* length and every boundary node to another.                              *)
(***************************************************************************)
EXTENDS RunningDefinition, Sequences

CONSTANTS
    Handler,             \* HTTP request handlers that can be in flight together
    Main,                \* the main task
    NoTask,              \* nobody holds the mutex
    NoThread,            \* a name that is not in the map
    Mercury,             \* the IC mainnet definition
    BoundaryNode,        \* names of boundary nodes
    Folder,              \* registry folders
    FolderOf,            \* the folder Definition::new derives from a name
    StartWithoutMainnet, \* --start-without-mainnet, also allow_mercury_deletion
    DiskMayFail,         \* whether all attempts at writing the file may fail
    Workers,             \* worker threads of the tokio runtime
    MaxRestarts          \* bound on crashes and restarts of the process

Task == Handler \cup {Main}

ASSUME TaskAssumption     == Main \notin Handler /\ NoTask \notin Handler \cup {Main}
ASSUME NoThreadAssumption == NoThread \notin ThreadId
ASSUME MercuryAssumption  == Mercury \in Name
ASSUME FolderAssumption   == FolderOf \in [Name -> Folder]
ASSUME FlagAssumption     == StartWithoutMainnet \in BOOLEAN /\ DiskMayFail \in BOOLEAN
ASSUME FiniteAssumption   == IsFiniteSet(Name) /\ IsFiniteSet(BoundaryNode)
ASSUME BoundAssumption    == Workers \in Nat \ {0} /\ MaxRestarts \in Nat

VARIABLES
    definitions,   \* Name -> thread of the running definition, or NoThread
    boundaryNodes, \* Name -> boundary nodes of the running definition
    lock,          \* the task that holds the mutex around the map
    queue,         \* tasks that wait for the mutex, first come first served
    task,          \* what each task is doing
    file,          \* the networks state file
    phase,         \* progress of main()
    restarts       \* how many times the process was restarted

vars == <<thread, metrics, definitions, boundaryNodes, lock, queue, task, file, phase, restarts>>

-----------------------------------------------------------------------------
(* State. *)

NoBoundaryNodes == [n \in Name |-> {}]
NoDefinitions   == [n \in Name |-> NoThread]
Running         == {n \in Name : definitions[n] # NoThread}

(* A task's request: the operation, the names it is about, whether the list *)
(* of names repeats one, and the boundary nodes that come with the names.   *)
Op     == {"none", "add", "replace", "delete", "boundaryNode", "end"}
TaskPC == {"idle", "converting", "queued", "locked", "ending", "sending",
           "adding", "persisting", "writing", "unlocking"}
Request == [op : Op, names : SUBSET Name, repeated : BOOLEAN, bns : [Name -> SUBSET BoundaryNode]]
NoRequest == [op |-> "none", names |-> {}, repeated |-> FALSE, bns |-> NoBoundaryNodes]

TaskState == [pc : TaskPC, req : Request, toEnd : SUBSET ThreadId]
IdleTask  == [pc |-> "idle", req |-> NoRequest, toEnd |-> {}]

(* The file: absent, loadable, or with bytes that do not parse; its length. *)
File == [state : {"absent", "ok", "corrupt"}, len : Nat,
         names : SUBSET Name, bns : [Name -> SUBSET BoundaryNode]]
AbsentFile == [state |-> "absent", len |-> 0, names |-> {}, bns |-> NoBoundaryNodes]

Phase == {"load", "loading", "mainnet", "starting", "serving", "stopping", "exited"}

\* The type invariant.
TypeOK ==
    /\ RunningTypeOK
    /\ definitions \in [Name -> ThreadId \cup {NoThread}]
    /\ boundaryNodes \in [Name -> SUBSET BoundaryNode]
    /\ lock \in Task \cup {NoTask}
    /\ queue \in Seq(Task)
    /\ task \in [Task -> TaskState]
    /\ file \in File
    /\ phase \in Phase
    /\ restarts \in Nat

IdleTasks == [t \in Task |-> IdleTask]

Init == /\ RunningInit
        /\ definitions = NoDefinitions
        /\ boundaryNodes = NoBoundaryNodes
        /\ lock = NoTask
        /\ queue = <<>>
        /\ task = IdleTasks
        /\ file = AbsentFile
        /\ phase = "load"
        /\ restarts = 0

supervisorVars == <<definitions, boundaryNodes, lock, queue, task, file, phase, restarts>>

-----------------------------------------------------------------------------
(* The mutex. *)

Become(t, pc) == task' = [task EXCEPT ![t].pc = pc]

Enqueue(t, req) ==
    /\ task' = [task EXCEPT ![t] = [pc |-> "queued", req |-> req, toEnd |-> {}]]
    /\ queue' = Append(queue, t)

Acquire(t) ==
    /\ lock = NoTask
    /\ queue # <<>>
    /\ Head(queue) = t
    /\ task[t].pc = "queued"
    /\ lock' = t
    /\ queue' = Tail(queue)
    /\ Become(t, "locked")
    /\ UNCHANGED <<thread, metrics, definitions, boundaryNodes, file, phase, restarts>>

\* The guard is dropped, the answer is given, and main() goes on to its next part.
NextPhase == CASE phase = "loading"  -> "mainnet"
               [] phase = "starting" -> "serving"
               [] OTHER              -> phase

Unlock(t) ==
    /\ task[t].pc = "unlocking"
    /\ lock' = NoTask
    /\ task' = [task EXCEPT ![t] = IdleTask]
    /\ phase' = IF t = Main THEN NextPhase ELSE phase
    /\ UNCHANGED <<thread, metrics, definitions, boundaryNodes, queue, file, restarts>>

-----------------------------------------------------------------------------
(* DefinitionsSupervisor::start_inner, stop and end. *)

\* Take the named definitions out of the map.
Remove(names) ==
    /\ definitions' = [n \in Name |-> IF n \in names THEN NoThread ELSE definitions[n]]
    /\ boundaryNodes' = [n \in Name |-> IF n \in names THEN {} ELSE boundaryNodes[n]]

(* Deviations of the code that the properties must notice carry the name of  *)
(* the definition they stand in for: here, two other threads to end.         *)
ThreadsOfAll(names)  == {definitions[n] : n \in Name}
ThreadsOfNone(names) == {}

ThreadsOf(names) == {definitions[n] : n \in names \cap Running}

\* Mercury may be dropped like any other definition.
RefusedButMercury(req) ==
    \/ req.op = "add" /\ req.names \cap Running # {}
    \/ req.repeated

\* The errors of start_inner: a definition runs already, the request repeats a
\* name, or it would drop mercury.
Refused(req) ==
    \/ req.op = "add" /\ req.names \cap Running # {}
    \/ req.repeated
    \/ req.op = "replace" /\ ~StartWithoutMainnet /\ Mercury \notin req.names

\* The definitions that start_inner ends before it starts the new ones.
ToEnd(req) == IF req.op = "add" THEN Running \cap req.names ELSE Running

Start(t) ==
    /\ task[t].pc = "locked"
    /\ task[t].req.op \in {"add", "replace"}
    /\ LET req == task[t].req IN
       IF Refused(req)
       THEN /\ Become(t, "unlocking")
            /\ UNCHANGED <<definitions, boundaryNodes>>
       ELSE /\ task' = [task EXCEPT ![t].pc = "ending", ![t].toEnd = ThreadsOf(ToEnd(req))]
            /\ Remove(ToEnd(req))
    /\ UNCHANGED <<thread, metrics, lock, queue, file, phase, restarts>>

Stop(t) ==
    /\ task[t].pc = "locked"
    /\ task[t].req.op = "delete"
    /\ LET names == task[t].req.names IN
       IF (\E n \in names : n \notin Running) \/ (Mercury \in names /\ ~StartWithoutMainnet)
       THEN /\ Become(t, "unlocking")
            /\ UNCHANGED <<definitions, boundaryNodes>>
       ELSE /\ task' = [task EXCEPT ![t].pc = "ending", ![t].toEnd = ThreadsOf(names)]
            /\ Remove(names)
    /\ UNCHANGED <<thread, metrics, lock, queue, file, phase, restarts>>

\* end(): the definitions stay in the map until all of them are over.
End(t) ==
    /\ task[t].pc = "locked"
    /\ task[t].req.op = "end"
    /\ task' = [task EXCEPT ![t].pc = "ending", ![t].toEnd = ThreadsOf(Running)]
    /\ UNCHANGED <<thread, metrics, definitions, boundaryNodes, lock, queue, file, phase, restarts>>

\* RunningDefinition::end of one definition: take its Ender and block in send()
\* until the thread receives; then join() the thread.  The definition whose
\* Ender is taken is the one being ended.
SendStop(t, d) ==
    /\ task[t].pc = "ending"
    /\ d \in task[t].toEnd
    /\ TakeEnder(d)
    /\ Become(t, "sending")
    /\ UNCHANGED <<metrics, definitions, boundaryNodes, lock, queue, file, phase, restarts>>

JoinThread(t, d) ==
    /\ task[t].pc = "sending"
    /\ d \in task[t].toEnd
    /\ ~thread[d].ender
    /\ Join(d)
    /\ task' = [task EXCEPT ![t].pc = "ending", ![t].toEnd = @ \ {d}]
    /\ UNCHANGED <<metrics, definitions, boundaryNodes, lock, queue, file, phase, restarts>>

\* The new definitions are started while the old ones still end.
AllEndedEarly(t) ==
    /\ task[t].pc = "ending"
    /\ Become(t, IF task[t].req.op \in {"add", "replace"} THEN "adding" ELSE "unlocking")
    /\ IF task[t].req.op = "end" THEN Remove(Name) ELSE UNCHANGED <<definitions, boundaryNodes>>
    /\ UNCHANGED <<thread, metrics, lock, queue, file, phase, restarts>>

\* end() leaves the ended definitions in the map.
AllEndedKept(t) ==
    /\ task[t].pc = "ending"
    /\ task[t].toEnd = {}
    /\ Become(t, IF task[t].req.op \in {"add", "replace"} THEN "adding" ELSE "unlocking")
    /\ UNCHANGED <<thread, metrics, definitions, boundaryNodes, lock, queue, file, phase, restarts>>

\* All are over: start_inner goes on, stop and end return.
AllEnded(t) ==
    /\ task[t].pc = "ending"
    /\ task[t].toEnd = {}
    /\ Become(t, IF task[t].req.op \in {"add", "replace"} THEN "adding" ELSE "unlocking")
    /\ IF task[t].req.op = "end" THEN Remove(Name) ELSE UNCHANGED <<definitions, boundaryNodes>>
    /\ UNCHANGED <<thread, metrics, lock, queue, file, phase, restarts>>

\* Run one incoming definition and insert it in the map.
RunDefinition(t, n, d) ==
    /\ task[t].pc = "adding"
    /\ n \in task[t].req.names \ Running
    /\ Run(d, n)
    /\ definitions' = [definitions EXCEPT ![n] = d]
    /\ boundaryNodes' = [boundaryNodes EXCEPT ![n] = task[t].req.bns[n]]
    /\ UNCHANGED <<metrics, lock, queue, task, file, phase, restarts>>

\* The request ends without a save.
AllAddedUnsaved(t) ==
    /\ task[t].pc = "adding"
    /\ task[t].req.names \subseteq Running
    /\ Become(t, "unlocking")
    /\ UNCHANGED <<thread, metrics, definitions, boundaryNodes, lock, queue, file, phase, restarts>>

AllAdded(t) ==
    /\ task[t].pc = "adding"
    /\ task[t].req.names \subseteq Running
    /\ Become(t, "persisting")
    /\ UNCHANGED <<thread, metrics, definitions, boundaryNodes, lock, queue, file, phase, restarts>>

\* The critical section of the add_boundary_node handler.
AddBoundaryNode(t) ==
    /\ task[t].pc = "locked"
    /\ task[t].req.op = "boundaryNode"
    /\ \E n \in task[t].req.names, badJobType \in BOOLEAN :
         LET bns == task[t].req.bns[n] IN
         IF n \notin Running \/ badJobType
         THEN Become(t, "unlocking") /\ UNCHANGED boundaryNodes
         ELSE IF ~thread[definitions[n]].ender
         THEN Become(t, "persisting") /\ UNCHANGED boundaryNodes
         ELSE IF bns \cap boundaryNodes[n] # {}
         THEN Become(t, "unlocking") /\ UNCHANGED boundaryNodes
         ELSE /\ Become(t, "persisting")
              /\ boundaryNodes' = [boundaryNodes EXCEPT ![n] = @ \cup bns]
    /\ UNCHANGED <<thread, metrics, definitions, lock, queue, file, phase, restarts>>

-----------------------------------------------------------------------------
(* persist_defs: open with create(true) and write(true), no truncate.       *)

Length(names, bns) ==
    1 + Cardinality(names) + Cardinality({p \in names \X BoundaryNode : p[2] \in bns[p[1]]})

\* The bytes after a write at offset zero: what was longer keeps its tail.
Overwritten(f, names, bns) ==
    IF Length(names, bns) >= f.len
    THEN [state |-> "ok", len |-> Length(names, bns), names |-> names, bns |-> bns]
    ELSE [state |-> "corrupt", len |-> f.len, names |-> {}, bns |-> NoBoundaryNodes]

PersistOpen(t) ==
    /\ task[t].pc = "persisting"
    /\ file' = IF file.state = "absent" THEN [AbsentFile EXCEPT !.state = "corrupt"] ELSE file
    /\ Become(t, "writing")
    /\ UNCHANGED <<thread, metrics, definitions, boundaryNodes, lock, queue, phase, restarts>>

PersistWrite(t) ==
    /\ task[t].pc = "writing"
    /\ file' = Overwritten(file, Running, boundaryNodes)
    /\ Become(t, "unlocking")
    /\ UNCHANGED <<thread, metrics, definitions, boundaryNodes, lock, queue, phase, restarts>>

\* All five attempts fail; the callers only warn.
PersistFail(t) ==
    /\ DiskMayFail
    /\ task[t].pc \in {"persisting", "writing"}
    /\ Become(t, "unlocking")
    /\ UNCHANGED <<thread, metrics, definitions, boundaryNodes, lock, queue, file, phase, restarts>>

-----------------------------------------------------------------------------
(* The HTTP handlers up to the mutex. *)

Names(op, names, repeated) ==
    [op |-> op, names |-> names, repeated |-> repeated, bns |-> NoBoundaryNodes]

DefinitionRequests ==
    {Names("add", {n}, FALSE) : n \in Name}
      \cup {Names("replace", ns, FALSE) : ns \in SUBSET Name}
      \cup {Names("replace", ns, TRUE) : ns \in SUBSET Name \ {{}}}

BoundaryNodeRequest(n, b) == [Names("boundaryNode", {n}, FALSE) EXCEPT !.bns[n] = {b}]

LockingRequests ==
    {Names("delete", {n}, FALSE) : n \in Name}
      \cup {BoundaryNodeRequest(p[1], p[2]) : p \in Name \X BoundaryNode}

Accepting(h) == phase = "serving" /\ task[h].pc = "idle"

\* add_definition and replace_definitions first contact the networks' NNS.
AcceptDefinitions(h) ==
    /\ Accepting(h)
    /\ \E req \in DefinitionRequests :
         task' = [task EXCEPT ![h] = [pc |-> "converting", req |-> req, toEnd |-> {}]]
    /\ UNCHANGED <<thread, metrics, definitions, boundaryNodes, lock, queue, file, phase, restarts>>

Convert(h) ==
    /\ task[h].pc = "converting"
    /\ Enqueue(h, task[h].req)
    /\ UNCHANGED <<thread, metrics, definitions, boundaryNodes, lock, file, phase, restarts>>

ConversionFails(h) ==
    /\ task[h].pc = "converting"
    /\ task' = [task EXCEPT ![h] = IdleTask]
    /\ UNCHANGED <<thread, metrics, definitions, boundaryNodes, lock, queue, file, phase, restarts>>

AcceptLocking(h) ==
    /\ Accepting(h)
    /\ \E req \in LockingRequests : Enqueue(h, req)
    /\ UNCHANGED <<thread, metrics, definitions, boundaryNodes, lock, file, phase, restarts>>

-----------------------------------------------------------------------------
(* main(). *)

\* load_or_create_defs.  A file that does not parse is deleted and the process
\* panics: nothing runs yet, so the next process starts from here as well.
LoadOrCreate ==
    /\ phase = "load"
    /\ CASE file.state = "absent"  -> /\ phase' = "mainnet"
                                      /\ UNCHANGED <<queue, task, file>>
         [] file.state = "corrupt" -> /\ file' = AbsentFile
                                      /\ UNCHANGED <<queue, task, phase>>
         [] file.state = "ok"      -> /\ phase' = "loading"
                                      /\ Enqueue(Main, [Names("add", file.names, FALSE)
                                                          EXCEPT !.bns = file.bns])
                                      /\ UNCHANGED file
    /\ UNCHANGED <<thread, metrics, definitions, boundaryNodes, lock, restarts>>

StartMainnet ==
    /\ phase = "mainnet"
    /\ IF StartWithoutMainnet
       THEN phase' = "serving" /\ UNCHANGED <<queue, task>>
       ELSE phase' = "starting" /\ Enqueue(Main, Names("add", {Mercury}, FALSE))
    /\ UNCHANGED <<thread, metrics, definitions, boundaryNodes, lock, file, restarts>>

\* The shutdown signal: the server gets its stop message, then supervisor.end().
Shutdown ==
    /\ phase = "serving"
    /\ phase' = "stopping"
    /\ Enqueue(Main, Names("end", {}, FALSE))
    /\ UNCHANGED <<thread, metrics, definitions, boundaryNodes, lock, file, restarts>>

\* Graceful shutdown: the server returns when no request is in flight.
ServerStopped ==
    /\ phase = "stopping"
    /\ \A t \in Task : task[t].pc = "idle"
    /\ phase' = "exited"
    /\ UNCHANGED <<thread, metrics, definitions, boundaryNodes, lock, queue, task, file, restarts>>

\* A new process: only the file is left of the old one.
NewProcess == /\ thread' = NothingRuns
              /\ metrics' = {}
              /\ definitions' = NoDefinitions
              /\ boundaryNodes' = NoBoundaryNodes
              /\ lock' = NoTask
              /\ queue' = <<>>
              /\ task' = IdleTasks
              /\ phase' = "load"

Restart == phase = "exited" /\ NewProcess /\ UNCHANGED <<file, restarts>>

Crash == /\ restarts < MaxRestarts
         /\ restarts' = restarts + 1
         /\ NewProcess
         /\ UNCHANGED file

-----------------------------------------------------------------------------
(* The workers of the runtime drive all network I/O, and a handler that is   *)
(* in send() or join() blocks its worker.  Main blocks its own thread.       *)

Blocked == {h \in Handler : task[h].pc = "sending"}
\* A runtime with one worker thread.
IODrivenByOne == Blocked = {}

IODriven == Cardinality(Blocked) < Workers

ThreadStep(d) ==
    /\ phase # "exited"
    /\ \/ LocalStep(d)
       \/ IODriven /\ NetworkStep(d)
    /\ UNCHANGED supervisorVars

SupervisorStep(t) ==
    \/ Acquire(t) \/ Start(t) \/ Stop(t) \/ End(t) \/ AllEnded(t) \/ AllAdded(t)
    \/ AddBoundaryNode(t) \/ PersistOpen(t) \/ PersistWrite(t) \/ PersistFail(t) \/ Unlock(t)
    \/ \E d \in ThreadId : SendStop(t, d) \/ JoinThread(t, d)
    \/ \E d \in ThreadId, n \in Name : RunDefinition(t, n, d)

HandlerStep(h) == AcceptDefinitions(h) \/ AcceptLocking(h) \/ Convert(h) \/ ConversionFails(h)

MainStep == LoadOrCreate \/ StartMainnet \/ Shutdown \/ ServerStopped \/ Restart

Next == \/ \E d \in ThreadId : ThreadStep(d)
        \/ \E t \in Task : SupervisorStep(t)
        \/ \E h \in Handler : HandlerStep(h)
        \/ MainStep
        \/ Crash

Spec == Init /\ [][Next]_vars

(***************************************************************************)
(* Fairness.  Threads are scheduled and their network calls time out; a    *)
(* handler or main() that can go on does.  When both arms of a select are  *)
(* ready crossbeam picks one at random, so a stop message that is offered  *)
(* in infinitely many selects is received: strong fairness.  Requests, the *)
(* shutdown signal and crashes are never promised.                         *)
(***************************************************************************)
StopArm(d) == phase # "exited" /\ StopWhileWaiting(d) /\ UNCHANGED supervisorVars

Fairness == /\ \A d \in ThreadId : WF_vars(ThreadStep(d)) /\ SF_vars(StopArm(d))
            /\ \A t \in Task : WF_vars(SupervisorStep(t))
            /\ \A h \in Handler : WF_vars(Convert(h) \/ ConversionFails(h))
            /\ WF_vars(LoadOrCreate \/ StartMainnet \/ ServerStopped)

FairSpec == Spec /\ Fairness

-----------------------------------------------------------------------------
(* The inductive invariant behind the safety properties.                    *)

Critical == {"locked", "ending", "sending", "adding", "persisting", "writing", "unlocking"}

\* The mutex is held by the one task that is in its critical section.
LockInv == \A t \in Task : task[t].pc \in Critical <=> lock = t

\* Between its calls of the supervisor main() is not a client of the mutex.
MainInv == phase \in {"load", "mainnet", "serving", "exited"} => task[Main].pc = "idle"

\* Only a task that ends definitions has definitions to end, and they are there.
ToEndInv == \A t \in Task :
    /\ task[t].toEnd # {} => task[t].pc \in {"ending", "sending"}
    /\ \A d \in task[t].toEnd : thread[d].pc # "none"

\* A thread carries the name of its definition, and no two carry the same.
NameInv == /\ \A d \in ThreadId : thread[d].pc # "none" => thread[d].name \in Name
           /\ \A d, e \in ThreadId :
                thread[d].pc # "none" /\ thread[e].pc # "none" /\ thread[d].name = thread[e].name => d = e

\* end() ends every thread and empties the map only afterwards.
EndingAll(t) == task[t].req.op = "end" /\ task[t].pc \in {"ending", "sending"}

EndInv == \A t \in Task : EndingAll(t) =>
            \A d \in ThreadId : thread[d].pc # "none" => d \in task[t].toEnd

\* An entry of the map leads to a thread that polls and that can be stopped.
Pollable(n, d) == /\ thread[d].pc \notin {"none", "ending", "exited"}
                  /\ thread[d].name = n
                  /\ thread[d].ender /\ ~thread[d].stop

MapInv == (\A t \in Task : ~EndingAll(t)) => \A n \in Running : Pollable(n, definitions[n])

\* What a task is ending is out of the map.
RemovedInv == \A t \in Task : ~EndingAll(t) =>
                \A d \in task[t].toEnd, n \in Name : definitions[n] # d

\* No thread is lost: the map or the task that ends it knows it.
KnownInv == \A d \in ThreadId : thread[d].pc # "none" =>
                \/ \E n \in Running : definitions[n] = d
                \/ \E t \in Task : d \in task[t].toEnd

StructInv == /\ LockInv /\ MainInv /\ ToEndInv /\ NameInv
             /\ EndInv /\ MapInv /\ RemovedInv /\ KnownInv

IndInv == TypeOK /\ StructInv

-----------------------------------------------------------------------------
(* Properties. *)

\* Two threads never work in one registry folder: a definition is stopped and
\* joined before its successor starts (start_inner, definition.rs:589-614).
OneThreadPerFolder ==
    \A d, e \in Alive : FolderOf[thread[d].name] = FolderOf[thread[e].name] => d = e

\* Whenever the mutex is free, the map and the threads agree: every entry has a
\* thread of that name which has not been told to stop and still has its Ender,
\* and no thread is left that no entry can stop any more.
MapMatchesThreads ==
    lock = NoTask =>
      /\ \A n \in Running : LET d == thread[definitions[n]] IN
           /\ d.name = n
           /\ d.ender /\ ~d.stop
           /\ d.pc \notin {"none", "ending", "exited"}
      /\ \A d \in ThreadId : thread[d].pc # "none" => \E n \in Running : definitions[n] = d

\* Mainnet is served at every moment a request can observe: no sequence of
\* deletions, replacements, failures, crashes and reloads takes it out of the
\* map (start_inner:581, stop:658, main.rs:95).
MercuryServed ==
    phase = "serving" /\ lock = NoTask /\ ~StartWithoutMainnet => Mercury \in Running

\* A network has an entry in the metrics only while a thread of that name runs,
\* and a thread that has observed something still has its entry: the
\* observe_end of an old thread never removes the entry of its successor.
MetricsMatchThreads ==
    /\ \A n \in metrics : \E d \in Alive : thread[d].name = n
    /\ \A d \in ThreadId : thread[d].pc \in {"retry", "load", "update", "wait"} =>
                             thread[d].name \in metrics

\* As long as writing works, everything a request added is in the file, so a
\* restart brings it back with its boundary nodes -- if the file parses.
RunningAreSaved ==
    lock = NoTask /\ file.state = "ok" =>
      \A n \in Running : n \in file.names /\ boundaryNodes[n] = file.bns[n]

\* persist_defs rewrites the file: after it the file holds the map.  Fails: the
\* file is not truncated, a shorter list leaves the tail of the longer one
\* (definition.rs:535).
RewriteIsExact ==
    [][\A t \in Task : PersistWrite(t) =>
         file'.state = "ok" /\ file'.names = Running /\ file'.bns = boundaryNodes]_vars

\* Nothing is left running when main() has waited for end() and the server.
ShutdownEndsAll == phase = "exited" => Alive = {}

\* Every request is answered and every call of main() returns: stopping a
\* definition never waits forever for its thread, whatever the thread is doing.
RequestsAnswered == \A t \in Task : task[t].pc # "idle" ~> task[t].pc = "idle"

\* The shutdown signal ends the process.
ShutdownCompletes == phase = "stopping" ~> phase = "exited"

\* The folders are handed from thread to thread as FolderLease says.
FolderUsers == [f \in Folder |-> {d \in Alive : FolderOf[thread[d].name] = f}]

Lease == INSTANCE FolderLease WITH users <- FolderUsers
LeaseSpec == Lease!Spec
=============================================================================
