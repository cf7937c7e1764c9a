--------------------- MODULE DefinitionsSupervisorProofs ---------------------
(***************************************************************************)
(* Theorems about DefinitionsSupervisor for any set of names, folders,     *)
(* handlers, threads and boundary nodes.                                   *)
(***************************************************************************)
EXTENDS DefinitionsSupervisor, FiniteSetTheorems, TLAPS

USE DEF Task, Thread, ThreadPC, AwaitsNetwork, Selecting, TaskPC, TaskState

-----------------------------------------------------------------------------
(* Types. *)

\* The serialised length of a finite set of definitions is a number.
LEMMA LengthType ==
    ASSUME NEW names \in SUBSET Name, NEW bns \in [Name -> SUBSET BoundaryNode]
    PROVE  Length(names, bns) \in Nat
<1>1. IsFiniteSet(names)
  BY FS_Subset, FiniteAssumption
<1>2. IsFiniteSet(names \X BoundaryNode)
  BY <1>1, FS_Product, FiniteAssumption
<1>3. IsFiniteSet({p \in names \X BoundaryNode : p[2] \in bns[p[1]]})
  BY <1>2, FS_Subset
<1>. QED
  BY <1>1, <1>3, FS_CardinalityType DEF Length

LEMMA NoBoundaryNodesType == NoBoundaryNodes \in [Name -> SUBSET BoundaryNode]
BY DEF NoBoundaryNodes

LEMMA IdleType == IdleTask \in TaskState
BY NoBoundaryNodesType DEF IdleTask, NoRequest, Request, Op

\* A thread that runs keeps running, with its name and its Ender, whatever it
\* does; it goes to its end only when a stop message waits for it.
LEMMA ThreadStepShape ==
    ASSUME RunningTypeOK, NEW d \in ThreadId, LocalStep(d) \/ NetworkStep(d),
           thread[d].name \in Name
    PROVE  /\ RunningTypeOK'
           /\ thread[d].pc # "none" /\ thread'[d].pc # "none"
           /\ thread'[d].name = thread[d].name
           /\ thread'[d].ender = thread[d].ender
           /\ thread'[d].stop => thread[d].stop
           /\ thread'[d].pc \in {"ending", "exited"} => thread[d].stop \/ thread[d].pc = "ending"
           /\ \A e \in ThreadId \ {d} : thread'[e] = thread[e]
BY DEF RunningTypeOK, LocalStep, NetworkStep, GoOn, Interrupted, LoadTargets, Tick,
       StopWhileWaiting, ObserveEnd, PublicKey, FetchChanges, UpdateRegistries,
       Goto, Receive, Observe

LEMMA TakeEnderType ==
    ASSUME RunningTypeOK, NEW d \in ThreadId, TakeEnder(d), UNCHANGED metrics
    PROVE  RunningTypeOK'
<1>1. ASSUME NEW e \in ThreadId
      PROVE  thread'[e] \in Thread
  BY DEF RunningTypeOK, TakeEnder
<1>. QED
  BY <1>1 DEF RunningTypeOK, TakeEnder

\* Putting a task at another place of its program keeps the types.
LEMMA BecomeType ==
    ASSUME TypeOK, NEW t \in Task, NEW pc \in TaskPC, Become(t, pc)
    PROVE  task' \in [Task -> TaskState]
BY DEF TypeOK, Become

LEMMA EnqueueType ==
    ASSUME TypeOK, NEW t \in Task, NEW req \in Request, Enqueue(t, req)
    PROVE  task' \in [Task -> TaskState] /\ queue' \in Seq(Task)
BY DEF TypeOK, Enqueue

LEMMA RemoveType ==
    ASSUME TypeOK, NEW names, Remove(names)
    PROVE  /\ definitions' \in [Name -> ThreadId \cup {NoThread}]
           /\ boundaryNodes' \in [Name -> SUBSET BoundaryNode]
           /\ ThreadsOf(names) \in SUBSET ThreadId
BY DEF TypeOK, Remove, ThreadsOf, Running

LEMMA RequestType ==
    /\ DefinitionRequests \subseteq Request
    /\ LockingRequests \subseteq Request
    /\ Names("end", {}, FALSE) \in Request
    /\ Names("add", {Mercury}, FALSE) \in Request
    /\ \A f \in File : [Names("add", f.names, FALSE) EXCEPT !.bns = f.bns] \in Request
<1>1. \A op \in Op, ns \in SUBSET Name, r \in BOOLEAN : Names(op, ns, r) \in Request
  BY NoBoundaryNodesType DEF Names, Request
<1>2. DefinitionRequests \subseteq Request
  BY <1>1 DEF DefinitionRequests, Op
<1>3. \A n \in Name, b \in BoundaryNode : BoundaryNodeRequest(n, b) \in Request
  BY NoBoundaryNodesType DEF BoundaryNodeRequest, Names, Request, Op
<1>4. LockingRequests \subseteq Request
  BY <1>1, <1>3 DEF LockingRequests, Op
<1>5. \A f \in File : [Names("add", f.names, FALSE) EXCEPT !.bns = f.bns] \in Request
  BY <1>1 DEF Names, Request, File, Op
<1>. QED
  BY <1>1, <1>2, <1>4, <1>5, MercuryAssumption DEF Op

\* Every step keeps the types, in a state of the inductive invariant: that a
\* thread which runs has a name is what keeps the metrics well typed.
LEMMA TypeStep ==
    ASSUME IndInv, [Next]_vars
    PROVE  TypeOK'
<1>. USE DEF IndInv, StructInv
<1>1. CASE UNCHANGED vars
  BY <1>1 DEF vars, TypeOK, RunningTypeOK
<1>2. ASSUME NEW d \in ThreadId, ThreadStep(d)
      PROVE  TypeOK'
  <2>1. LocalStep(d) \/ NetworkStep(d)
    BY <1>2 DEF ThreadStep
  <2>2. thread[d].pc # "none"
    BY <2>1 DEF LocalStep, NetworkStep, GoOn, Interrupted, LoadTargets, Tick, StopWhileWaiting,
       ObserveEnd, PublicKey, FetchChanges, UpdateRegistries
  <2>3. thread[d].name \in Name
    BY <2>2 DEF NameInv
  <2>. QED
    BY <1>2, <2>1, <2>3, ThreadStepShape DEF ThreadStep, supervisorVars, TypeOK
<1>3. ASSUME NEW t \in Task, SupervisorStep(t)
      PROVE  TypeOK'
  <2>1. CASE Acquire(t)
    <3>1. queue' \in Seq(Task)
      BY <2>1 DEF Acquire, TypeOK
    <3>. QED
      BY <2>1, <3>1, BecomeType DEF Acquire, TypeOK, RunningTypeOK
  <2>2. CASE Start(t)
    <3>1. CASE Refused(task[t].req)
      BY <2>2, <3>1, BecomeType DEF Start, TypeOK, RunningTypeOK
    <3>2. CASE ~Refused(task[t].req)
      BY <2>2, <3>2, RemoveType DEF Start, TypeOK, RunningTypeOK
    <3>. QED
      BY <3>1, <3>2
  <2>3. CASE Stop(t)
    <3>1. CASE task' = [task EXCEPT ![t].pc = "ending", ![t].toEnd = ThreadsOf(task[t].req.names)]
               /\ Remove(task[t].req.names)
      BY <2>3, <3>1, RemoveType DEF Stop, TypeOK, RunningTypeOK
    <3>2. CASE Become(t, "unlocking") /\ UNCHANGED <<definitions, boundaryNodes>>
      BY <2>3, <3>2, BecomeType DEF Stop, TypeOK, RunningTypeOK
    <3>. QED
      BY <2>3, <3>1, <3>2 DEF Stop
  <2>4. CASE End(t)
    <3>1. ThreadsOf(Running) \in SUBSET ThreadId
      BY DEF ThreadsOf, Running, TypeOK
    <3>. QED
      BY <2>4, <3>1 DEF End, TypeOK, RunningTypeOK
  <2>5. CASE AllEnded(t)
    BY <2>5, BecomeType, RemoveType DEF AllEnded, TypeOK, RunningTypeOK
  <2>6. CASE AllAdded(t)
    BY <2>6, BecomeType DEF AllAdded, TypeOK, RunningTypeOK
  <2>7. CASE AddBoundaryNode(t)
    <3>1. boundaryNodes' \in [Name -> SUBSET BoundaryNode]
      BY <2>7 DEF AddBoundaryNode, TypeOK, Request
    <3>2. \E pc \in TaskPC : Become(t, pc)
      BY <2>7 DEF AddBoundaryNode
    <3>. QED
      BY <2>7, <3>1, <3>2, BecomeType DEF AddBoundaryNode, TypeOK, RunningTypeOK
  <2>8. CASE PersistOpen(t)
    <3>1. file' \in File
      BY <2>8, NoBoundaryNodesType DEF PersistOpen, TypeOK, File, AbsentFile
    <3>. QED
      BY <2>8, <3>1, BecomeType DEF PersistOpen, TypeOK, RunningTypeOK
  <2>9. CASE PersistWrite(t)
    <3>1. Running \in SUBSET Name
      BY DEF Running
    <3>2. file' \in File
      BY <2>9, <3>1, NoBoundaryNodesType, LengthType DEF PersistWrite, Overwritten, TypeOK, File
    <3>. QED
      BY <2>9, <3>2, BecomeType DEF PersistWrite, TypeOK, RunningTypeOK
  <2>10. CASE PersistFail(t)
    BY <2>10, BecomeType DEF PersistFail, TypeOK, RunningTypeOK
  <2>11. CASE Unlock(t)
    BY <2>11, IdleType DEF Unlock, NextPhase, Phase, TypeOK, RunningTypeOK
  <2>12. ASSUME NEW d \in ThreadId, SendStop(t, d)
         PROVE  TypeOK'
    BY <2>12, BecomeType, TakeEnderType DEF SendStop, TypeOK
  <2>13. ASSUME NEW d \in ThreadId, JoinThread(t, d)
         PROVE  TypeOK'
    BY <2>13 DEF JoinThread, Join, NoThreadRunning, TypeOK, RunningTypeOK
  <2>14. ASSUME NEW d \in ThreadId, NEW n \in Name, RunDefinition(t, n, d)
         PROVE  TypeOK'
    BY <2>14 DEF RunDefinition, Run, TypeOK, RunningTypeOK, Request
  <2>. QED
    BY <1>3, <2>1, <2>2, <2>3, <2>4, <2>5, <2>6, <2>7, <2>8, <2>9, <2>10, <2>11, <2>12, <2>13,
       <2>14 DEF SupervisorStep
<1>4. ASSUME NEW h \in Handler, HandlerStep(h)
      PROVE  TypeOK'
  <2>1. CASE AcceptDefinitions(h)
    BY <2>1, RequestType DEF AcceptDefinitions, TypeOK, RunningTypeOK
  <2>2. CASE AcceptLocking(h)
    BY <2>2, RequestType, EnqueueType DEF AcceptLocking, TypeOK, RunningTypeOK
  <2>3. CASE Convert(h)
    <3>1. task[h].req \in Request
      BY DEF TypeOK
    <3>. QED
      BY <2>3, <3>1, EnqueueType DEF Convert, TypeOK, RunningTypeOK
  <2>4. CASE ConversionFails(h)
    BY <2>4, IdleType DEF ConversionFails, TypeOK, RunningTypeOK
  <2>. QED
    BY <1>4, <2>1, <2>2, <2>3, <2>4 DEF HandlerStep
<1>5. CASE LoadOrCreate
  <2>1. AbsentFile \in File
    BY NoBoundaryNodesType DEF AbsentFile, File
  <2>2. task' \in [Task -> TaskState] /\ queue' \in Seq(Task)
    BY <1>5, RequestType, EnqueueType DEF LoadOrCreate, TypeOK, File
  <2>. QED
    BY <1>5, <2>1, <2>2 DEF LoadOrCreate, TypeOK, RunningTypeOK, Phase, File
<1>6. CASE StartMainnet
  BY <1>6, RequestType, EnqueueType DEF StartMainnet, TypeOK, RunningTypeOK, Phase
<1>7. CASE Shutdown
  BY <1>7, RequestType, EnqueueType DEF Shutdown, TypeOK, RunningTypeOK, Phase
<1>8. CASE ServerStopped
  BY <1>8 DEF ServerStopped, TypeOK, RunningTypeOK, Phase
<1>9. CASE Restart \/ Crash
  <2>1. NothingRuns \in [ThreadId -> Thread] /\ NoDefinitions \in [Name -> ThreadId \cup {NoThread}]
    BY DEF NothingRuns, NoThreadRunning, NoDefinitions
  <2>2. IdleTasks \in [Task -> TaskState]
    BY IdleType DEF IdleTasks
  <2>3. NewProcess
    BY <1>9 DEF Restart, Crash
  <2>4. file' = file /\ restarts' \in Nat
    BY <1>9 DEF Restart, Crash, TypeOK
  <2>5. RunningTypeOK'
    BY <2>1, <2>3 DEF NewProcess, RunningTypeOK
  <2>6. queue' \in Seq(Task) /\ lock' \in Task \cup {NoTask} /\ phase' \in Phase
    BY <2>3 DEF NewProcess, Phase
  <2>. QED
    BY <2>1, <2>2, <2>3, <2>4, <2>5, <2>6, NoBoundaryNodesType DEF NewProcess, TypeOK
<1>. QED
  BY <1>1, <1>2, <1>3, <1>4, <1>5, <1>6, <1>7, <1>8, <1>9 DEF Next, MainStep
-----------------------------------------------------------------------------
(* The invariant is inductive.  First the kinds of steps that several      *)
(* actions take, then the actions that are of a kind of their own.         *)

\* The holder of the mutex goes on inside its critical section.
LEMMA AdvanceStep ==
    ASSUME IndInv, NEW t \in Task, lock = t, task[t].toEnd = {}, ~EndingAll(t),
           NEW pc \in Critical \ {"ending", "sending"}, Become(t, pc),
           UNCHANGED <<thread, definitions, lock, phase>>
    PROVE  StructInv'
<1>. USE DEF IndInv, StructInv, TypeOK, RunningTypeOK, Become, Critical
<1>0. ASSUME NEW u \in Task
      PROVE  EndingAll(u)' <=> EndingAll(u)
  BY DEF EndingAll
<1>1. LockInv'
  BY TaskAssumption DEF LockInv
<1>2. MainInv'
  BY DEF MainInv, LockInv
<1>3. ToEndInv' /\ NameInv'
  BY DEF ToEndInv, NameInv
<1>4. EndInv'
  BY <1>0 DEF EndInv
<1>5. MapInv'
  BY <1>0 DEF MapInv, Running, Pollable
<1>6. RemovedInv'
  BY <1>0 DEF RemovedInv
<1>7. KnownInv'
  BY DEF KnownInv, Running
<1>. QED
  BY <1>1, <1>2, <1>3, <1>4, <1>5, <1>6, <1>7

\* start_inner and stop take definitions out of the map in order to end them.
LEMMA RemoveStep ==
    ASSUME IndInv, NEW t \in Task, lock = t, task[t].toEnd = {}, task[t].req.op # "end",
           task[t].pc = "locked", NEW names \in SUBSET Name, Remove(names),
           task' = [task EXCEPT ![t].pc = "ending", ![t].toEnd = ThreadsOf(names)],
           UNCHANGED <<thread, lock, phase>>
    PROVE  StructInv'
<1>. USE DEF IndInv, StructInv, TypeOK, RunningTypeOK, Critical
<1>0. /\ \A u \in Task : ~EndingAll(u) /\ ~EndingAll(u)'
      /\ \A u \in Task \ {t} : task'[u] = task[u] /\ task[u].toEnd = {}
      /\ task'[t].toEnd = ThreadsOf(names) /\ task'[t].pc = "ending"
  <2>1. \A u \in Task \ {t} : task'[u] = task[u] /\ task[u].pc \notin Critical
    BY DEF LockInv
  <2>2. task'[t].toEnd = ThreadsOf(names) /\ task'[t].pc = "ending" /\ task'[t].req = task[t].req
    BY RemoveType
  <2>. QED
    BY <2>1, <2>2 DEF EndingAll, ToEndInv
<1>1. \A n \in Running : Pollable(n, definitions[n])
  BY <1>0 DEF MapInv
<1>2. Running' = Running \ names /\ \A n \in Running' : definitions'[n] = definitions[n]
  BY DEF Remove, Running
<1>3. LockInv'
  BY <1>0 DEF LockInv
<1>4. MainInv'
  BY <1>0 DEF MainInv, LockInv
<1>5. ToEndInv' /\ NameInv'
  <2>1. ToEndInv'
    BY <1>0, <1>1 DEF ToEndInv, ThreadsOf, Running, Pollable
  <2>2. NameInv'
    BY DEF NameInv
  <2>. QED
    BY <2>1, <2>2
<1>6. EndInv'
  BY <1>0 DEF EndInv
<1>7. MapInv'
  BY <1>1, <1>2 DEF MapInv, Pollable
<1>8. RemovedInv'
  <2>. SUFFICES ASSUME NEW u \in Task, NEW d \in task'[u].toEnd, NEW n \in Name
                PROVE  definitions'[n] # d
    BY DEF RemovedInv
  <2>1. u = t /\ d \in ThreadsOf(names)
    BY <1>0
  <2>2. PICK m \in names \cap Running : d = definitions[m]
    BY <2>1 DEF ThreadsOf
  <2>3. Pollable(m, d) /\ d \in ThreadId
    BY <1>1, <2>2 DEF Running
  <2>4. n \in Running' => Pollable(n, definitions[n])
    BY <1>1, <1>2
  <2>5. n \in Running' => n # m
    BY <1>2, <2>2
  <2>6. n \notin Running' => definitions'[n] = NoThread
    BY DEF Running
  <2>. QED
    BY <1>2, <2>3, <2>4, <2>5, <2>6, NoThreadAssumption DEF Pollable
<1>9. KnownInv'
  <2>. SUFFICES ASSUME NEW d \in ThreadId, thread[d].pc # "none"
                PROVE  \/ \E n \in Running' : definitions'[n] = d
                       \/ d \in task'[t].toEnd
    BY DEF KnownInv
  <2>1. PICK n \in Running : definitions[n] = d
    BY <1>0 DEF KnownInv
  <2>. QED
    BY <1>0, <1>2, <2>1 DEF ThreadsOf
<1>. QED
  BY <1>3, <1>4, <1>5, <1>6, <1>7, <1>8, <1>9
\* A task outside its critical section gets a new request, or drops its own.
LEMMA RequestStep ==
    ASSUME IndInv, NEW t \in Task, task[t].pc \notin Critical, NEW r \in TaskState,
           r.pc \notin Critical, r.toEnd = {}, task' = [task EXCEPT ![t] = r],
           UNCHANGED <<thread, definitions, lock>>, MainInv'
    PROVE  StructInv'
<1>. USE DEF IndInv, StructInv, TypeOK, RunningTypeOK, Critical
<1>0. \A u \in Task : EndingAll(u)' <=> EndingAll(u)
  BY DEF EndingAll
<1>1. LockInv'
  BY DEF LockInv
<1>2. ToEndInv' /\ NameInv'
  BY DEF ToEndInv, NameInv
<1>3. EndInv'
  BY <1>0 DEF EndInv, EndingAll
<1>4. MapInv'
  BY <1>0 DEF MapInv, Running, Pollable
<1>5. RemovedInv'
  BY <1>0 DEF RemovedInv
<1>6. KnownInv'
  BY DEF KnownInv, Running, ToEndInv
<1>. QED
  BY <1>1, <1>2, <1>3, <1>4, <1>5, <1>6

LEMMA AcquireStep ==
    ASSUME IndInv, NEW t \in Task, Acquire(t)
    PROVE  StructInv'
<1>. USE DEF IndInv, StructInv, TypeOK, RunningTypeOK, Critical, Acquire, Become
<1>0. \A u \in Task : ~EndingAll(u) /\ ~EndingAll(u)'
  BY TaskAssumption DEF EndingAll, LockInv
<1>1. LockInv'
  BY TaskAssumption DEF LockInv
<1>2. MainInv'
  BY DEF MainInv
<1>3. ToEndInv' /\ NameInv'
  BY DEF ToEndInv, NameInv
<1>4. EndInv' /\ MapInv'
  BY <1>0 DEF EndInv, MapInv, Running, Pollable
<1>5. RemovedInv'
  BY <1>0 DEF RemovedInv
<1>6. KnownInv'
  BY DEF KnownInv, Running
<1>. QED
  BY <1>1, <1>2, <1>3, <1>4, <1>5, <1>6

LEMMA UnlockStep ==
    ASSUME IndInv, NEW t \in Task, Unlock(t)
    PROVE  StructInv'
<1>. USE DEF IndInv, StructInv, TypeOK, RunningTypeOK, Critical, Unlock
<1>0. \A u \in Task : ~EndingAll(u) /\ ~EndingAll(u)'
  BY DEF EndingAll, LockInv, IdleTask
<1>1. LockInv'
  BY TaskAssumption DEF LockInv, IdleTask
<1>2. MainInv'
  BY DEF MainInv, LockInv, IdleTask, NextPhase
<1>3. ToEndInv' /\ NameInv'
  BY DEF ToEndInv, NameInv, IdleTask
<1>4. EndInv' /\ MapInv'
  BY <1>0 DEF EndInv, MapInv, Running, Pollable
<1>5. RemovedInv'
  BY <1>0 DEF RemovedInv, IdleTask
<1>6. KnownInv'
  BY DEF KnownInv, Running, ToEndInv
<1>. QED
  BY <1>1, <1>2, <1>3, <1>4, <1>5, <1>6

LEMMA EndStep ==
    ASSUME IndInv, NEW t \in Task, End(t)
    PROVE  StructInv'
<1>. USE DEF IndInv, StructInv, TypeOK, RunningTypeOK, Critical, End
<1>0. /\ \A u \in Task : ~EndingAll(u)
      /\ \A u \in Task \ {t} : task'[u] = task[u] /\ task[u].pc \notin Critical /\ task[u].toEnd = {}
      /\ task[t].toEnd = {} /\ task'[t].pc = "ending" /\ task'[t].req.op = "end"
      /\ task'[t].toEnd = ThreadsOf(Running)
  <2>1. \A u \in Task \ {t} : task'[u] = task[u] /\ task[u].pc \notin Critical
    BY DEF LockInv
  <2>2. ThreadsOf(Running) \in SUBSET ThreadId
    BY DEF ThreadsOf, Running
  <2>3. task'[t].pc = "ending" /\ task'[t].req.op = "end" /\ task'[t].toEnd = ThreadsOf(Running)
    BY <2>2
  <2>. QED
    BY <2>1, <2>3 DEF EndingAll, ToEndInv
<1>1. \A n \in Running : Pollable(n, definitions[n])
  BY <1>0 DEF MapInv
<1>2. LockInv'
  BY <1>0 DEF LockInv
<1>3. MainInv'
  BY <1>0 DEF MainInv, LockInv
<1>4. ToEndInv' /\ NameInv'
  BY <1>0, <1>1 DEF ToEndInv, NameInv, ThreadsOf, Running, Pollable
<1>5. EndInv'
  <2>. SUFFICES ASSUME NEW d \in ThreadId, thread[d].pc # "none"
                PROVE  d \in ThreadsOf(Running)
    BY <1>0 DEF EndInv, EndingAll
  <2>1. PICK n \in Running : definitions[n] = d
    BY <1>0 DEF KnownInv
  <2>. QED
    BY <2>1 DEF ThreadsOf
<1>6. MapInv' /\ RemovedInv'
  BY <1>0 DEF MapInv, RemovedInv, EndingAll
<1>7. KnownInv'
  BY <1>0 DEF KnownInv, Running
<1>. QED
  BY <1>2, <1>3, <1>4, <1>5, <1>6, <1>7

LEMMA SendStopStep ==
    ASSUME IndInv, NEW t \in Task, NEW d \in ThreadId, SendStop(t, d)
    PROVE  StructInv'
<1>. USE DEF IndInv, StructInv, TypeOK, RunningTypeOK, Critical, SendStop, Become, TakeEnder
<1>0. /\ \A u \in Task : EndingAll(u)' <=> EndingAll(u)
      /\ \A u \in Task : task'[u].toEnd = task[u].toEnd
      /\ \A e \in ThreadId : thread'[e].pc = thread[e].pc /\ thread'[e].name = thread[e].name
      /\ \A e \in ThreadId \ {d} : thread'[e] = thread[e]
  BY DEF EndingAll
<1>1. LockInv' /\ MainInv'
  BY TaskAssumption DEF LockInv, MainInv
<1>2. ToEndInv' /\ NameInv'
  BY <1>0 DEF ToEndInv, NameInv
<1>3. EndInv'
  BY <1>0 DEF EndInv
<1>4. MapInv'
  <2>. SUFFICES ASSUME \A u \in Task : ~EndingAll(u), NEW n \in Running
                PROVE  Pollable(n, definitions[n])'
    BY <1>0 DEF MapInv, Running
  <2>1. definitions[n] # d /\ definitions[n] \in ThreadId
    BY DEF RemovedInv, Running
  <2>2. Pollable(n, definitions[n])
    BY DEF MapInv
  <2>. QED
    BY <1>0, <2>1, <2>2 DEF Pollable
<1>5. RemovedInv'
  BY <1>0 DEF RemovedInv
<1>6. KnownInv'
  BY <1>0 DEF KnownInv, Running
<1>. QED
  BY <1>1, <1>2, <1>3, <1>4, <1>5, <1>6

LEMMA JoinThreadStep ==
    ASSUME IndInv, NEW t \in Task, NEW d \in ThreadId, JoinThread(t, d)
    PROVE  StructInv'
<1>. USE DEF IndInv, StructInv, TypeOK, RunningTypeOK, Critical, JoinThread, Join
<1>0. /\ \A u \in Task : EndingAll(u)' <=> EndingAll(u)
      /\ \A u \in Task \ {t} : task'[u] = task[u] /\ task[u].toEnd = {}
      /\ task'[t].toEnd = task[t].toEnd \ {d} /\ task'[t].pc = "ending"
      /\ thread'[d].pc = "none"
      /\ \A e \in ThreadId \ {d} : thread'[e] = thread[e]
  BY DEF EndingAll, NoThreadRunning, LockInv, ToEndInv
<1>1. LockInv' /\ MainInv'
  BY TaskAssumption DEF LockInv, MainInv
<1>2. ToEndInv' /\ NameInv'
  BY <1>0 DEF ToEndInv, NameInv
<1>3. EndInv'
  BY <1>0 DEF EndInv, EndingAll
<1>4. MapInv'
  <2>. SUFFICES ASSUME \A u \in Task : ~EndingAll(u), NEW n \in Running
                PROVE  Pollable(n, definitions[n])'
    BY <1>0 DEF MapInv, Running
  <2>1. definitions[n] # d /\ definitions[n] \in ThreadId
    BY DEF RemovedInv, Running
  <2>2. Pollable(n, definitions[n])
    BY DEF MapInv
  <2>. QED
    BY <1>0, <2>1, <2>2 DEF Pollable
<1>5. RemovedInv'
  BY <1>0 DEF RemovedInv
<1>6. KnownInv'
  BY <1>0 DEF KnownInv, Running
<1>. QED
  BY <1>1, <1>2, <1>3, <1>4, <1>5, <1>6

LEMMA AllEndedStep ==
    ASSUME IndInv, NEW t \in Task, AllEnded(t)
    PROVE  StructInv'
<1>. USE DEF IndInv, StructInv, TypeOK, RunningTypeOK, Critical, AllEnded
<1>1. lock = t /\ lock' = lock
  BY DEF LockInv
<1>2. CASE task[t].req.op # "end"
  <2>1. \E pc \in Critical \ {"ending", "sending"} : Become(t, pc)
    BY <1>2
  <2>. QED
    BY <1>1, <1>2, <2>1, AdvanceStep DEF EndingAll
<1>3. CASE task[t].req.op = "end"
  <2>1. \A d \in ThreadId : thread[d].pc = "none"
    BY <1>3 DEF EndInv, EndingAll
  <2>2. Running' = {} /\ \A n \in Name : definitions'[n] = NoThread
    BY <1>3 DEF Remove, Running
  <2>3. \A u \in Task : task'[u].toEnd = {} /\ ~EndingAll(u)'
    BY <1>3 DEF EndingAll, Become, LockInv, ToEndInv
  <2>4. LockInv' /\ MainInv'
    BY <1>3 DEF LockInv, MainInv, Become
  <2>. QED
    BY <1>3, <2>1, <2>2, <2>3, <2>4 DEF ToEndInv, NameInv, EndInv, MapInv, RemovedInv, KnownInv
<1>. QED
  BY <1>2, <1>3

LEMMA RunDefinitionStep ==
    ASSUME IndInv, NEW t \in Task, NEW d \in ThreadId, NEW n \in Name, RunDefinition(t, n, d)
    PROVE  StructInv'
<1>. USE DEF IndInv, StructInv, TypeOK, RunningTypeOK, Critical, RunDefinition, Run
<1>0. /\ \A u \in Task : task[u].toEnd = {} /\ ~EndingAll(u) /\ ~EndingAll(u)'
      /\ \A e \in ThreadId \ {d} : thread'[e] = thread[e]
      /\ thread'[d] = [pc |-> "start", name |-> n, ender |-> TRUE, stop |-> FALSE]
      /\ n \notin Running /\ task' = task
  BY DEF LockInv, ToEndInv, EndingAll
<1>1. \A m \in Running : Pollable(m, definitions[m]) /\ definitions[m] \in ThreadId \ {d}
  BY <1>0 DEF MapInv, Pollable, Running
<1>2. \A e \in ThreadId \ {d} : thread[e].pc # "none" =>
        \E m \in Running : definitions[m] = e /\ thread[e].name = m
  BY <1>0, <1>1 DEF KnownInv, Pollable
<1>3. /\ Running' = Running \cup {n}
      /\ definitions'[n] = d
      /\ \A m \in Running : definitions'[m] = definitions[m]
  BY <1>0, NoThreadAssumption DEF Running
<1>4. LockInv' /\ MainInv'
  BY DEF LockInv, MainInv
<1>5. ToEndInv' /\ EndInv' /\ RemovedInv'
  BY <1>0 DEF ToEndInv, EndInv, RemovedInv
<1>6. NameInv'
  BY <1>0, <1>2 DEF NameInv
<1>7. MapInv'
  BY <1>0, <1>1, <1>3 DEF MapInv, Pollable
<1>8. KnownInv'
  BY <1>0, <1>2, <1>3 DEF KnownInv
<1>. QED
  BY <1>4, <1>5, <1>6, <1>7, <1>8
LEMMA ThreadStepStep ==
    ASSUME IndInv, NEW d \in ThreadId, ThreadStep(d)
    PROVE  StructInv'
<1>. USE DEF IndInv, StructInv, TypeOK, supervisorVars
<1>1. LocalStep(d) \/ NetworkStep(d)
  BY DEF ThreadStep
<1>2. thread[d].pc # "none"
  BY <1>1 DEF LocalStep, NetworkStep, GoOn, Interrupted, LoadTargets, Tick, StopWhileWaiting,
     ObserveEnd, PublicKey, FetchChanges, UpdateRegistries
<1>3. thread[d].name \in Name
  BY <1>2 DEF NameInv
<1>4. /\ \A e \in ThreadId : /\ thread'[e].pc # "none" <=> thread[e].pc # "none"
                             /\ thread'[e].name = thread[e].name
      /\ \A e \in ThreadId : ~thread[e].stop /\ thread[e].pc \notin {"ending", "exited"} =>
           /\ thread'[e].pc \notin {"ending", "exited"}
           /\ thread'[e].ender = thread[e].ender
           /\ thread'[e].stop = thread[e].stop
  <2>1. /\ thread[d].pc # "none" /\ thread'[d].pc # "none"
        /\ thread'[d].name = thread[d].name
        /\ thread'[d].ender = thread[d].ender
        /\ thread'[d].stop => thread[d].stop
        /\ thread'[d].pc \in {"ending", "exited"} => thread[d].stop \/ thread[d].pc = "ending"
        /\ \A e \in ThreadId \ {d} : thread'[e] = thread[e]
    BY <1>1, <1>3, ThreadStepShape
  <2>2. thread[d].stop \in BOOLEAN /\ thread'[d].stop \in BOOLEAN
    <3>1. RunningTypeOK'
      BY <1>1, <1>3, ThreadStepShape
    <3>. QED
      BY <3>1 DEF RunningTypeOK, Thread
  <2>3. ASSUME NEW e \in ThreadId, e # d
        PROVE  thread'[e] = thread[e]
    BY <2>1, <2>3
  <2>. QED
    BY <2>1, <2>2, <2>3
<1>5. UNCHANGED <<definitions, lock, task, phase>>
  BY DEF ThreadStep
<1>6. \A t \in Task : EndingAll(t)' <=> EndingAll(t)
  BY <1>5 DEF EndingAll
<1>7. LockInv' /\ MainInv'
  BY <1>5 DEF LockInv, MainInv
<1>8. ToEndInv' /\ NameInv' /\ EndInv'
  BY <1>4, <1>5, <1>6 DEF ToEndInv, NameInv, EndInv
<1>9. MapInv'
  BY <1>4, <1>5, <1>6 DEF MapInv, Running, Pollable, RunningTypeOK
<1>10. RemovedInv' /\ KnownInv'
  BY <1>4, <1>5, <1>6 DEF RemovedInv, KnownInv, Running
<1>. QED
  BY <1>7, <1>8, <1>9, <1>10

\* A state in which nothing runs satisfies the invariant, whatever the file.
LEMMA NewProcessStep ==
    ASSUME NewProcess
    PROVE  StructInv'
<1>1. \A t \in Task : task'[t] = IdleTask
  BY DEF NewProcess, IdleTasks
<1>2. \A d \in ThreadId : thread'[d].pc = "none"
  BY DEF NewProcess, NothingRuns, NoThreadRunning
<1>3. \A n \in Name : definitions'[n] = NoThread
  BY DEF NewProcess, NoDefinitions
<1>. QED
  BY <1>1, <1>2, <1>3, TaskAssumption
     DEF StructInv, LockInv, MainInv, ToEndInv, NameInv, EndInv, MapInv, RemovedInv, KnownInv,
         Running, EndingAll, IdleTask, NewProcess, Critical

LEMMA InitInv == Init => IndInv
<1>. SUFFICES ASSUME Init
              PROVE  IndInv
  OBVIOUS
<1>1. TypeOK
  <2>1. thread \in [ThreadId -> Thread] /\ definitions \in [Name -> ThreadId \cup {NoThread}]
    BY DEF Init, RunningInit, NothingRuns, NoThreadRunning, NoDefinitions
  <2>2. task \in [Task -> TaskState]
    BY IdleType DEF Init, IdleTasks
  <2>3. file \in File
    BY NoBoundaryNodesType DEF Init, AbsentFile, File
  <2>. QED
    BY <2>1, <2>2, <2>3, NoBoundaryNodesType DEF Init, TypeOK, RunningTypeOK, RunningInit, Phase
<1>2. StructInv
  <2>1. \A t \in Task : task[t] = IdleTask
    BY DEF Init, IdleTasks
  <2>2. \A d \in ThreadId : thread[d].pc = "none"
    BY DEF Init, RunningInit, NothingRuns, NoThreadRunning
  <2>3. \A n \in Name : definitions[n] = NoThread
    BY DEF Init, NoDefinitions
  <2>. QED
    BY <2>1, <2>2, <2>3, TaskAssumption
       DEF StructInv, LockInv, MainInv, ToEndInv, NameInv, EndInv, MapInv, RemovedInv, KnownInv,
           Running, EndingAll, IdleTask, Init, Critical
<1>. QED
  BY <1>1, <1>2 DEF IndInv

LEMMA StructStep ==
    ASSUME IndInv, [Next]_vars
    PROVE  StructInv'
<1>. USE DEF IndInv
<1>1. CASE UNCHANGED vars
  BY <1>1 DEF vars, StructInv, LockInv, MainInv, ToEndInv, NameInv, EndInv, MapInv, RemovedInv,
     KnownInv, Running, EndingAll, Pollable
<1>2. ASSUME NEW d \in ThreadId, ThreadStep(d)
      PROVE  StructInv'
  BY <1>2, ThreadStepStep
<1>3. ASSUME NEW t \in Task, SupervisorStep(t)
      PROVE  StructInv'
  <2>0. \A u \in Task : task[u].pc \in Critical => lock = u
    BY DEF StructInv, LockInv
  <2>1. task[t].pc \in Critical \ {"ending", "sending"} => lock = t /\ task[t].toEnd = {} /\ ~EndingAll(t)
    BY <2>0 DEF StructInv, ToEndInv, EndingAll
  <2>2. CASE AllAdded(t) \/ AddBoundaryNode(t) \/ PersistOpen(t) \/ PersistWrite(t) \/ PersistFail(t)
    <3>1. task[t].pc \in Critical \ {"ending", "sending"} /\ UNCHANGED <<thread, definitions, lock, phase>>
      BY <2>2 DEF Critical, AllAdded, AddBoundaryNode, PersistOpen, PersistWrite, PersistFail
    <3>2. \E pc \in Critical \ {"ending", "sending"} : Become(t, pc)
      BY <2>2 DEF Critical, AllAdded, AddBoundaryNode, PersistOpen, PersistWrite, PersistFail
    <3>. QED
      BY <2>1, <3>1, <3>2, AdvanceStep
  <2>3. CASE Start(t) \/ Stop(t)
    <3>1. /\ task[t].pc = "locked" /\ "locked" \in Critical \ {"ending", "sending"}
          /\ task[t].req.op # "end" /\ UNCHANGED <<thread, lock, phase>>
      BY <2>3 DEF Start, Stop, Critical
    <3>2. CASE Become(t, "unlocking") /\ UNCHANGED definitions
      <4>1. "unlocking" \in Critical \ {"ending", "sending"}
        BY DEF Critical
      <4>. QED
        BY <2>1, <3>1, <3>2, <4>1, AdvanceStep
    <3>3. CASE \E names \in SUBSET Name :
                 /\ task' = [task EXCEPT ![t].pc = "ending", ![t].toEnd = ThreadsOf(names)]
                 /\ Remove(names)
      BY <2>1, <3>1, <3>3, RemoveStep
    <3>4. ToEnd(task[t].req) \in SUBSET Name /\ task[t].req.names \in SUBSET Name
      BY DEF ToEnd, Running, TypeOK, Request
    <3>. QED
      BY <2>3, <3>2, <3>3, <3>4 DEF Start, Stop
  <2>4. ASSUME NEW d \in ThreadId, SendStop(t, d) \/ JoinThread(t, d)
        PROVE  StructInv'
    BY <2>4, SendStopStep, JoinThreadStep
  <2>5. ASSUME NEW d \in ThreadId, NEW n \in Name, RunDefinition(t, n, d)
        PROVE  StructInv'
    BY <2>5, RunDefinitionStep
  <2>. QED
    BY <1>3, <2>2, <2>3, <2>4, <2>5, AcquireStep, UnlockStep, EndStep, AllEndedStep
       DEF SupervisorStep
<1>4. ASSUME NEW h \in Handler, HandlerStep(h)
      PROVE  StructInv'
  <2>1. task[h].pc \in {"idle", "converting"} /\ UNCHANGED <<thread, definitions, lock, phase>>
    BY <1>4 DEF HandlerStep, Accepting, AcceptDefinitions, AcceptLocking, Convert, ConversionFails
  <2>2. \E r \in TaskState : /\ task' = [task EXCEPT ![h] = r]
                             /\ r.pc \in {"idle", "converting", "queued"} /\ r.toEnd = {}
    <3>0. ASSUME NEW pc \in {"converting", "queued"}, NEW req \in Request,
                 task' = [task EXCEPT ![h] = [pc |-> pc, req |-> req, toEnd |-> {}]]
          PROVE  \E r \in TaskState : /\ task' = [task EXCEPT ![h] = r]
                                      /\ r.pc \in {"idle", "converting", "queued"} /\ r.toEnd = {}
      <4>. DEFINE r == [pc |-> pc, req |-> req, toEnd |-> {}]
      <4>1. r \in TaskState /\ r.pc \in {"idle", "converting", "queued"} /\ r.toEnd = {}
        OBVIOUS
      <4>. QED
        BY <3>0, <4>1
    <3>1. CASE AcceptDefinitions(h)
      BY <3>0, <3>1, RequestType DEF AcceptDefinitions
    <3>2. CASE AcceptLocking(h)
      BY <3>0, <3>2, RequestType DEF AcceptLocking, Enqueue
    <3>3. CASE Convert(h)
      <4>1. task[h].req \in Request
        BY DEF TypeOK
      <4>. QED
        BY <3>0, <3>3, <4>1 DEF Convert, Enqueue
    <3>4. CASE ConversionFails(h)
      BY <3>4, IdleType DEF ConversionFails, IdleTask
    <3>. QED
      BY <1>4, <3>1, <3>2, <3>3, <3>4 DEF HandlerStep
  <2>3. MainInv'
    BY <2>1, <2>2, TaskAssumption DEF StructInv, MainInv, TypeOK
  <2>. QED
    BY <2>1, <2>2, <2>3, RequestStep DEF Critical
<1>5. CASE LoadOrCreate \/ StartMainnet \/ Shutdown \/ ServerStopped
  <2>1. task[Main].pc = "idle" /\ UNCHANGED <<thread, definitions, lock>>
    BY <1>5 DEF StructInv, MainInv, LoadOrCreate, StartMainnet, Shutdown, ServerStopped
  <2>2. CASE task' = task
    <3>1. MainInv'
      BY <2>1, <2>2 DEF MainInv
    <3>. QED
      BY <2>1, <2>2, <3>1 DEF StructInv, LockInv, ToEndInv, NameInv, EndInv, MapInv, RemovedInv,
         KnownInv, Running, EndingAll, Pollable
  <2>3. CASE /\ phase' \in {"loading", "starting", "stopping"}
             /\ \E req \in Request :
                  task' = [task EXCEPT ![Main] = [pc |-> "queued", req |-> req, toEnd |-> {}]]
    <3>1. MainInv'
      BY <2>3 DEF MainInv
    <3>. QED
      BY <2>1, <2>3, <3>1, RequestStep DEF Critical
  <2>. QED
    BY <1>5, <2>2, <2>3, RequestType
       DEF LoadOrCreate, StartMainnet, Shutdown, ServerStopped, Enqueue, TypeOK, File
<1>6. CASE Restart \/ Crash
  BY <1>6, NewProcessStep DEF Restart, Crash
<1>. QED
  BY <1>1, <1>2, <1>3, <1>4, <1>5, <1>6 DEF Next, MainStep

-----------------------------------------------------------------------------
(* Theorems. *)

\* Every reachable state satisfies the inductive invariant.
THEOREM Invariant == Spec => []IndInv
<1>1. IndInv /\ [Next]_vars => IndInv'
  BY TypeStep, StructStep DEF IndInv
<1>. QED
  BY <1>1, InitInv, PTL DEF Spec

\* Type correctness: in particular no entry of the metrics is made for a slot
\* that runs nothing, and the file length stays a number.
THEOREM TypeCorrect == Spec => []TypeOK
BY Invariant, PTL DEF IndInv

\* Whenever the mutex is free the map and the threads agree.
THEOREM MapAndThreadsAgree == Spec => []MapMatchesThreads
<1>1. IndInv => MapMatchesThreads
  <2>. SUFFICES ASSUME IndInv, lock = NoTask
                PROVE  /\ \A n \in Running : Pollable(n, definitions[n])
                       /\ \A d \in ThreadId : thread[d].pc # "none" => \E n \in Running : definitions[n] = d
    BY DEF MapMatchesThreads, Pollable
  <2>1. \A t \in Task : task[t].pc \notin Critical
    BY TaskAssumption DEF IndInv, StructInv, LockInv
  <2>2. \A t \in Task : ~EndingAll(t) /\ task[t].toEnd = {}
    BY <2>1 DEF IndInv, StructInv, ToEndInv, EndingAll, Critical
  <2>. QED
    BY <2>2 DEF IndInv, StructInv, MapInv, KnownInv
<1>. QED
  BY <1>1, Invariant, PTL

\* If no two names share a folder, no two threads ever share one.
OneFolderPerName == \A m, n \in Name : FolderOf[m] = FolderOf[n] => m = n

THEOREM FoldersExclusive == OneFolderPerName => (Spec => []OneThreadPerFolder)
<1>. SUFFICES ASSUME OneFolderPerName
              PROVE  Spec => []OneThreadPerFolder
  OBVIOUS
<1>1. IndInv => OneThreadPerFolder
  BY DEF IndInv, StructInv, NameInv, OneThreadPerFolder, OneFolderPerName, Alive
<1>. QED
  BY <1>1, Invariant, PTL
-----------------------------------------------------------------------------
(* The supervisor implements FolderLease.                                   *)

LEMMA SameUsers ==
    ASSUME \A d \in ThreadId : /\ d \in Alive' <=> d \in Alive
                               /\ thread'[d].name = thread[d].name \/ d \notin Alive
    PROVE  FolderUsers' = FolderUsers
BY DEF FolderUsers, Alive

LEMMA ThreadStepLease ==
    ASSUME IndInv, OneFolderPerName, NEW d \in ThreadId, ThreadStep(d)
    PROVE  [Lease!Next]_FolderUsers
<1>. USE DEF IndInv, StructInv, TypeOK
<1>1. LocalStep(d) \/ NetworkStep(d)
  BY DEF ThreadStep
<1>2. thread[d].pc # "none"
  BY <1>1 DEF LocalStep, NetworkStep, GoOn, Interrupted, LoadTargets, Tick, StopWhileWaiting,
     ObserveEnd, PublicKey, FetchChanges, UpdateRegistries
<1>3. thread[d].name \in Name
  BY <1>2 DEF NameInv
<1>4. /\ thread'[d].name = thread[d].name
      /\ \A e \in ThreadId \ {d} : thread'[e] = thread[e]
  BY <1>1, <1>3, ThreadStepShape
<1>5. CASE ObserveEnd(d)
  <2>. DEFINE f == FolderOf[thread[d].name]
  <2>1. Alive' = Alive \ {d} /\ d \in Alive
    BY <1>4, <1>5 DEF ObserveEnd, Goto, Alive, RunningTypeOK
  <2>2. f \in Folder
    BY <1>3, FolderAssumption
  <2>3. \A e \in Alive : FolderOf[thread[e].name] = f => e = d
    BY <1>2, <1>3 DEF NameInv, OneFolderPerName, Alive
  <2>4. FolderUsers' = [FolderUsers EXCEPT ![f] = {}]
    <3>1. \A g \in Folder : {e \in Alive' : FolderOf[thread'[e].name] = g}
                              = IF g = f THEN {} ELSE {e \in Alive : FolderOf[thread[e].name] = g}
      BY <1>4, <2>1, <2>3 DEF Alive
    <3>. QED
      BY <2>2, <3>1 DEF FolderUsers
  <2>5. Lease!Release(f)
    BY <2>4 DEF Lease!Release
  <2>. QED
    BY <2>2, <2>5 DEF Lease!Next
<1>6. CASE ~ObserveEnd(d)
  <2>1. d \in Alive /\ d \in Alive'
    BY <1>1, <1>6 DEF Alive, RunningTypeOK, LocalStep, NetworkStep, GoOn, Interrupted, LoadTargets,
       Tick, StopWhileWaiting, PublicKey, FetchChanges, UpdateRegistries, Goto, Receive
  <2>. QED
    BY <1>4, <2>1, SameUsers DEF Alive
<1>. QED
  BY <1>5, <1>6

LEMMA RunDefinitionLease ==
    ASSUME IndInv, IndInv', OneFolderPerName, NEW t \in Task, NEW d \in ThreadId, NEW n \in Name,
           RunDefinition(t, n, d)
    PROVE  Lease!Next
<1>. USE DEF IndInv, StructInv, TypeOK
<1>. DEFINE f == FolderOf[n]
<1>1. f \in Folder
  BY FolderAssumption
<1>2. /\ d \notin Alive /\ Alive' = Alive \cup {d}
      /\ thread'[d].name = n
      /\ \A e \in ThreadId \ {d} : thread'[e] = thread[e]
  BY DEF RunDefinition, Run, RunningTypeOK, Alive
<1>3. \A e \in Alive : FolderOf[thread[e].name] # f
  BY <1>2 DEF NameInv, OneFolderPerName, Alive
<1>4. FolderUsers[f] = {} /\ \A g \in Folder : d \notin FolderUsers[g]
  BY <1>1, <1>2, <1>3 DEF FolderUsers
<1>5. FolderUsers' = [FolderUsers EXCEPT ![f] = {d}]
  <2>1. \A g \in Folder : {e \in Alive' : FolderOf[thread'[e].name] = g}
                            = IF g = f THEN {d} ELSE {e \in Alive : FolderOf[thread[e].name] = g}
    BY <1>2, <1>3 DEF Alive
  <2>. QED
    BY <1>1, <2>1 DEF FolderUsers
<1>. QED
  BY <1>1, <1>4, <1>5 DEF Lease!Next, Lease!Grant, Lease!Unemployed

\* Each step of the supervisor and of its threads hands a folder over as
\* FolderLease allows, or does not change who uses what.
THEOREM LeaseImplemented == OneFolderPerName => (Spec => LeaseSpec)
<1>. SUFFICES ASSUME OneFolderPerName
              PROVE  Spec => LeaseSpec
  OBVIOUS
<1>1. Init => Lease!Init
  BY DEF Init, RunningInit, NothingRuns, NoThreadRunning, Lease!Init, FolderUsers, Alive
<1>2. ASSUME IndInv, IndInv', [Next]_vars
      PROVE  [Lease!Next]_FolderUsers
  <2>. USE DEF IndInv, TypeOK
  <2>1. CASE UNCHANGED thread
    BY <2>1, SameUsers DEF Alive
  <2>2. ASSUME NEW d \in ThreadId, ThreadStep(d)
        PROVE  [Lease!Next]_FolderUsers
    BY <1>2, <2>2, ThreadStepLease
  <2>3. ASSUME NEW t \in Task, NEW d \in ThreadId, SendStop(t, d)
        PROVE  [Lease!Next]_FolderUsers
    <3>1. \A e \in ThreadId : thread'[e].pc = thread[e].pc /\ thread'[e].name = thread[e].name
      BY <1>2, <2>3 DEF SendStop, TakeEnder, RunningTypeOK
    <3>. QED
      BY <3>1, SameUsers DEF Alive
  <2>4. ASSUME NEW t \in Task, NEW d \in ThreadId, JoinThread(t, d)
        PROVE  [Lease!Next]_FolderUsers
    <3>1. /\ d \notin Alive /\ d \notin Alive'
          /\ \A e \in ThreadId \ {d} : thread'[e] = thread[e]
      BY <1>2, <2>4 DEF JoinThread, Join, NoThreadRunning, RunningTypeOK, Alive
    <3>. QED
      BY <3>1, SameUsers DEF Alive
  <2>5. ASSUME NEW t \in Task, NEW d \in ThreadId, NEW n \in Name, RunDefinition(t, n, d)
        PROVE  [Lease!Next]_FolderUsers
    BY <1>2, <2>5, RunDefinitionLease
  <2>6. CASE NewProcess
    <3>1. Alive' = {}
      BY <2>6 DEF NewProcess, NothingRuns, NoThreadRunning, Alive
    <3>. QED
      BY <3>1 DEF FolderUsers, Lease!Next, Lease!ProcessDies
  <2>7. ASSUME NEW t \in Task, SupervisorStep(t)
        PROVE  [Lease!Next]_FolderUsers
    <3>1. \/ UNCHANGED thread
          \/ \E d \in ThreadId : SendStop(t, d) \/ JoinThread(t, d)
          \/ \E d \in ThreadId, n \in Name : RunDefinition(t, n, d)
      BY <2>7 DEF SupervisorStep, Acquire, Start, Stop, End, AllEnded, AllAdded, AddBoundaryNode,
         PersistOpen, PersistWrite, PersistFail, Unlock
    <3>. QED
      BY <2>1, <2>3, <2>4, <2>5, <3>1
  <2>8. (\E h \in Handler : HandlerStep(h)) => UNCHANGED thread
    BY DEF HandlerStep, AcceptDefinitions, AcceptLocking, Convert, ConversionFails
  <2>9. MainStep \/ Crash => UNCHANGED thread \/ NewProcess
    BY DEF MainStep, LoadOrCreate, StartMainnet, Shutdown, ServerStopped, Restart, Crash
  <2>10. UNCHANGED vars => UNCHANGED thread
    BY DEF vars
  <2>. QED
    BY <1>2, <2>1, <2>2, <2>6, <2>7, <2>8, <2>9, <2>10 DEF Next
<1>. QED
  BY <1>1, <1>2, Invariant, PTL DEF Spec, LeaseSpec, Lease!Spec

-----------------------------------------------------------------------------
(* The metrics belong to the threads.                                       *)

\* Threads that keep their names and stay alive keep the metrics true.
LEMMA SameMetrics ==
    ASSUME MetricsMatchThreads, UNCHANGED metrics,
           \A d \in ThreadId :
             /\ d \in Alive => d \in Alive' /\ thread'[d].name = thread[d].name
             /\ thread'[d].pc \in {"retry", "load", "update", "wait"} =>
                  thread'[d].pc = thread[d].pc /\ thread'[d].name = thread[d].name
    PROVE  MetricsMatchThreads'
BY DEF MetricsMatchThreads, Alive

LEMMA ThreadStepMetrics ==
    ASSUME IndInv, MetricsMatchThreads, NEW d \in ThreadId, ThreadStep(d)
    PROVE  MetricsMatchThreads'
<1>. USE DEF IndInv, TypeOK, RunningTypeOK
<1>. DEFINE Observed == {"retry", "load", "update", "wait"}
<1>1. LocalStep(d) \/ NetworkStep(d)
  BY DEF ThreadStep
<1>2. thread[d].pc # "none"
  BY <1>1 DEF LocalStep, NetworkStep, GoOn, Interrupted, LoadTargets, Tick, StopWhileWaiting,
     ObserveEnd, PublicKey, FetchChanges, UpdateRegistries
<1>3. thread[d].name \in Name
  BY <1>2 DEF StructInv, NameInv
<1>4. /\ thread'[d].name = thread[d].name
      /\ \A e \in ThreadId \ {d} : thread'[e] = thread[e]
  BY <1>1, <1>3, ThreadStepShape
<1>5. CASE ObserveEnd(d)
  <2>1. thread'[d].pc = "exited" /\ d \in Alive /\ Alive' = Alive \ {d}
    BY <1>4, <1>5 DEF ObserveEnd, Goto, Alive
  <2>2. \A e \in Alive \ {d} : thread[e].name # thread[d].name
    BY <2>1 DEF StructInv, NameInv, Alive
  <2>3. metrics' = metrics \ {thread[d].name}
    BY <1>5 DEF ObserveEnd
  <2>4. ASSUME NEW n \in metrics'
        PROVE  \E e \in Alive' : thread'[e].name = n
    BY <1>4, <2>1, <2>3, <2>4 DEF MetricsMatchThreads, Alive
  <2>5. ASSUME NEW e \in ThreadId, thread'[e].pc \in Observed
        PROVE  thread'[e].name \in metrics'
    BY <1>4, <2>1, <2>2, <2>3, <2>5 DEF MetricsMatchThreads, Alive
  <2>. QED
    BY <2>4, <2>5 DEF MetricsMatchThreads
<1>6. CASE ~ObserveEnd(d)
  <2>1. d \in Alive' /\ d \in Alive
    BY <1>1, <1>6 DEF Alive, LocalStep, NetworkStep, GoOn, Interrupted, LoadTargets,
       Tick, StopWhileWaiting, PublicKey, FetchChanges, UpdateRegistries, Goto, Receive
  <2>2. \/ metrics' = metrics
        \/ metrics' = metrics \cup {thread[d].name}
    BY <1>1, <1>6 DEF LocalStep, NetworkStep, GoOn, Interrupted, LoadTargets,
       Tick, StopWhileWaiting, PublicKey, FetchChanges, UpdateRegistries, Receive, Observe
  <2>3. thread'[d].pc \in Observed =>
           thread[d].pc \in Observed \/ thread[d].name \in metrics'
    BY <1>1, <1>6 DEF LocalStep, NetworkStep, GoOn, Interrupted, LoadTargets,
       Tick, StopWhileWaiting, PublicKey, FetchChanges, UpdateRegistries, Goto, Receive, Observe
  <2>4. ASSUME NEW n \in metrics'
        PROVE  \E e \in Alive' : thread'[e].name = n
    BY <1>4, <2>1, <2>2, <2>4 DEF MetricsMatchThreads, Alive
  <2>5. ASSUME NEW e \in ThreadId, thread'[e].pc \in Observed
        PROVE  thread'[e].name \in metrics'
    BY <1>4, <2>2, <2>3, <2>5 DEF MetricsMatchThreads
  <2>. QED
    BY <2>4, <2>5 DEF MetricsMatchThreads
<1>. QED
  BY <1>5, <1>6

\* What a step of the supervisor or of main() can do to the threads.
LEMMA ThreadChanges ==
    ASSUME Next, \A d \in ThreadId : ~ThreadStep(d), ~NewProcess
    PROVE  /\ UNCHANGED metrics
           /\ \/ UNCHANGED thread
              \/ \E d \in ThreadId : TakeEnder(d) \/ Join(d) \/ \E n \in Name : Run(d, n)
<1>1. ASSUME NEW t \in Task, SupervisorStep(t)
      PROVE  /\ UNCHANGED metrics
             /\ \/ UNCHANGED thread
                \/ \E d \in ThreadId : TakeEnder(d) \/ Join(d) \/ \E n \in Name : Run(d, n)
  <2>1. CASE \E d \in ThreadId : SendStop(t, d) \/ JoinThread(t, d)
    BY <2>1 DEF SendStop, JoinThread
  <2>2. CASE \E d \in ThreadId, n \in Name : RunDefinition(t, n, d)
    BY <2>2 DEF RunDefinition
  <2>3. CASE Acquire(t) \/ Start(t) \/ Stop(t) \/ End(t) \/ AllEnded(t)
    BY <2>3 DEF Acquire, Start, Stop, End, AllEnded
  <2>4. CASE AllAdded(t) \/ AddBoundaryNode(t) \/ PersistOpen(t) \/ PersistWrite(t)
             \/ PersistFail(t) \/ Unlock(t)
    BY <2>4 DEF AllAdded, AddBoundaryNode, PersistOpen, PersistWrite, PersistFail, Unlock
  <2>. QED
    BY <1>1, <2>1, <2>2, <2>3, <2>4 DEF SupervisorStep
<1>2. (\E h \in Handler : HandlerStep(h)) => UNCHANGED <<thread, metrics>>
  BY DEF HandlerStep, AcceptDefinitions, AcceptLocking, Convert, ConversionFails
<1>3. MainStep \/ Crash => UNCHANGED <<thread, metrics>> \/ NewProcess
  BY DEF MainStep, LoadOrCreate, StartMainnet, Shutdown, ServerStopped, Restart, Crash
<1>. QED
  BY <1>1, <1>2, <1>3 DEF Next

\* A network has an entry in the metrics only while a thread of that name runs,
\* and the observe_end of an old thread never removes its successor's entry.
THEOREM MetricsFollowThreads == Spec => []MetricsMatchThreads
<1>1. Init => MetricsMatchThreads
  BY DEF Init, RunningInit, NothingRuns, NoThreadRunning, MetricsMatchThreads, Alive
<1>2. ASSUME IndInv, MetricsMatchThreads, [Next]_vars
      PROVE  MetricsMatchThreads'
  <2>. USE <1>2
  <2>1. CASE \E d \in ThreadId : ThreadStep(d)
    BY <2>1, ThreadStepMetrics
  <2>2. CASE NewProcess
    BY <2>2 DEF NewProcess, NothingRuns, NoThreadRunning, MetricsMatchThreads, Alive
  <2>3. CASE UNCHANGED <<thread, metrics>>
    BY <2>3, SameMetrics DEF Alive
  <2>4. ASSUME NEW d \in ThreadId, TakeEnder(d) \/ Join(d) \/ \E n \in Name : Run(d, n),
               UNCHANGED metrics
        PROVE  MetricsMatchThreads'
    <3>1. \A e \in ThreadId :
             /\ e \in Alive => e \in Alive' /\ thread'[e].name = thread[e].name
             /\ thread'[e].pc \in {"retry", "load", "update", "wait"} =>
                  thread'[e].pc = thread[e].pc /\ thread'[e].name = thread[e].name
      BY <2>4 DEF TakeEnder, Join, Run, NoThreadRunning, Alive, IndInv, TypeOK, RunningTypeOK
    <3>. QED
      BY <2>4, <3>1, SameMetrics
  <2>5. UNCHANGED vars => UNCHANGED <<thread, metrics>>
    BY DEF vars
  <2>. QED
    BY <2>1, <2>2, <2>3, <2>4, <2>5, ThreadChanges
<1>. QED
  BY <1>1, <1>2, Invariant, PTL DEF Spec

-----------------------------------------------------------------------------
(* Mainnet is served.  Main adds it before the first request is accepted,   *)
(* and whoever takes it out of the map since then is about to put it back.  *)

MercuryRequest == Names("add", {Mercury}, FALSE)

HandlersDoNotEnd == \A h \in Handler : task[h].req.op # "end"

NotYetServing == phase \in {"load", "loading", "mainnet", "starting"} =>
                   \A h \in Handler : task[h].pc = "idle"

MercuryStarts == phase = "starting" =>
                   /\ task[Main].req = MercuryRequest
                   /\ task[Main].pc \notin {"idle", "converting"}
                   /\ task[Main].pc \in {"persisting", "writing", "unlocking"} => Mercury \in Running

BringsMercury(t) == /\ task[t].pc \in {"ending", "sending", "adding"}
                    /\ task[t].req.op \in {"add", "replace"}
                    /\ Mercury \in task[t].req.names

MercuryKept == phase = "serving" /\ ~StartWithoutMainnet =>
                 Mercury \in Running \/ \E t \in Task : BringsMercury(t)

MercuryInv == HandlersDoNotEnd /\ NotYetServing /\ MercuryStarts /\ MercuryKept

\* What a step of the task at work has to show.
LEMMA WorkingStep ==
    ASSUME IndInv, MercuryInv, UNCHANGED phase, NEW t \in Task, task[t].pc # "idle",
           \A u \in Task \ {t} : task'[u] = task[u],
           task'[t].req = task[t].req, task'[t].pc \in Critical,
           t = Main /\ phase = "starting" /\ task'[t].pc \in {"persisting", "writing", "unlocking"}
             => Mercury \in Running',
           phase = "serving" /\ ~StartWithoutMainnet =>
             Mercury \in Running' \/ \E u \in Task : BringsMercury(u)'
    PROVE  MercuryInv'
<1>1. HandlersDoNotEnd'
  BY DEF MercuryInv, HandlersDoNotEnd
<1>2. NotYetServing'
  BY DEF MercuryInv, NotYetServing
<1>3. MercuryStarts'
  BY DEF MercuryInv, NotYetServing, MercuryStarts, Critical
<1>4. MercuryKept'
  BY DEF MercuryKept
<1>. QED
  BY <1>1, <1>2, <1>3, <1>4 DEF MercuryInv

\* A step that leaves the map as it is and does not finish the adding.
LEMMA MapKeptStep ==
    ASSUME IndInv, MercuryInv, UNCHANGED <<phase, definitions>>, NEW t \in Task, task[t].pc # "idle",
           \A u \in Task \ {t} : task'[u] = task[u],
           task'[t].req = task[t].req, task'[t].pc \in Critical,
           \/ BringsMercury(t) => BringsMercury(t)'
           \/ Mercury \in Running,
           \/ task[t].pc \in {"persisting", "writing", "unlocking"}
           \/ task'[t].pc \notin {"persisting", "writing", "unlocking"}
           \/ t # Main
           \/ phase # "starting"
           \/ Mercury \in Running
    PROVE  MercuryInv'
<1>1. Running' = Running
  BY DEF Running
<1>2. \A u \in Task \ {t} : BringsMercury(u) <=> BringsMercury(u)'
  BY DEF BringsMercury
<1>3. phase = "serving" /\ ~StartWithoutMainnet =>
        Mercury \in Running' \/ \E u \in Task : BringsMercury(u)'
  BY <1>1, <1>2 DEF MercuryInv, MercuryKept
<1>4. t = Main /\ phase = "starting" /\ task'[t].pc \in {"persisting", "writing", "unlocking"}
        => Mercury \in Running'
  BY <1>1 DEF MercuryInv, MercuryStarts
<1>. QED
  BY <1>3, <1>4, WorkingStep

\* At its time of starting mainnet, main() has nothing else to do.
LEMMA StartingRequest ==
    ASSUME MercuryInv, phase = "starting"
    PROVE  /\ task[Main].req.op = "add"
           /\ task[Main].req.names = {Mercury}
           /\ task[Main].req.repeated = FALSE
BY DEF MercuryInv, MercuryStarts, MercuryRequest, Names

\* While requests are served, only a handler is at work, and it ends nothing for good.
LEMMA ServingRequest ==
    ASSUME IndInv, MercuryInv, phase = "serving", NEW t \in Task, task[t].pc # "idle"
    PROVE  t \in Handler /\ task[t].req.op # "end"
BY DEF IndInv, StructInv, MainInv, MercuryInv, HandlersDoNotEnd

\* Only the holder of the mutex can owe mercury to the map.
LEMMA HolderBrings ==
    ASSUME IndInv, NEW t \in Task, task[t].pc \in Critical, NEW u \in Task, BringsMercury(u)
    PROVE  u = t
BY DEF IndInv, StructInv, LockInv, BringsMercury, Critical

LEMMA StartMercury ==
    ASSUME IndInv, MercuryInv, NEW t \in Task, Start(t)
    PROVE  MercuryInv'
<1>. USE DEF IndInv, TypeOK
<1>. DEFINE req == task[t].req
<1>0. /\ task[t].pc = "locked" /\ req.op \in {"add", "replace"} /\ UNCHANGED phase
      /\ \A u \in Task \ {t} : task'[u] = task[u]
      /\ task'[t].req = req
      /\ task'[t].pc \in {"unlocking", "ending"}
  BY DEF Start, Become
<1>1. CASE Refused(req)
  <2>1. UNCHANGED definitions /\ task'[t].pc = "unlocking"
    BY <1>1 DEF Start, Become
  <2>2. t = Main /\ phase = "starting" => Mercury \in Running
    BY <1>1, StartingRequest DEF Refused
  <2>3. ~BringsMercury(t)
    BY <1>0 DEF BringsMercury
  <2>. QED
    BY <1>0, <2>1, <2>2, <2>3, MapKeptStep DEF Critical
<1>2. CASE ~Refused(req)
  <2>1. Remove(ToEnd(req)) /\ task'[t].pc = "ending"
    BY <1>2 DEF Start
  <2>2. Running' = Running \ ToEnd(req)
    BY <2>1 DEF Remove, Running
  <2>3. ASSUME phase = "serving", ~StartWithoutMainnet
        PROVE  Mercury \in Running' \/ BringsMercury(t)'
    <3>1. CASE req.op = "replace"
      <4>1. Mercury \in req.names
        BY <1>2, <2>3, <3>1 DEF Refused
      <4>. QED
        BY <1>0, <2>1, <3>1, <4>1 DEF BringsMercury
    <3>2. CASE req.op = "add"
      <4>1. ToEnd(req) = {}
        BY <1>2, <3>2 DEF Refused, ToEnd
      <4>2. \A u \in Task : ~BringsMercury(u)
        BY <1>0, HolderBrings DEF BringsMercury, Critical
      <4>. QED
        BY <2>2, <2>3, <4>1, <4>2 DEF MercuryInv, MercuryKept
    <3>. QED
      BY <1>0, <3>1, <3>2
  <2>. QED
    BY <1>0, <2>1, <2>3, WorkingStep DEF Critical
<1>. QED
  BY <1>1, <1>2

LEMMA StopMercury ==
    ASSUME IndInv, MercuryInv, NEW t \in Task, Stop(t)
    PROVE  MercuryInv'
<1>. USE DEF IndInv, TypeOK
<1>. DEFINE names == task[t].req.names
<1>0. /\ task[t].pc = "locked" /\ task[t].req.op = "delete" /\ UNCHANGED phase
      /\ \A u \in Task \ {t} : task'[u] = task[u]
      /\ task'[t].req = task[t].req
      /\ task'[t].pc \in {"unlocking", "ending"}
  BY DEF Stop, Become
<1>1. ~(t = Main /\ phase = "starting")
  BY <1>0, StartingRequest
<1>2. \A u \in Task : ~BringsMercury(u)
  BY <1>0, HolderBrings DEF BringsMercury, Critical
<1>3. CASE UNCHANGED definitions
  BY <1>0, <1>1, <1>2, <1>3, MapKeptStep DEF Critical
<1>4. CASE ~(Mercury \in names /\ ~StartWithoutMainnet) /\ Remove(names)
  <2>1. Running' = Running \ names
    BY <1>4 DEF Remove, Running
  <2>2. phase = "serving" /\ ~StartWithoutMainnet => Mercury \in Running'
    BY <1>2, <1>4, <2>1 DEF MercuryInv, MercuryKept
  <2>. QED
    BY <1>0, <1>1, <2>2, WorkingStep DEF Critical
<1>. QED
  BY <1>3, <1>4 DEF Stop

LEMMA AllEndedMercury ==
    ASSUME IndInv, MercuryInv, NEW t \in Task, AllEnded(t)
    PROVE  MercuryInv'
<1>. USE DEF IndInv, TypeOK
<1>0. /\ task[t].pc = "ending" /\ UNCHANGED phase
      /\ \A u \in Task \ {t} : task'[u] = task[u]
      /\ task'[t].req = task[t].req
      /\ task'[t].pc = IF task[t].req.op \in {"add", "replace"} THEN "adding" ELSE "unlocking"
  BY DEF AllEnded, Become
<1>1. CASE task[t].req.op = "end"
  BY <1>0, <1>1, StartingRequest, ServingRequest, WorkingStep DEF Critical
<1>2. CASE task[t].req.op # "end"
  <2>1. UNCHANGED definitions
    BY <1>2 DEF AllEnded
  <2>2. BringsMercury(t) => BringsMercury(t)'
    BY <1>0 DEF BringsMercury
  <2>3. t = Main /\ phase = "starting" => task'[t].pc = "adding"
    BY <1>0, StartingRequest
  <2>. QED
    BY <1>0, <2>1, <2>2, <2>3, MapKeptStep DEF Critical
<1>. QED
  BY <1>1, <1>2

LEMMA AddingMercury ==
    ASSUME IndInv, MercuryInv, NEW t \in Task,
           AllAdded(t) \/ \E n \in Name, d \in ThreadId : RunDefinition(t, n, d)
    PROVE  MercuryInv'
<1>. USE DEF IndInv, TypeOK
<1>1. CASE AllAdded(t)
  <2>1. /\ task[t].pc = "adding" /\ UNCHANGED <<phase, definitions>>
        /\ \A u \in Task \ {t} : task'[u] = task[u]
        /\ task'[t].req = task[t].req
        /\ task'[t].pc = "persisting"
        /\ task[t].req.names \subseteq Running
    BY <1>1 DEF AllAdded, Become
  <2>2. BringsMercury(t) => Mercury \in Running
    BY <2>1 DEF BringsMercury
  <2>3. t = Main /\ phase = "starting" => Mercury \in Running
    BY <2>1, StartingRequest
  <2>. QED
    BY <2>1, <2>2, <2>3, MapKeptStep DEF Critical
<1>2. ASSUME NEW n \in Name, NEW d \in ThreadId, RunDefinition(t, n, d)
      PROVE  MercuryInv'
  <2>1. Running \subseteq Running' /\ UNCHANGED <<task, phase>> /\ task[t].pc = "adding"
    BY <1>2, NoThreadAssumption DEF RunDefinition, Running
  <2>2. phase = "serving" /\ ~StartWithoutMainnet =>
          Mercury \in Running' \/ \E u \in Task : BringsMercury(u)'
    BY <2>1 DEF MercuryInv, MercuryKept, BringsMercury
  <2>. QED
    BY <2>1, <2>2, WorkingStep DEF Critical
<1>. QED
  BY <1>1, <1>2

LEMMA UnlockMercury ==
    ASSUME IndInv, MercuryInv, NEW t \in Task, Unlock(t)
    PROVE  MercuryInv'
<1>. USE DEF IndInv, TypeOK
<1>0. /\ task[t].pc = "unlocking" /\ UNCHANGED definitions
      /\ \A u \in Task \ {t} : task'[u] = task[u]
      /\ task'[t].pc = "idle" /\ task'[t].req.op = "none"
      /\ phase' = IF t = Main THEN NextPhase ELSE phase
  BY DEF Unlock, IdleTask, NoRequest
<1>1. Running' = Running
  BY <1>0 DEF Running
<1>2. \A u \in Task : ~BringsMercury(u)
  BY <1>0, HolderBrings DEF BringsMercury, Critical
<1>3. HandlersDoNotEnd'
  BY <1>0 DEF MercuryInv, HandlersDoNotEnd
<1>4. CASE t = Main
  <2>1. phase \in {"loading", "starting", "stopping"}
    BY <1>0, <1>4 DEF StructInv, MainInv, Phase
  <2>2. /\ phase = "loading" => phase' = "mainnet"
        /\ phase = "starting" => phase' = "serving"
        /\ phase = "stopping" => phase' = "stopping"
    BY <1>0, <1>4 DEF NextPhase
  <2>3. NotYetServing'
    BY <1>0, <1>4, <2>1, <2>2, TaskAssumption DEF MercuryInv, NotYetServing
  <2>4. MercuryStarts'
    BY <2>1, <2>2 DEF MercuryStarts
  <2>5. MercuryKept'
    BY <1>0, <1>1, <1>4, <2>1, <2>2 DEF MercuryInv, MercuryStarts, MercuryKept
  <2>. QED
    BY <1>3, <2>3, <2>4, <2>5 DEF MercuryInv
<1>5. CASE t # Main
  <2>1. UNCHANGED phase /\ task'[Main] = task[Main]
    BY <1>0, <1>5
  <2>2. NotYetServing'
    BY <1>0, <2>1 DEF MercuryInv, NotYetServing
  <2>3. MercuryStarts'
    BY <1>1, <2>1 DEF MercuryInv, MercuryStarts
  <2>4. MercuryKept'
    BY <1>1, <1>2, <2>1 DEF MercuryInv, MercuryKept
  <2>. QED
    BY <1>3, <2>2, <2>3, <2>4 DEF MercuryInv
<1>. QED
  BY <1>4, <1>5

LEMMA SupervisorMercury ==
    ASSUME IndInv, MercuryInv, NEW t \in Task, SupervisorStep(t)
    PROVE  MercuryInv'
<1>. USE DEF IndInv, TypeOK
<1>1. CASE Acquire(t) \/ End(t)
  <2>1. /\ task[t].pc \in {"queued", "locked"} /\ UNCHANGED <<phase, definitions>>
        /\ \A u \in Task \ {t} : task'[u] = task[u]
        /\ task'[t].req = task[t].req
        /\ task'[t].pc \in {"locked", "ending"}
    BY <1>1 DEF Acquire, End, Become
  <2>2. ~BringsMercury(t)
    BY <2>1 DEF BringsMercury
  <2>. QED
    BY <2>1, <2>2, MapKeptStep DEF Critical
<1>2. CASE AddBoundaryNode(t)
  <2>1. /\ task[t].pc = "locked" /\ task[t].req.op = "boundaryNode" /\ UNCHANGED <<phase, definitions>>
        /\ \A u \in Task \ {t} : task'[u] = task[u]
        /\ task'[t].req = task[t].req
        /\ task'[t].pc \in {"unlocking", "persisting"}
    BY <1>2 DEF AddBoundaryNode, Become
  <2>2. ~BringsMercury(t) /\ ~(t = Main /\ phase = "starting")
    BY <2>1, StartingRequest DEF BringsMercury
  <2>. QED
    BY <2>1, <2>2, MapKeptStep DEF Critical
<1>3. CASE PersistOpen(t) \/ PersistWrite(t) \/ PersistFail(t)
  <2>1. /\ task[t].pc \in {"persisting", "writing"} /\ UNCHANGED <<phase, definitions>>
        /\ \A u \in Task \ {t} : task'[u] = task[u]
        /\ task'[t].req = task[t].req
        /\ task'[t].pc \in {"writing", "unlocking"}
    BY <1>3 DEF PersistOpen, PersistWrite, PersistFail, Become
  <2>2. ~BringsMercury(t)
    BY <2>1 DEF BringsMercury
  <2>. QED
    BY <2>1, <2>2, MapKeptStep DEF Critical
<1>4. CASE \E d \in ThreadId : SendStop(t, d) \/ JoinThread(t, d)
  <2>1. /\ task[t].pc \in {"ending", "sending"} /\ UNCHANGED <<phase, definitions>>
        /\ \A u \in Task \ {t} : task'[u] = task[u]
        /\ task'[t].req = task[t].req
        /\ task'[t].pc \in {"ending", "sending"}
    BY <1>4 DEF SendStop, JoinThread, Become
  <2>2. BringsMercury(t) => BringsMercury(t)'
    BY <2>1 DEF BringsMercury
  <2>. QED
    BY <2>1, <2>2, MapKeptStep DEF Critical
<1>. QED
  BY <1>1, <1>2, <1>3, <1>4, StartMercury, StopMercury, AllEndedMercury, AddingMercury,
     UnlockMercury DEF SupervisorStep

\* A handler gets or drops its request outside the mutex.
LEMMA HandlerMercury ==
    ASSUME IndInv, MercuryInv, NEW h \in Handler, HandlerStep(h)
    PROVE  MercuryInv'
<1>. USE DEF IndInv, TypeOK
<1>1. \A req \in DefinitionRequests \cup LockingRequests : req.op # "end"
  <2>1. \A n \in Name : Names("delete", {n}, FALSE).op = "delete"
    BY DEF Names
  <2>2. \A n \in Name, b \in BoundaryNode : BoundaryNodeRequest(n, b).op = "boundaryNode"
    BY DEF BoundaryNodeRequest, Names
  <2>3. \A req \in DefinitionRequests : req.op # "end"
    BY DEF DefinitionRequests, Names
  <2>4. \A req \in LockingRequests : req.op # "end"
    BY <2>1, <2>2 DEF LockingRequests
  <2>. QED
    BY <2>3, <2>4
<1>2. /\ UNCHANGED <<phase, definitions>>
      /\ \A u \in Task \ {h} : task'[u] = task[u]
      /\ task[h].pc \in {"idle", "converting"}
      /\ phase = "serving" \/ task[h].pc # "idle"
  BY DEF HandlerStep, AcceptDefinitions, AcceptLocking, Accepting, Convert, ConversionFails, Enqueue
<1>3. task'[h].req.op # "end"
  <2>1. CASE AcceptDefinitions(h)
    BY <1>1, <2>1 DEF AcceptDefinitions
  <2>2. CASE AcceptLocking(h)
    BY <1>1, <2>2 DEF AcceptLocking, Enqueue
  <2>3. CASE Convert(h)
    BY <2>3 DEF Convert, Enqueue, MercuryInv, HandlersDoNotEnd
  <2>4. CASE ConversionFails(h)
    BY <2>4 DEF ConversionFails, IdleTask, NoRequest
  <2>. QED
    BY <2>1, <2>2, <2>3, <2>4 DEF HandlerStep
<1>4. Running' = Running /\ \A u \in Task \ {h} : BringsMercury(u) <=> BringsMercury(u)'
  BY <1>2 DEF Running, BringsMercury
<1>5. ~BringsMercury(h)
  BY <1>2 DEF BringsMercury
<1>6. HandlersDoNotEnd' /\ NotYetServing'
  BY <1>2, <1>3 DEF MercuryInv, HandlersDoNotEnd, NotYetServing
<1>7. MercuryStarts'
  BY <1>2, <1>4, TaskAssumption DEF MercuryInv, MercuryStarts
<1>8. MercuryKept'
  BY <1>2, <1>4, <1>5 DEF MercuryInv, MercuryKept
<1>. QED
  BY <1>6, <1>7, <1>8 DEF MercuryInv

LEMMA MainMercury ==
    ASSUME IndInv, MercuryInv, LoadOrCreate \/ StartMainnet \/ Shutdown \/ ServerStopped
    PROVE  MercuryInv'
<1>. USE DEF IndInv, TypeOK
<1>0. \A h \in Handler : task'[h] = task[h]
  BY TaskAssumption DEF LoadOrCreate, StartMainnet, Shutdown, ServerStopped, Enqueue, File
<1>1. HandlersDoNotEnd' /\ \A h \in Handler : task'[h] = task[h]
  BY <1>0 DEF MercuryInv, HandlersDoNotEnd
<1>2. CASE LoadOrCreate
  <2>1. phase = "load" /\ phase' \in {"load", "mainnet", "loading"}
    BY <1>2 DEF LoadOrCreate, File
  <2>. QED
    BY <1>1, <2>1 DEF MercuryInv, NotYetServing, MercuryStarts, MercuryKept
<1>3. CASE StartMainnet
  <2>1. NotYetServing'
    BY <1>1, <1>3 DEF StartMainnet, MercuryInv, NotYetServing
  <2>2. MercuryStarts'
    <3>1. phase' = "starting" => Enqueue(Main, MercuryRequest)
      BY <1>3 DEF StartMainnet, MercuryRequest
    <3>. QED
      BY <3>1 DEF Enqueue, MercuryStarts
  <2>3. MercuryKept'
    BY <1>3 DEF StartMainnet, MercuryKept
  <2>. QED
    BY <1>1, <2>1, <2>2, <2>3 DEF MercuryInv
<1>4. CASE Shutdown \/ ServerStopped
  BY <1>1, <1>4 DEF Shutdown, ServerStopped, MercuryInv, NotYetServing, MercuryStarts, MercuryKept
<1>. QED
  BY <1>2, <1>3, <1>4

\* At every moment a request can observe, mainnet is in the map: no sequence of
\* deletions, replacements, failures, crashes and reloads takes it out.
THEOREM MainnetIsServed == Spec => []MercuryServed
<1>0. \A h \in Handler : IdleTasks[h].pc = "idle" /\ IdleTasks[h].req.op = "none"
  BY DEF IdleTasks, IdleTask, NoRequest
<1>1. Init => MercuryInv
  BY <1>0 DEF Init, MercuryInv, HandlersDoNotEnd, NotYetServing, MercuryStarts, MercuryKept
<1>2. ASSUME IndInv, MercuryInv, [Next]_vars
      PROVE  MercuryInv'
  <2>. USE <1>2
  <2>1. CASE UNCHANGED <<definitions, task, phase>>
    BY <2>1 DEF MercuryInv, HandlersDoNotEnd, NotYetServing, MercuryStarts, MercuryKept,
       BringsMercury, Running
  <2>2. CASE NewProcess
    BY <1>0, <2>2 DEF NewProcess, MercuryInv, HandlersDoNotEnd, NotYetServing, MercuryStarts,
       MercuryKept
  <2>3. (\E d \in ThreadId : ThreadStep(d)) \/ UNCHANGED vars => UNCHANGED <<definitions, task, phase>>
    BY DEF ThreadStep, supervisorVars, vars
  <2>4. Restart \/ Crash => NewProcess
    BY DEF Restart, Crash
  <2>. QED
    BY <2>1, <2>2, <2>3, <2>4, SupervisorMercury, HandlerMercury, MainMercury DEF Next, MainStep
<1>3. IndInv /\ MercuryInv => MercuryServed
  <2>. SUFFICES ASSUME IndInv, MercuryInv, phase = "serving", lock = NoTask, ~StartWithoutMainnet
                PROVE  Mercury \in Running
    BY DEF MercuryServed
  <2>1. \A t \in Task : task[t].pc \notin Critical
    BY TaskAssumption DEF IndInv, StructInv, LockInv
  <2>. QED
    BY <2>1 DEF MercuryInv, MercuryKept, BringsMercury, Critical
<1>. QED
  BY <1>1, <1>2, <1>3, Invariant, PTL DEF Spec

-----------------------------------------------------------------------------
(* The state file holds the map, except while a task is about to save it.   *)

Saving == {"adding", "persisting", "writing"}

MapIsSaved == \A n \in Running : n \in file.names /\ boundaryNodes[n] = file.bns[n]

SavedInv == file.state = "ok" /\ (\A t \in Task : task[t].pc \notin Saving) => MapIsSaved

\* A step that takes entries out of the map, or none, and that finishes no saving.
LEMMA QuietStep ==
    ASSUME SavedInv, UNCHANGED file,
           \A n \in Running' : n \in Running /\ boundaryNodes'[n] = boundaryNodes[n],
           \A t \in Task : task[t].pc \in Saving => task'[t].pc \in Saving
    PROVE  SavedInv'
BY DEF SavedInv, MapIsSaved

\* A step after which a task is about to save the map.
LEMMA SavingStep ==
    ASSUME NEW t \in Task, task'[t].pc \in Saving
    PROVE  SavedInv'
BY DEF SavedInv

LEMMA SupervisorSaves ==
    ASSUME TypeOK, SavedInv, ~DiskMayFail, NEW t \in Task, SupervisorStep(t)
    PROVE  SavedInv'
<1>. USE DEF TypeOK
<1>1. CASE Acquire(t) \/ End(t) \/ Unlock(t) \/ \E d \in ThreadId : SendStop(t, d) \/ JoinThread(t, d)
  <2>1. UNCHANGED <<definitions, boundaryNodes, file>>
    BY <1>1 DEF Acquire, End, Unlock, SendStop, JoinThread
  <2>2. \A u \in Task : task[u].pc \in Saving => task'[u].pc \in Saving
    BY <1>1 DEF Acquire, End, Unlock, SendStop, JoinThread, Become, Saving
  <2>. QED
    BY <2>1, <2>2, QuietStep DEF Running
<1>2. CASE Start(t) \/ Stop(t)
  <2>1. \A n \in Running' : n \in Running /\ boundaryNodes'[n] = boundaryNodes[n]
    BY <1>2 DEF Start, Stop, Remove, Running
  <2>2. UNCHANGED file /\ \A u \in Task : task[u].pc \in Saving => task'[u].pc \in Saving
    BY <1>2 DEF Start, Stop, Become, Saving
  <2>. QED
    BY <2>1, <2>2, QuietStep
<1>3. CASE AllEnded(t)
  <2>1. \A n \in Running' : n \in Running /\ boundaryNodes'[n] = boundaryNodes[n]
    BY <1>3 DEF AllEnded, Remove, Running
  <2>2. UNCHANGED file /\ \A u \in Task : task[u].pc \in Saving => task'[u].pc \in Saving
    BY <1>3 DEF AllEnded, Become, Saving
  <2>. QED
    BY <2>1, <2>2, QuietStep
<1>4. CASE AllAdded(t) \/ PersistOpen(t) \/ \E n \in Name, d \in ThreadId : RunDefinition(t, n, d)
  <2>1. task'[t].pc \in Saving
    BY <1>4 DEF AllAdded, PersistOpen, RunDefinition, Become, Saving
  <2>. QED
    BY <2>1, SavingStep
<1>5. CASE AddBoundaryNode(t)
  <2>1. task'[t].pc \in Saving \/ UNCHANGED <<definitions, boundaryNodes, file>>
    BY <1>5 DEF AddBoundaryNode, Become, Saving
  <2>2. \A u \in Task : task[u].pc \in Saving => task'[u].pc \in Saving
    BY <1>5 DEF AddBoundaryNode, Become, Saving
  <2>. QED
    BY <2>1, <2>2, SavingStep, QuietStep DEF Running
<1>6. CASE PersistWrite(t)
  <2>1. file' = Overwritten(file, Running, boundaryNodes) /\ UNCHANGED <<definitions, boundaryNodes>>
    BY <1>6 DEF PersistWrite
  <2>2. file'.state = "ok" => file'.names = Running /\ file'.bns = boundaryNodes
    BY <2>1 DEF Overwritten
  <2>. QED
    BY <2>1, <2>2 DEF SavedInv, MapIsSaved, Running
<1>. QED
  BY <1>1, <1>2, <1>3, <1>4, <1>5, <1>6 DEF SupervisorStep, PersistFail

\* As long as writing works, every definition that runs is in the state file
\* with its boundary nodes whenever the mutex is free and the file parses.
THEOREM SavedWhileDiskWorks == ~DiskMayFail => (Spec => []RunningAreSaved)
<1>. SUFFICES ASSUME ~DiskMayFail
              PROVE  Spec => []RunningAreSaved
  OBVIOUS
<1>1. Init => SavedInv
  BY DEF Init, AbsentFile, SavedInv
<1>2. ASSUME IndInv, SavedInv, [Next]_vars
      PROVE  SavedInv'
  <2>. USE <1>2 DEF IndInv, TypeOK
  <2>1. CASE UNCHANGED <<definitions, boundaryNodes, task, file>>
    BY <2>1, QuietStep DEF Running
  <2>2. CASE NewProcess
    <3>1. Running' = {}
      BY <2>2 DEF NewProcess, NoDefinitions, Running
    <3>. QED
      BY <3>1 DEF SavedInv, MapIsSaved
  <2>3. ASSUME NEW h \in Handler, HandlerStep(h)
        PROVE  SavedInv'
    <3>1. UNCHANGED <<definitions, boundaryNodes, file>>
      BY <2>3 DEF HandlerStep, AcceptDefinitions, AcceptLocking, Convert, ConversionFails
    <3>2. task[h].pc \in {"idle", "converting"} /\ \A u \in Task \ {h} : task'[u] = task[u]
      BY <2>3 DEF HandlerStep, AcceptDefinitions, AcceptLocking, Accepting, Convert,
         ConversionFails, Enqueue
    <3>. QED
      BY <3>1, <3>2, QuietStep DEF Running, Saving
  <2>4. CASE LoadOrCreate \/ StartMainnet \/ Shutdown \/ ServerStopped
    <3>1. UNCHANGED <<definitions, boundaryNodes>> /\ (file' = file \/ file' = AbsentFile)
      BY <2>4 DEF LoadOrCreate, StartMainnet, Shutdown, ServerStopped, File
    <3>2. task[Main].pc = "idle" /\ \A u \in Task \ {Main} : task'[u] = task[u]
      BY <2>4 DEF LoadOrCreate, StartMainnet, Shutdown, ServerStopped, Enqueue, StructInv, MainInv,
         File
    <3>3. CASE file' = file
      BY <3>1, <3>2, <3>3, QuietStep DEF Running, Saving
    <3>4. CASE file' = AbsentFile
      BY <3>4 DEF AbsentFile, SavedInv
    <3>. QED
      BY <3>1, <3>3, <3>4
  <2>5. (\E d \in ThreadId : ThreadStep(d)) \/ UNCHANGED vars
          => UNCHANGED <<definitions, boundaryNodes, task, file>>
    BY DEF ThreadStep, supervisorVars, vars
  <2>6. Restart \/ Crash => NewProcess
    BY DEF Restart, Crash
  <2>. QED
    BY <2>1, <2>2, <2>3, <2>4, <2>5, <2>6, SupervisorSaves DEF Next, MainStep
<1>3. IndInv /\ SavedInv => RunningAreSaved
  <2>. SUFFICES ASSUME IndInv, SavedInv, lock = NoTask, file.state = "ok"
                PROVE  MapIsSaved
    BY DEF RunningAreSaved, MapIsSaved
  <2>1. \A t \in Task : task[t].pc \notin Critical
    BY TaskAssumption DEF IndInv, StructInv, LockInv
  <2>. QED
    BY <2>1 DEF SavedInv, Saving, Critical
<1>. QED
  BY <1>1, <1>2, <1>3, Invariant, PTL DEF Spec

=============================================================================
