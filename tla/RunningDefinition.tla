-------------------------- MODULE RunningDefinition --------------------------
(***************************************************************************)
(* One watched network of the multiservice discovery: the operating-system *)
(* thread that RunningDefinition::run executes, the zero-capacity stop     *)
(* channel through which RunningDefinition::end reaches it, the slot that  *)
(* holds its Ender, and the metrics that are keyed by the network's name   *)
(* (multiservice-discovery/src/definition.rs and metrics.rs, and the stop  *)
(* points of service-discovery/src/registry_sync.rs).                      *)
(*                                                                         *)
(* The channel has no buffer: send() blocks until the thread receives, and *)
(* a try_recv() of the thread succeeds only while a sender is blocked.     *)
(* `stop' is TRUE exactly while a sender is blocked in send().             *)
(***************************************************************************)
EXTENDS Naturals, FiniteSets

CONSTANTS Name,      \* names of networks ("definitions")
          NoName,    \* the name of a slot that runs nothing
          ThreadId   \* slots for operating-system threads

ASSUME NoNameAssumption == NoName \notin Name

VARIABLES thread,    \* what each thread slot runs
          metrics    \* the networks that have an entry in latest_values

runningVars == <<thread, metrics>>

(***************************************************************************)
(* Where a thread is.  "start": first try_recv of sync_local_registry.     *)
(* "pubkey": awaiting the NNS public key.  "check": the try_recv of the    *)
(* sync loop.  "fetch": awaiting the registry in that loop.  "retry": the  *)
(* select after a failed sync.  "load", "update", "wait": the three parts  *)
(* of poll_loop.  "ending": told to stop, observe_end still to come.       *)
(* "exited": the thread is over and not joined yet.  "none": a free slot.  *)
(***************************************************************************)
AwaitsNetwork == {"pubkey", "fetch", "update"}
Selecting     == {"retry", "wait"}
ThreadPC      == {"none", "start", "check", "load", "ending", "exited"}
                    \cup AwaitsNetwork \cup Selecting

Thread  == [pc : ThreadPC, name : Name \cup {NoName}, ender : BOOLEAN, stop : BOOLEAN]
NoThreadRunning == [pc |-> "none", name |-> NoName, ender |-> FALSE, stop |-> FALSE]

RunningTypeOK == /\ thread \in [ThreadId -> Thread]
                 /\ metrics \in SUBSET Name

NothingRuns == [d \in ThreadId |-> NoThreadRunning]

RunningInit == /\ thread = NothingRuns
               /\ metrics = {}

\* Threads that may still touch their registry folder and their metrics.
Alive == {d \in ThreadId : thread[d].pc \notin {"none", "exited"}}

-----------------------------------------------------------------------------
(* The steps of the thread. *)

Goto(d, pc) == thread' = [thread EXCEPT ![d].pc = pc]

\* The thread takes the stop message; the blocked sender goes on.
Receive(d) == /\ thread[d].stop
              /\ thread' = [thread EXCEPT ![d].pc = "ending", ![d].stop = FALSE]
              /\ UNCHANGED metrics

\* observe_sync and observe_load create the entry of the network.
Observe(d) == metrics' = metrics \cup {thread[d].name}

\* A thread that never looks at the stop channel during a sync.
GoOnUnasked(d) ==
    /\ \/ thread[d].pc = "start" /\ \E pc \in {"pubkey", "check"} : Goto(d, pc)
       \/ thread[d].pc = "check" /\ Goto(d, "fetch")
    /\ UNCHANGED metrics

\* A try_recv that finds no sender: the sync goes on with its next request.
GoOn(d) ==
    /\ ~thread[d].stop
    /\ \/ thread[d].pc = "start" /\ \E pc \in {"pubkey", "check"} : Goto(d, pc)
       \/ thread[d].pc = "check" /\ Goto(d, "fetch")
    /\ UNCHANGED metrics

\* A try_recv that finds a blocked sender: SyncError::Interrupted.
Interrupted(d) == thread[d].pc \in {"start", "check"} /\ Receive(d)

\* get_nns_public_key answers, or fails with SyncError::PublicKey.
PublicKey(d) ==
    /\ thread[d].pc = "pubkey"
    /\ \/ Goto(d, "check") /\ UNCHANGED metrics
       \/ Goto(d, "retry") /\ Observe(d)

\* One iteration of the sync loop: newer changes were fetched or the request
\* failed, and the loop starts over; or the local registry is up to date.
FetchChanges(d) ==
    /\ thread[d].pc = "fetch"
    /\ \/ Goto(d, "check") /\ UNCHANGED metrics
       \/ Goto(d, "load") /\ Observe(d)

\* load_new_ics, then update_registries, each with its observation.
LoadTargets(d)      == thread[d].pc = "load" /\ Goto(d, "update") /\ Observe(d)
UpdateRegistries(d) == thread[d].pc = "update" /\ Goto(d, "wait") /\ Observe(d)

\* The two arms of the select in run() and of the one in poll_loop().
Tick(d) ==
    /\ \/ thread[d].pc = "retry" /\ Goto(d, "start")
       \/ thread[d].pc = "wait" /\ Goto(d, "load")
    /\ UNCHANGED metrics
StopWhileWaiting(d) == thread[d].pc \in Selecting /\ Receive(d)

\* A thread that returns without observe_end.
ObserveEndForgotten(d) ==
    /\ thread[d].pc = "ending"
    /\ Goto(d, "exited")
    /\ UNCHANGED metrics

\* observe_end, and the thread returns.
ObserveEnd(d) ==
    /\ thread[d].pc = "ending"
    /\ Goto(d, "exited")
    /\ metrics' = metrics \ {thread[d].name}

NetworkStep(d) == PublicKey(d) \/ FetchChanges(d) \/ UpdateRegistries(d)
LocalStep(d)   == \/ GoOn(d) \/ Interrupted(d) \/ LoadTargets(d)
                  \/ Tick(d) \/ StopWhileWaiting(d) \/ ObserveEnd(d)

-----------------------------------------------------------------------------
(* What the supervisor does to a thread. *)

\* Definition::run: spawn the thread, then fill the Ender slot.
Run(d, n) ==
    /\ thread[d].pc = "none"
    /\ thread' = [thread EXCEPT ![d] = [pc |-> "start", name |-> n, ender |-> TRUE, stop |-> FALSE]]

\* RunningDefinition::end, first half: take the Ender and block in send().
TakeEnder(d) ==
    /\ thread[d].ender
    /\ thread' = [thread EXCEPT ![d].ender = FALSE, ![d].stop = TRUE]

\* RunningDefinition::end, second half: send() has returned and join() returns.
Join(d) ==
    /\ ~thread[d].stop
    /\ thread[d].pc = "exited"
    /\ thread' = [thread EXCEPT ![d] = NoThreadRunning]
=============================================================================
