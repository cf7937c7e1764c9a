----------------------------- MODULE FolderLease -----------------------------
(***************************************************************************)
(* What the supervisor promises about the registry folders on disk: a      *)
(* folder is used by one thread at a time, and a thread gets a folder only *)
(* after the thread before it has let go of it ("We stop X before we start *)
(* X'", definition.rs).  A dying process lets go of all of them.           *)
(***************************************************************************)
CONSTANTS Folder, ThreadId

VARIABLE users   \* Folder -> the threads that use it

Init == users = [f \in Folder |-> {}]

Unemployed(d) == \A f \in Folder : d \notin users[f]

Grant(f, d) == /\ users[f] = {}
               /\ Unemployed(d)
               /\ users' = [users EXCEPT ![f] = {d}]

Release(f) == users' = [users EXCEPT ![f] = {}]

ProcessDies == users' = [f \in Folder |-> {}]

Next == \/ \E f \in Folder, d \in ThreadId : Grant(f, d)
        \/ \E f \in Folder : Release(f)
        \/ ProcessDies

Spec == Init /\ [][Next]_users
=============================================================================
