------------------------------ MODULE DashboardCache ------------------------------
(***************************************************************************)
(* The file in which the management backend keeps what the public          *)
(* dashboard answered (ic-management-backend/src/public_dashboard.rs).     *)
(* The server and every run of the command line tool share the file.       *)
(*                                                                         *)
(* Abstractions.  An answer is known by its age, the file by the age of    *)
(* its last modification; ages stop growing at MaxAge.  A file that was    *)
(* created but not written is torn, it does not parse.  The interval is    *)
(* long: a query ends before the clock ticks twice.                        *)
(***************************************************************************)
EXTENDS Naturals

CONSTANTS
    User,        \* processes that use the file
    Mainnet,     \* the network is the mainnet
    Interval,    \* IC_API_REFRESH_INTERVAL_SECONDS
    MaxAge,      \* bound on ages, larger than the interval
    MaxFaults,   \* bound on processes that are stopped half way and on failed queries
    Nothing, Torn

VARIABLES
    cached,    \* what the file holds: Nothing (no file), Torn or the age of an answer
    modified,  \* the age of the file
    user,      \* [User -> where it stands and what it holds]
    faults

vars == <<cached, modified, user, faults>>

Age    == 0..MaxAge
Held   == Age \cup {Nothing, Torn}
Idle   == [pc |-> "idle", data |-> Nothing, late |-> FALSE]

Older(age) == IF age \in Age /\ age < MaxAge THEN age + 1 ELSE age

Tick ==
    /\ \A u \in User : ~user[u].late
    /\ cached' = Older(cached) /\ modified' = Older(modified)
    /\ user' = [u \in User |-> [user[u] EXCEPT !.data = Older(@), !.late = user[u] # Idle]]
    /\ UNCHANGED faults

Step(u, pc, data) == user' = [user EXCEPT ![u].pc = pc, ![u].data = data]
Done(u) == user' = [user EXCEPT ![u] = Idle]

\* Which copies of the file are good enough: on the mainnet those that were
\* modified within the interval.
Usable == cached # Nothing /\ (Mainnet => modified < Interval)

Query(u) ==
    /\ user[u].pc = "idle"
    /\ Step(u, IF Usable THEN "read" ELSE "fetch", Nothing)
    /\ UNCHANGED <<cached, modified, faults>>

ReadFile(u) ==
    /\ user[u].pc = "read"
    /\ Step(u, "parse", cached)
    /\ UNCHANGED <<cached, modified, faults>>

Fetch(u) ==
    /\ user[u].pc = "fetch"
    /\ \/ Step(u, "parse", 0) /\ UNCHANGED faults
       \/ faults < MaxFaults /\ faults' = faults + 1 /\ Done(u) \* the dashboard does not answer
    /\ UNCHANGED <<cached, modified>>

\* The file is created anew before the data is looked at.
CreateFirst(u) ==
    /\ cached' = Torn /\ modified' = 0
    /\ IF user[u].data = Torn THEN Done(u) ELSE Step(u, "write", user[u].data)

\* Only what parses is stored.
CreateFile(u) ==
    IF user[u].data = Torn
    THEN Done(u) /\ UNCHANGED <<cached, modified>>
    ELSE cached' = Torn /\ modified' = 0 /\ Step(u, "write", user[u].data)

Parse(u) == user[u].pc = "parse" /\ CreateFile(u) /\ UNCHANGED faults

WriteFile(u) ==
    /\ user[u].pc = "write"
    /\ cached' = user[u].data /\ modified' = 0
    /\ Done(u)
    /\ UNCHANGED faults

\* A process is stopped between the creation and the write.
Crash(u) ==
    /\ user[u].pc = "write" /\ faults < MaxFaults
    /\ Done(u) /\ faults' = faults + 1
    /\ UNCHANGED <<cached, modified>>

Run(u) == Query(u) \/ ReadFile(u) \/ Fetch(u) \/ Parse(u) \/ WriteFile(u)

Init == cached = Nothing /\ modified = 0 /\ user = [u \in User |-> Idle] /\ faults = 0

Next == Tick \/ \E u \in User : Run(u) \/ Crash(u)

Spec == Init /\ [][Next]_vars

\* Time passes, every process goes on and asks again.
Fairness == WF_vars(Tick) /\ \A u \in User : WF_vars(Run(u))

FairSpec == Spec /\ Fairness

-----------------------------------------------------------------------------
(* Properties. *)

\* The type invariant.
TypeOK == cached \in Held /\ modified \in Age /\ faults \in 0..MaxFaults
          /\ user \in [User -> [pc : {"idle", "read", "fetch", "parse", "write"}, data : Held, late : BOOLEAN]]

\* A process that dies while it writes spoils the file for an interval and not
\* for ever: what does not parse is not stored and its file grows old
\* (public_dashboard.rs:19-45).
FileHeals == []<>(cached \in Age)

\* "Cache public dashboard API response for 1h" (CHANGELOG.md:29): no answer that
\* is parsed is older than the interval and the two ticks that the process that
\* wrote it and the one that reads it may have taken.  Fails: what was
\* read from the file is written back to it, which makes its time new
\* (public_dashboard.rs:40).
ReadAnswersAreFresh ==
    \A u \in User : user[u].pc = "parse" /\ user[u].data \in Age => user[u].data <= Interval + 2
=============================================================================
