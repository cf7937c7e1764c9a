--------------------------------- MODULE Downloader ---------------------------------
(***************************************************************************)
(* The programs that poll a service for targets and write one file per     *)
(* job: multiservice-discovery-downloader/src/downloader_loop.rs, and      *)
(* sns-downloader/src/downloader_loop.rs, which first pages through a list *)
(* of names.  Both remember the hash of the last answer only.              *)
(*                                                                         *)
(* Abstractions.  An answer is a set of targets, none filtered out, the     *)
(* hash is the answer itself, and the configuration of a job is what the   *)
(* answer holds for it.                                                    *)
(***************************************************************************)
EXTENDS Naturals, FiniteSets

CONSTANTS
    Job,          \* the jobs, one file each
    Answer,       \* sets of targets that the service may know
    NoTargets,    \* the empty one
    TargetsOf,    \* [Answer -> [Job -> the configuration]]
    Pages,        \* full pages of names before the last one; 0: there are no names
    SkipEmpty,    \* whether an empty answer is passed over
    MaxChanges,   \* bound on changes of what the service knows
    MaxFailures,  \* bound on failed writes and requests
    MaxRestarts,  \* bound on restarts of the process
    Torn,         \* a file that was opened and not filled
    None

VARIABLES
    known,      \* what the service knows
    serving,    \* whether the service of the names answers
    loop,       \* the downloader loop
    hash,       \* the hash of the last answer that was new, None at first (0)
    file,       \* [Job -> the configuration in the file, Torn, or None]
    unwritten,  \* jobs whose last write failed
    main,       \* progress of main()
    bound       \* changes, failures and restarts so far

vars == <<known, serving, loop, hash, file, unwritten, main, bound>>

LoopPC == {"waiting", "paging", "asking", "writing", "exited"}

\* The type invariant.
TypeOK == /\ known \in Answer /\ serving \in BOOLEAN
          /\ loop.pc \in LoopPC /\ loop.page \in 0..Pages /\ loop.todo \subseteq Job
          /\ loop.opened \in Job \cup {None} /\ loop.answer \in Answer \cup {None}
          /\ hash \in Answer \cup {None}
          /\ unwritten \subseteq Job
          /\ main \in {"running", "stopping", "exited"}

Waiting == [pc |-> "waiting", page |-> 0, todo |-> {}, opened |-> None, answer |-> None]

Init == /\ known \in Answer /\ serving = TRUE
        /\ loop = Waiting
        /\ hash = None
        /\ file = [j \in Job |-> None]
        /\ unwritten = {}
        /\ main = "running"
        /\ bound = [changes |-> 0, failures |-> 0, restarts |-> 0]

-----------------------------------------------------------------------------
KnownChanges ==
    /\ bound.changes < MaxChanges
    /\ bound' = [bound EXCEPT !.changes = @ + 1]
    /\ known' \in Answer \ {known}
    /\ UNCHANGED <<serving, loop, hash, file, unwritten, main>>

\* The service of the names is down: unreachable, or its replies are errors or
\* not what the loop expects.  Nobody promises that it comes back.
NamesFail ==
    /\ Pages > 0
    /\ serving /\ bound.failures < MaxFailures
    /\ serving' = FALSE
    /\ bound' = [bound EXCEPT !.failures = @ + 1]
    /\ UNCHANGED <<known, loop, hash, file, unwritten, main>>

NamesRecover ==
    /\ ~serving
    /\ serving' = TRUE
    /\ UNCHANGED <<known, loop, hash, file, unwritten, main, bound>>

OnlyLoop == UNCHANGED <<known, serving, hash, file, unwritten, main, bound>>

Tick ==
    /\ loop.pc = "waiting"
    /\ loop' = [loop EXCEPT !.pc = IF Pages = 0 THEN "asking" ELSE "paging"]
    /\ OnlyLoop

\* A page of names.  A short page is the last; a failed query is repeated at
\* once and for ever, without a look at the stop signal.
NextPage ==
    /\ loop.pc = "paging"
    /\ loop' = IF ~serving THEN loop
               ELSE IF loop.page = Pages THEN [loop EXCEPT !.pc = "asking"]
               ELSE [loop EXCEPT !.page = @ + 1]
    /\ OnlyLoop

AskFails ==
    /\ loop.pc = "asking" /\ bound.failures < MaxFailures
    /\ bound' = [bound EXCEPT !.failures = @ + 1]
    /\ loop' = Waiting
    /\ UNCHANGED <<known, serving, hash, file, unwritten, main>>

\* The answer.  It is remembered before any file is written.
IsNew(answer) == answer # hash /\ ~(SkipEmpty /\ answer = NoTargets)

Ask ==
    /\ loop.pc = "asking"
    /\ IF IsNew(known)
       THEN /\ hash' = known
            /\ loop' = [loop EXCEPT !.pc = "writing", !.todo = Job, !.answer = known]
       ELSE loop' = Waiting /\ UNCHANGED hash
    /\ UNCHANGED <<known, serving, file, unwritten, main, bound>>

\* generate_config: std::fs::write truncates the file and then fills it.
OpenFile(j) ==
    /\ loop.pc = "writing" /\ loop.opened = None
    /\ j \in loop.todo
    /\ loop' = [loop EXCEPT !.opened = j]
    /\ file' = [file EXCEPT ![j] = Torn]
    /\ UNCHANGED <<known, serving, hash, unwritten, main, bound>>

FillFile ==
    /\ loop.opened # None
    /\ file' = [file EXCEPT ![loop.opened] = TargetsOf[loop.answer][loop.opened]]
    /\ unwritten' = unwritten \ {loop.opened}
    /\ loop' = [loop EXCEPT !.opened = None, !.todo = @ \ {loop.opened}]
    /\ UNCHANGED <<known, serving, hash, main, bound>>

\* Logged at debug level, and the loop goes on with the next job.
WriteFails(j) ==
    /\ loop.pc = "writing"
    /\ IF loop.opened = None THEN j \in loop.todo ELSE j = loop.opened
    /\ bound.failures < MaxFailures
    /\ bound' = [bound EXCEPT !.failures = @ + 1]
    /\ unwritten' = unwritten \cup {j}
    /\ loop' = [loop EXCEPT !.opened = None, !.todo = @ \ {j}]
    /\ UNCHANGED <<known, serving, hash, file, main>>

AllWritten ==
    /\ loop.pc = "writing" /\ loop.todo = {}
    /\ loop' = Waiting
    /\ OnlyLoop

\* main() sends its one stop message, which the loop takes only while it waits.
Shutdown == main = "running" /\ main' = "stopping" /\ UNCHANGED <<known, serving, loop, hash, file, unwritten, bound>>

Stop ==
    /\ main = "stopping" /\ loop.pc = "waiting"
    /\ loop' = [loop EXCEPT !.pc = "exited"]
    /\ main' = "exited"
    /\ UNCHANGED <<known, serving, hash, file, unwritten, bound>>

HashKept == hash

HashAtStart == None

\* A new process after an exit or a crash knows no hash.
Restart ==
    /\ bound.restarts < MaxRestarts
    /\ bound' = [bound EXCEPT !.restarts = @ + 1]
    /\ loop' = Waiting /\ hash' = HashAtStart /\ main' = "running"
    /\ UNCHANGED <<known, serving, file, unwritten>>

LoopStep == \/ Tick \/ NextPage \/ AskFails \/ Ask \/ FillFile \/ AllWritten
            \/ \E j \in Job : OpenFile(j) \/ WriteFails(j)

Next == KnownChanges \/ NamesFail \/ NamesRecover \/ LoopStep \/ Shutdown \/ Stop \/ Restart

Spec == Init /\ [][Next]_vars

\* The loop runs, and a stop message that is offered whenever the loop waits
\* is taken.  Nothing is assumed of the services.
Fairness == WF_vars(LoopStep) /\ SF_vars(Stop)

FairSpec == Spec /\ Fairness

-----------------------------------------------------------------------------
(* Properties. *)

\* As long as the loop waits, the hash stands for the files: the answer it
\* stands for is in every file whose last write did not fail, after restarts
\* that cut a write off as well (downloader_loop.rs:87-91).
HashStandsForFiles ==
    loop.pc = "waiting" /\ hash # None =>
      \A j \in Job \ unwritten : file[j] = TargetsOf[hash][j]

\* A file that says nothing torn and nothing old in the end: when the service
\* rests on a proper answer every file shows it, or the last write failed, the
\* process was stopped, or the names cannot be had.
UpToDate ==
    \A j \in Job : \/ main # "running" \/ j \in unwritten \/ (known = NoTargets /\ SkipEmpty)
                   \/ ~serving \/ file[j] = TargetsOf[known][j]

FilesCatchUp == <>[]UpToDate

\* The stop message is taken: no answer and no disk keeps the loop from its
\* select for ever.  The code breaks this while the service of the names is down
\* (sns-downloader/src/downloader_loop.rs:41-73): only that case is exempt.
ShutdownCompletes == []<>serving => (main = "stopping" ~> main # "stopping")
=============================================================================
