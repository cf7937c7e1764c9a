------------------------------- MODULE RegistrySync -------------------------------
(***************************************************************************)
(* sync_local_registry: one local store of registry versions and the loop  *)
(* that brings it up to date with the NNS, over crashes of the process     *)
(* (service-discovery/src/registry_sync.rs).                               *)
(*                                                                         *)
(* Abstractions.  A registry version is the set of keys it changes, which  *)
(* are numbered; the NNS certifies its answers, so a replica may be late   *)
(* but never lies.                                                         *)
(***************************************************************************)
EXTENDS Naturals, FiniteSets, SequencesExt

CONSTANTS
    MaxVersion,         \* bound on registry versions
    KeysIn,             \* [version -> how many keys it changes]
    MaxFailures,        \* bound on failed writes and on answers that do not help
    MaxStops,           \* bound on crashes and stop messages
    UseCurrentVersion,  \* --skip-sync
    HaveKey             \* whether the public key is given on the command line

Version == 1..MaxVersion

VARIABLES
    registry,  \* the newest version in the NNS
    store,     \* [versions that have a file -> the records in it]
    torn,      \* versions whose write was cut off by the end of a process
    sync,      \* the call of sync_local_registry
    failures,  \* failed writes and answers so far
    stops      \* crashes and stop messages so far

vars == <<registry, store, torn, sync, failures, stops>>

-----------------------------------------------------------------------------
(* What the NNS answers: the records after a version, sorted.  Every version *)
(* has at least one record; a record is <<version, key>>.                    *)

NoEmptyVersion == MaxVersion \in Nat /\ KeysIn \in [Version -> Nat \ {0}]

RecordsOf(v) == [key \in 1..KeysIn[v] |-> <<v, key>>]

Records(since, upto) ==
    LET records[n \in 0..(upto - since)] == IF n = 0 THEN <<>> ELSE records[n - 1] \o RecordsOf(since + n)
    IN  records[upto - since]

(* The fold that groups the records into a changelog, and the version to     *)
(* which entry i is written.                                                 *)

\* An entry is opened one record too early.
GroupedApart(cl, record, since) ==
    LET grown == IF Len(cl) <= record[1] - since THEN Append(cl, {}) ELSE cl
    IN  [grown EXCEPT ![Len(grown)] = @ \cup {record}]

\* An answer is one entry.
GroupedTogether(cl, record, since) == IF cl = <<>> THEN <<{record}>> ELSE <<cl[1] \cup {record}>>

Grouped(cl, record, since) ==
    LET grown == IF Len(cl) < record[1] - since THEN Append(cl, {}) ELSE cl
    IN  [grown EXCEPT ![Len(grown)] = @ \cup {record}]

Changelog(since, upto) ==
    LET records == Records(since, upto)
        grouped[k \in 0..Len(records)] == IF k = 0 THEN <<>> ELSE Grouped(grouped[k - 1], records[k], since)
    IN  grouped[Len(records)]

(* The store as LocalStoreImpl reads it: the files up to the first gap.      *)
Stored(v) == \A w \in 1..v : w \in DOMAIN store

LatestStored == CHOOSE v \in 0..MaxVersion : Stored(v) /\ ~Stored(v + 1)

-----------------------------------------------------------------------------
(* State. *)

Empty == [v \in {} |-> {}]
File(v, content) == [w \in {v} |-> content]
Overridden(f, g) == [v \in DOMAIN f \cup DOMAIN g |-> IF v \in DOMAIN g THEN g[v] ELSE f[v]]

SyncPC == {"idle", "start", "key", "version", "changes", "writing"}
Result == {"none", "ok", "interrupted", "publicKey"}
Content == SUBSET (Version \X Nat)

\* The type invariant.
TypeOK == /\ registry \in 0..MaxVersion
          /\ DOMAIN store \subseteq 1..registry /\ \A v \in DOMAIN store : store[v] \in Content
          /\ torn \subseteq DOMAIN store
          /\ sync.pc \in SyncPC /\ sync.latest \in 0..registry /\ sync.result \in Result
          /\ DOMAIN sync.updates \subseteq 1..sync.latest
          /\ \A v \in DOMAIN sync.updates : sync.updates[v] \in Content
          /\ sync.opened \subseteq DOMAIN sync.updates /\ sync.lost \subseteq Version
          /\ failures \in 0..MaxFailures
          /\ stops \in 0..MaxStops

Idle(result) ==
    [pc |-> "idle", latest |-> 0, updates |-> Empty, opened |-> {}, lost |-> {}, result |-> result]

Init == /\ registry \in 0..MaxVersion
        /\ store = Empty
        /\ torn = {}
        /\ sync = Idle("none")
        /\ failures = 0
        /\ stops = 0

-----------------------------------------------------------------------------
(* Actions. *)

RegistryChanges ==
    /\ registry < MaxVersion
    /\ registry' = registry + 1
    /\ UNCHANGED <<store, torn, sync, failures, stops>>

\* The call ends; a write that was under way leaves an empty file.
Return(result) ==
    /\ sync' = Idle(result)
    /\ torn' = torn \cup sync.opened

OnlySync == UNCHANGED <<registry, store, failures, stops>>

\* A replica that is behind, or does not answer.
NoHelp == failures < MaxFailures /\ failures' = failures + 1 /\ UNCHANGED <<registry, store, stops>>

Go(pc) == sync' = [sync EXCEPT !.pc = pc] /\ UNCHANGED torn

\* Once in a process, or in every round of a definition.
Call == sync.pc = "idle" /\ sync' = [Idle("none") EXCEPT !.pc = "start"] /\ UNCHANGED torn /\ OnlySync

\* The version of the store; with --skip-sync an existing store will do.
Start ==
    /\ sync.pc = "start"
    /\ IF UseCurrentVersion /\ LatestStored # 0
       THEN Return("ok")
       ELSE /\ sync' = [sync EXCEPT !.pc = IF HaveKey THEN "version" ELSE "key", !.latest = LatestStored]
            /\ UNCHANGED torn
    /\ OnlySync

KeyFetched == sync.pc = "key" /\ Go("version") /\ OnlySync
KeyFails   == sync.pc = "key" /\ Return("publicKey") /\ NoHelp

\* A stop message is looked for before the first query and before every round.
\* The writes collected so far are dropped.
Interrupt ==
    /\ sync.pc \in {"start", "version"}
    /\ stops < MaxStops
    /\ stops' = stops + 1
    /\ Return("interrupted")
    /\ UNCHANGED <<registry, store, failures>>

\* Some replica says which version is the latest; it may be behind.  Only the
\* version that was reached ends the loop: a smaller one or an error does not.
CaughtUp ==
    /\ sync.pc = "version" /\ Go("writing")
    /\ IF sync.latest = registry THEN OnlySync ELSE NoHelp
NotCaughtUp ==
    /\ sync.pc = "version" /\ Go("changes")
    /\ IF sync.latest < registry THEN OnlySync ELSE NoHelp

\* get_certified_changes_since reaches some version; an error changes nothing.
\* The writes are only collected.
NewUpdates(upto) ==
    LET changelog == Changelog(sync.latest, upto)
    IN  [v \in (sync.latest + 1)..(sync.latest + Len(changelog)) |-> changelog[v - sync.latest]]

\* Only the writes of the last answer are kept.
CollectedLast(upto) == NewUpdates(upto)

Collected(upto) == Overridden(sync.updates, NewUpdates(upto))

Changes(upto) ==
    /\ sync.pc = "changes"
    /\ upto \in sync.latest..registry
    /\ sync' = [sync EXCEPT !.pc = "version", !.latest = sync.latest + Len(Changelog(sync.latest, upto)),
                            !.updates = Collected(upto)]
    /\ UNCHANGED torn
    /\ IF upto > sync.latest \/ upto = registry THEN OnlySync ELSE NoHelp

\* All writes run together after the loop: create or truncate, then write.
OpenFile(v) ==
    /\ sync.pc = "writing"
    /\ v \in DOMAIN sync.updates \ sync.opened
    /\ store' = Overridden(store, File(v, {}))
    /\ sync' = [sync EXCEPT !.opened = @ \cup {v}]
    /\ UNCHANGED <<registry, torn, failures, stops>>

Done(v) == sync' = [sync EXCEPT !.updates = [w \in DOMAIN @ \ {v} |-> @[w]], !.opened = @ \ {v}]

WriteFile(v) ==
    /\ v \in sync.opened
    /\ store' = Overridden(store, File(v, sync.updates[v]))
    /\ torn' = torn \ {v}
    /\ Done(v)
    /\ UNCHANGED <<registry, failures, stops>>

\* The directory or the file cannot be made.  Nobody looks at the result.
WriteFails(v) ==
    /\ sync.pc = "writing"
    /\ v \in DOMAIN sync.updates \ sync.opened
    /\ failures < MaxFailures
    /\ failures' = failures + 1
    /\ sync' = [sync EXCEPT !.updates = [w \in DOMAIN @ \ {v} |-> @[w]], !.lost = @ \cup {v}]
    /\ UNCHANGED <<registry, store, torn, stops>>

AllWritten == sync.pc = "writing" /\ DOMAIN sync.updates = {} /\ Return("ok") /\ OnlySync

\* The process dies.
Crash ==
    /\ stops < MaxStops
    /\ stops' = stops + 1
    /\ Return("none")
    /\ UNCHANGED <<registry, store, failures>>

Query == KeyFetched \/ KeyFails \/ CaughtUp \/ NotCaughtUp \/ \E upto \in 0..MaxVersion : Changes(upto)

Writing == AllWritten \/ \E v \in Version : OpenFile(v) \/ WriteFile(v) \/ WriteFails(v)

Next == RegistryChanges \/ Call \/ Start \/ Interrupt \/ Query \/ Writing \/ Crash

Spec == Init /\ [][Next]_vars

\* The caller calls again, the call goes on and replicas answer.
Fairness == WF_vars(Call) /\ WF_vars(Start) /\ WF_vars(Query) /\ WF_vars(Writing)

FairSpec == Spec /\ Fairness

-----------------------------------------------------------------------------
(* Properties. *)

\* A file of the store holds exactly the records of its version, however the
\* answers were cut and whatever was interrupted (registry_sync.rs:106-120) --
\* or nothing, when the process ended between open and write.
StoreIsRegistry ==
    \A v \in DOMAIN store \ (torn \cup sync.opened) : store[v] = ToSet(RecordsOf(v))

\* No version is skipped: up to the version that the call has reached, each is in
\* the store or collected, or its write failed.  So Ok (registry_sync.rs:159-167)
\* means that the store has what the NNS confirmed, but for failed writes.
NothingSkipped ==
    1..sync.latest \subseteq DOMAIN store \cup DOMAIN sync.updates \cup sync.lost

\* When the registry rests, the store gets there: a gap that a failed write or
\* a crash left is found by a later call and filled.
UpToDate == LatestStored = registry

StoreCatchesUp == <>[]UpToDate
=============================================================================
