------------------------------ MODULE DreTool ------------------------------
(***************************************************************************)
(* Operators with the dre command line tool: a command reads the registry, *)
(* works out one or several proposals and sends each through ic-admin,     *)
(* first as a simulation, then, if the operator confirms, for good         *)
(* (cli/src/main.rs, runner.rs, ic_admin.rs).  Changes of membership look  *)
(* for a pending proposal first; new versions are elected with images that *)
(* are downloaded and compared; firewall rules are edited by hand.         *)
(*                                                                         *)
(* Abstractions.  What a membership command computes is an open choice     *)
(* (SubnetChange has the algorithm).  A run of ic-admin works or fails,    *)
(* for whatever reason: no key, a summary too long, a network error.  A    *)
(* list of firewall rules is a sequence, and the hash of a list the list.  *)
(* Deploy, remove and the other commands that propose without looking are  *)
(* one.  Registry() of the runner is taken to return (README).             *)
(***************************************************************************)
EXTENDS Integers, FiniteSetsExt, SequencesExt

CONSTANTS
    Operator, Subnet,
    Workloads,  \* sets of kinds of commands; operators ask for those of one set
    Version,    \* GuestOS versions
    Candidate,  \* those that are to be elected
    Cdn,        \* the two servers of images
    Image,      \* contents of an image
    Missing,    \* stands for an image that is not there
    Rules,      \* the firewall rules at the start, a sequence
    Edits,      \* what an operator may make of the rules: functions on positions
    MaxRuns,    \* bound on the commands
    Yes         \* operators that run with --yes

VARIABLES
    commands,   \* what operators may ask for
    epoch,      \* [Subnet -> number of membership changes so far]
    nnsVersion, unassignedVersion,
    images,     \* [Candidate -> [Cdn -> Image or Missing]]
    rules,      \* the firewall rules of the registry
    open,       \* the open proposals
    binary,     \* the ic-admin of the governance version: "none", "partial", "full"
    tasks,      \* [Operator -> what the command under way still has to propose]
    runs

vars == <<commands, epoch, nnsVersion, unassignedVersion, images, rules, open, binary, tasks, runs>>
registry == <<commands, epoch, nnsVersion, unassignedVersion, images, rules>>

-----------------------------------------------------------------------------
(* Firewall: the modifications that lead from the rules to the edited ones. *)

Positions(list) == 0..(Len(list) - 1)

ChangeOf(list, edited, p) ==
    IF p \notin Positions(list) THEN "add" ELSE IF p \notin DOMAIN edited THEN "remove" ELSE "update"

Modified(list, edited) ==
    {p \in Positions(list) \cup DOMAIN edited :
       p \in Positions(list) \cap DOMAIN edited => edited[p] # list[p + 1]}

\* Positions in order.
Ascending(positions) ==
    CHOOSE s \in [1..Cardinality(positions) -> positions] : \A i, j \in DOMAIN s : i < j => s[i] < s[j]

\* reverse_sorted.
ReverseSorted(list, edited) ==
    LET up == Ascending(Modified(list, edited))
    IN  [i \in DOMAIN up |-> LET p == up[Len(up) + 1 - i]
                             IN  [change |-> ChangeOf(list, edited, p), position |-> p]]

\* The loop of reverse_sorted_and_batched.  The modification that ends a batch is
\* in no batch; one that ends an empty batch is an index out of range.
Batched(mods) ==
    LET Joined(acc, m) ==
          IF acc.type \in {"", m.change} THEN [acc EXCEPT !.type = m.change, !.batch = Append(@, m)]
          ELSE [type |-> m.change, batch |-> <<>>, batches |-> Append(acc.batches, acc.batch)]
        after[k \in 0..Len(mods)] ==
          IF k = 0 THEN [type |-> "", batch |-> <<>>, batches |-> <<>>]
          ELSE Joined(after[k - 1], mods[k])
        all == after[Len(mods)]
    IN  [panics  |-> <<>> \in ToSet(all.batches),
         batches |-> IF all.batch = <<>> THEN all.batches ELSE Append(all.batches, all.batch)]

\* What the registry makes of modifications of one type (external).
Inserted(list, where, edited) ==
    LET order == Ascending(where)
        after[k \in 0..Len(order)] ==
          IF k = 0 THEN list
          ELSE IF order[k] > Len(after[k - 1]) THEN after[k - 1]
          ELSE InsertAt(after[k - 1], order[k] + 1, edited[order[k]])
    IN  after[Len(order)]

Applied(list, mods, edited) ==
    LET where == {m.position : m \in ToSet(mods)}
    IN  IF mods = <<>> THEN list
        ELSE IF Head(mods).change = "remove" THEN
               LET kept == Ascending(Positions(list) \ where)
               IN  [i \in DOMAIN kept |-> list[kept[i] + 1]]
        ELSE IF Head(mods).change = "update" THEN
               [i \in DOMAIN list |-> IF i - 1 \in where THEN edited[i - 1] ELSE list[i]]
        ELSE Inserted(list, where, edited)

\* Only the first modification of the batch is submitted.
FirstOfBatch(batches) == <<Head(Last(batches))>>

\* "no more than one rule mod implemented": the last batch.
LastBatch(batches) == Last(batches)

-----------------------------------------------------------------------------
(* Images: what download_images_and_validate_sha256 makes of them. *)

\* The hash of the first image that was found.
HashesOfFirst(found) == IF found = {} THEN {} ELSE {(CHOOSE f \in found : TRUE).hash}

Hashes(found) == {f.hash : f \in found}

\* One hash, and two images unless forced.
Valid(found, force) == Cardinality(Hashes(found)) = 1 /\ (force \/ Cardinality(found) = 2)

-----------------------------------------------------------------------------
(* Commands. *)

Task(kind, what) == [kind |-> kind, what |-> what, pc |-> IF kind = "membership" THEN "check" ELSE "simulate"]

\* with_ic_admin: every command starts with the binary, which is downloaded unless
\* a file is there.
Started(o) == tasks[o] = {} /\ runs < MaxRuns /\ binary # "none"

Begin(o, new) ==
    /\ Started(o)
    /\ tasks' = [tasks EXCEPT ![o] = new]
    /\ runs' = runs + 1
    /\ UNCHANGED <<registry, open, binary>>

Download ==
    /\ binary = "none"
    /\ binary' \in {"full", "partial"}
    /\ UNCHANGED <<registry, open, tasks, runs>>

Change(s) == Task("membership", [subnet |-> s, epoch |-> epoch[s], run |-> runs])

\* resize, replace and rescue; a change of no node ends the command.
ChangeMembership(o, s) == Begin(o, {Change(s)}) \/ Begin(o, {})

\* One change for each subnet, run together; the error of one does not stop the others.
Heal(o) == \E subnets \in SUBSET Subnet : Begin(o, {Change(s) : s \in subnets})

\* Without a version, that of the NNS is asked for.
CreateSubnet(o) == Begin(o, {Task("plain", [run |-> runs, version |-> nnsVersion])})

\* deploy, nodes, boundary nodes, propose.
ProposePlain(o) == Begin(o, {Task("plain", [run |-> runs])})

\* update_unassigned_nodes skips versions that are the same.
UpdateUnassigned(o) ==
    Begin(o, IF nnsVersion = unassignedVersion THEN {} ELSE {Task("unassigned", [version |-> nnsVersion])})

\* revise_elected_versions starts to download: one image after the other.
Elect(o, version, force) ==
    Begin(o, {[kind |-> "elect", what |-> [version |-> version, force |-> force],
               pc |-> "download", left |-> Cdn, found |-> {}]})

\* update_firewall: the rules as they are now, edited.
EditFirewall(o, edited) ==
    /\ LET batched == Batched(ReverseSorted(rules, edited))
       IN  Begin(o, IF batched.panics \/ batched.batches = <<>> THEN {}
                    ELSE {[kind |-> "firewall", pc |-> "test", base |-> rules,
                           what |-> [mods |-> LastBatch(batched.batches), edited |-> edited]]})

-----------------------------------------------------------------------------
(* The tasks of a command, in any order. *)

Put(o, t, new) == tasks' = [tasks EXCEPT ![o] = (@ \ {t}) \cup new]

Goto(o, t, pc) == Put(o, t, {[t EXCEPT !.pc = pc]})

\* Nobody looks for pending proposals.
PendingNever(s) == FALSE

Pending(s) == \E p \in open : p.kind = "membership" /\ p.what.subnet = s

\* run_membership_change: an error if a proposal is pending.
Check(o, t) ==
    /\ t.pc = "check"
    /\ IF Pending(t.what.subnet) THEN Put(o, t, {}) ELSE Goto(o, t, "simulate")
    /\ UNCHANGED <<registry, open, binary, runs>>

\* download_file_and_get_sha256.
Fetch(o, t, cdn) ==
    /\ t.pc = "download" /\ cdn \in t.left
    /\ LET image == images[t.what.version][cdn]
       IN  Put(o, t, {[t EXCEPT !.left = @ \ {cdn},
                                !.found = @ \cup IF image = Missing THEN {} ELSE {[cdn |-> cdn, hash |-> image]}]})
    /\ UNCHANGED <<registry, open, binary, runs>>

Validate(o, t) ==
    /\ t.pc = "download" /\ t.left = {}
    /\ Put(o, t, IF ~Valid(t.found, t.what.force) THEN {}
                 ELSE {Task("elect", [version |-> t.what.version, force |-> t.what.force,
                                      urls |-> {f.cdn : f \in t.found},
                                      hash |-> (CHOOSE f \in t.found : f.hash \in Hashes(t.found)).hash])})
    /\ UNCHANGED <<registry, open, binary, runs>>

\* submit_proposal: ic-admin --test applies the modifications to the rules as they
\* are by then, and gives the hash of the outcome.
Test(o, t) ==
    /\ t.pc = "test"
    /\ Put(o, t, {Task("firewall", [mods |-> t.what.mods, edited |-> t.what.edited, base |-> t.base, tested |-> rules,
                                    hash |-> Applied(rules, t.what.mods, t.what.edited)])})
    /\ UNCHANGED <<registry, open, binary, runs>>

\* propose_run: the simulation, unless --yes was given.
Simulate(o, t) ==
    /\ t.pc = "simulate" /\ (o \in Yes \/ binary = "full")
    /\ Goto(o, t, "confirm")
    /\ UNCHANGED <<registry, open, binary, runs>>

Submit(o, t) ==
    /\ t.pc = "confirm" /\ binary = "full"
    /\ open' = open \cup {[kind |-> t.kind, what |-> t.what, by |-> o]}
    /\ Put(o, t, {})
    /\ UNCHANGED <<registry, binary, runs>>

\* A dry run ends with the simulation, the operator declines, a run of ic-admin
\* fails: with this binary, or for another reason.
GiveUp(o, t) ==
    /\ t.pc \in {"download", "test", "simulate", "confirm"}
    /\ Put(o, t, {})
    /\ UNCHANGED <<registry, open, binary, runs>>

-----------------------------------------------------------------------------
(* The NNS and the builds. *)

Execute(p) ==
    /\ p \in open
    /\ open' = open \ {p}
    /\ epoch' = IF p.kind = "membership" /\ p.what.epoch = epoch[p.what.subnet]
                THEN [epoch EXCEPT ![p.what.subnet] = @ + 1] ELSE epoch
    /\ unassignedVersion' = IF p.kind = "unassigned" THEN p.what.version ELSE unassignedVersion
    /\ rules' = IF p.kind = "firewall" /\ Applied(rules, p.what.mods, p.what.edited) = p.what.hash
                THEN p.what.hash ELSE rules
    /\ UNCHANGED <<commands, nnsVersion, images, binary, tasks, runs>>

Upload(version, cdn, image) ==
    /\ images[version][cdn] = Missing
    /\ images' = [images EXCEPT ![version][cdn] = image]
    /\ UNCHANGED <<commands, epoch, nnsVersion, unassignedVersion, rules, open, binary, tasks, runs>>

UpgradeNns(version) ==
    /\ nnsVersion' = version
    /\ UNCHANGED <<commands, epoch, unassignedVersion, images, rules, open, binary, tasks, runs>>

Init == /\ commands \in Workloads
        /\ epoch = [s \in Subnet |-> 0]
        /\ nnsVersion \in Version /\ unassignedVersion \in Version
        /\ "unassigned" \notin commands => nnsVersion = unassignedVersion
        /\ images = [v \in Candidate |-> [c \in Cdn |-> Missing]]
        /\ rules = Rules
        /\ open = {} /\ runs = 0 /\ binary = "none"
        /\ tasks = [o \in Operator |-> {}]

Command(o) ==
    \/ "membership" \in commands /\ (Heal(o) \/ \E s \in Subnet : ChangeMembership(o, s))
    \/ "plain" \in commands /\ (ProposePlain(o) \/ CreateSubnet(o))
    \/ "unassigned" \in commands /\ UpdateUnassigned(o)
    \/ "elect" \in commands /\ \E v \in Candidate, force \in BOOLEAN : Elect(o, v, force)
    \/ "firewall" \in commands /\ \E edited \in Edits : EditFirewall(o, edited)

Work(o, t) == \/ Check(o, t) \/ Validate(o, t) \/ Test(o, t) \/ Simulate(o, t) \/ Submit(o, t) \/ GiveUp(o, t)
              \/ \E cdn \in Cdn : Fetch(o, t, cdn)

Next == \/ Download
        \/ \E o \in Operator : Command(o) \/ \E t \in tasks[o] : Work(o, t)
        \/ \E p \in open : Execute(p)
        \/ "elect" \in commands /\ \E v \in Candidate, c \in Cdn, i \in Image : Upload(v, c, i)
        \/ "unassigned" \in commands /\ \E v \in Version : UpgradeNns(v)

Spec == Init /\ [][Next]_vars

-----------------------------------------------------------------------------
(* Properties. *)

\* The type invariant.
TypeOK == /\ epoch \in [Subnet -> Nat] /\ runs \in 0..MaxRuns
          /\ nnsVersion \in Version /\ unassignedVersion \in Version
          /\ images \in [Candidate -> [Cdn -> Image \cup {Missing}]]
          /\ binary \in {"none", "partial", "full"}
          /\ \A o \in Operator : \A t \in tasks[o] :
               t.pc \in {"check", "download", "test", "simulate", "confirm"}

\* An operator never has two open proposals for a subnet, though others may submit
\* between the check and the confirmation (runner.rs:253-276).
OwnChangesDontPile ==
    \A p, q \in open : p.kind = "membership" /\ q.kind = "membership" /\ p.by = q.by
                       /\ p.what.subnet = q.what.subnet => p = q

\* The images of an elected version are all the same, and two unless that was
\* waived, whatever was uploaded while they were downloaded (ic_admin.rs:516-579).
ElectedImagesAgree ==
    \A p \in open : p.kind = "elect" =>
      /\ \A c \in p.what.urls : images[p.what.version][c] = p.what.hash
      /\ p.what.urls = Cdn \/ p.what.force

\* An edit of one kind is proposed as a whole: if nobody changed the rules between
\* the edit and the test, and the new positions follow the old ones, execution
\* leads to the edited list (ic_admin.rs:110-137, 747-882).
FirewallEditIsProposed ==
    \A p \in open : p.kind = "firewall" =>
      LET w == p.what
          order == Ascending(DOMAIN w.edited)
          kinds == {ChangeOf(w.base, w.edited, q) : q \in Modified(w.base, w.edited)}
          Following == \E last \in DOMAIN w.edited : DOMAIN w.edited = 0..last
      IN  w.base = w.tested /\ Cardinality(kinds) = 1 /\ ("add" \in kinds => Following) =>
            w.hash = [i \in DOMAIN order |-> w.edited[order[i]]]

\* The three together.
ProposalsAreSound == OwnChangesDontPile /\ ElectedImagesAgree /\ FirewallEditIsProposed
=============================================================================
