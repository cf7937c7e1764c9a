------------------------------ MODULE Reconciler ------------------------------
(***************************************************************************)
(* The release controller (release-controller/reconciler.py and the        *)
(* modules it calls): a loop that brings every listed release from the     *)
(* index to an election proposal -- forum topic, tags, release notes, pull *)
(* request, proposal -- and announces the proposal in the forum.  Whatever *)
(* raises ends the iteration, and the watchdog or a restart may end it     *)
(* anywhere: the next one starts from what is stored outside the process.  *)
(*                                                                         *)
(* Abstractions.  Texts are what they are about: a post is its version and *)
(* the proposal it announces.  Release notes are absent, a draft, or       *)
(* reviewed by all teams.  Posts stay editable.                            *)
(***************************************************************************)
EXTENDS Naturals, Sequences, FiniteSetsExt, Functions

CONSTANTS
    Version,          \* GuestOS versions
    NoVersion,        \* what a proposal that only un-elects elects
    NotGuestOS,       \* what another proposal of the topic elects: nothing for replicas
    Releases,         \* all releases, the newest first: sequences of versions
    FirstListed,      \* the oldest of them, listed in the index at the start
    Ignored,          \* releases that main() passes as ignore_releases
    FirstActive,      \* versions that replicas run at the start
    FirstElected,     \* versions elected at the start
    FirstProposals,   \* the proposals of others before the start, the oldest first,
                      \* executed long ago: nothing is left of what they un-elected
    MayRemove,        \* whether versions are taken out of the index again
    MayProposeOther,  \* whether others propose something that elects no version
    MaxProposals,     \* bound on proposals of others
    MaxFailures       \* bound on exceptions, restarts and watchdog timeouts

Release == DOMAIN Releases

Subject == Version \cup {NoVersion, NotGuestOS}

ASSUME VersionAssumption == /\ NoVersion \notin Version /\ NotGuestOS \notin Version
                            /\ NoVersion # NotGuestOS
                            /\ FirstProposals \in Seq([version : FirstElected \cup {NoVersion, NotGuestOS},
                                                       unelect : {{}}, post : Release \X Nat, own : {FALSE}])
                            /\ FirstActive \subseteq FirstElected
                            /\ FirstElected \subseteq Version
ASSUME ReleaseAssumption == /\ Releases \in Seq(Seq(Version)) /\ Releases # <<>>
                            /\ FirstListed \subseteq Release
                            /\ Ignored \subseteq Release
ASSUME BoundAssumption   == /\ {MayRemove, MayProposeOther} \subseteq BOOLEAN
                            /\ MaxProposals \in Nat /\ MaxFailures \in Nat

VARIABLES
    index,      \* Release -> the versions release-index.yaml lists, <<>> if not there
    active,     \* versions that replicas reported within the last hour
    elected,    \* versions elected in the registry
    notes,      \* Version -> its release notes document
    pull,       \* Version -> how far its notes are on the way to the main branch
    tags,       \* versions whose release tag is pushed
    topic,      \* Release -> the posts of its forum topic, <<>> if there is none
    proposals,  \* election proposals in governance; the index is the id
    adopted,    \* ids of the adopted ones
    marked,     \* versions with a file in the state directory
    saved,      \* Version -> the proposal id in that file, 0 if it is empty
    it,         \* the iteration: where it is and what it has read
    failures    \* how often one was cut short

world    == <<index, active, elected, adopted>>
people   == <<notes, pull>>
outside  == <<tags, topic, proposals>>
state    == <<marked, saved>>
vars     == <<world, people, outside, state, it, failures>>

-----------------------------------------------------------------------------
Post     == [version : Version \cup {NoVersion}, proposal : Nat]
Proposal == [version : Subject, unelect : SUBSET Version,
             post : Release \X Nat, own : BOOLEAN]
PC == {"start", "active", "topic", "announce", "tags", "notes", "publish", "gate",
       "place", "list", "refresh"}
Iteration == [pc : PC, index : [Release -> Seq(Version)], active : SUBSET Version,
              release : Release, i : Nat, unelect : SUBSET Version]

NoIndex == [r \in Release |-> <<>>]
Idle == [pc |-> "start", index |-> NoIndex, active |-> {}, release |-> Len(Releases), i |-> 1,
         unelect |-> {}]

\* The type invariant.
TypeOK == /\ index \in [Release -> Seq(Version)]
          /\ active \subseteq Version /\ elected \subseteq Version
          /\ notes \in [Version -> {"none", "draft", "reviewed"}]
          /\ pull \in [Version -> {"none", "branch", "file", "open", "merged"}]
          /\ tags \subseteq Version
          /\ topic \in [Release -> Seq(Post)]
          /\ proposals \in Seq(Proposal)
          /\ adopted \subseteq DOMAIN proposals
          /\ marked \subseteq Version
          /\ saved \in [Version -> 0..Len(proposals)]
          /\ it \in Iteration
          /\ failures \in Nat

Init == /\ index = [r \in Release |-> IF r \in FirstListed THEN Releases[r] ELSE <<>>]
        /\ active = FirstActive
        /\ elected = FirstElected
        /\ notes = [v \in Version |-> IF v \in FirstElected THEN "reviewed" ELSE "none"]
        /\ pull = [v \in Version |-> IF v \in FirstElected THEN "merged" ELSE "none"]
        /\ tags = FirstElected
        /\ topic = NoIndex
        /\ proposals = FirstProposals
        /\ adopted = DOMAIN FirstProposals
        /\ marked = FirstElected
        /\ saved = [v \in Version |-> 0]
        /\ it = Idle
        /\ failures = 0

-----------------------------------------------------------------------------
(* The pure parts: which releases are worked on, and what to un-elect.      *)

Listed(idx, r) == Range(idx[r])

\* oldest_active_release: the search goes from the end of the list.
OldestActive(idx, act) == Max({r \in Release : Listed(idx, r) \cap act # {}})

\* The releases from the newest down to the oldest active one.
Current(idx, act) == {r \in Release : r <= OldestActive(idx, act) /\ idx[r] # <<>>}

\* Deviations the properties must notice carry the name of the definition they
\* stand in for: here, active versions that the index does not know are forgotten.
VersionsToUnelectUnlisted(idx, act, el) ==
    el \ UNION {Listed(idx, r) : r \in Current(idx, act)}

VersionsToUnelect(idx, act, el) ==
    el \ (act \cup UNION {Listed(idx, r) : r \in Current(idx, act)})

Targets == Current(it.index, it.active) \ Ignored

VersionsHere == it.index[it.release]
This         == VersionsHere[it.i]

\* replica_version_proposals reads proposal_info[0], the newest proposal of the
\* topic: it finds at most that one, passes over what is not about GuestOS, and
\* raises if there is none or if it elects nothing.
NextId   == Len(proposals) + 1
NewestId == Len(proposals)
Newest   == proposals[Len(proposals)].version

Unreadable == proposals = <<>> \/ Newest = NoVersion

\* What a post should say.
Wanted(v) == [version |-> v, proposal |-> saved[v]]

-----------------------------------------------------------------------------
(* The iteration: it goes on, or something raises and it starts over.       *)

GoTo(pc) == it' = [it EXCEPT !.pc = pc] /\ UNCHANGED failures

Abort == it' = Idle

\* An exception, a restart, or the watchdog: after this step nothing more happens.
CutShort == failures < MaxFailures /\ failures' = failures + 1 /\ Abort

StartOver == /\ it.pc # "start"
             /\ CutShort
             /\ UNCHANGED <<world, people, outside, state>>

\* A call that changes something in several requests gets through some of them.
Went(done, pc) == IF done THEN GoTo(pc) ELSE CutShort

ReadIndex == /\ it.pc = "start"
             /\ it' = [it EXCEPT !.pc = "active", !.index = index]
             /\ UNCHANGED <<world, people, outside, state, failures>>

BeginRelease(r) == it' = [it EXCEPT !.pc = "topic", !.release = r, !.i = 1]

\* Without an active version in the index oldest_active_release raises.
ReadActive == /\ it.pc = "active"
              /\ LET known == \E r \in Release : Listed(it.index, r) \cap active # {}
                     todo  == Current(it.index, active) \ Ignored
                 IN  it' = IF ~known \/ todo = {} THEN Idle
                           ELSE [it EXCEPT !.pc = "topic", !.active = active, !.release = Min(todo)]
              /\ UNCHANGED <<world, people, outside, state, failures>>

-----------------------------------------------------------------------------
(* The forum: one topic per release, its posts in the order of the versions.*)

FirstPost == [version |-> NoVersion, proposal |-> 0]

OpenTopic == /\ it.pc = "topic"
             /\ topic' = IF topic[it.release] # <<>> THEN topic
                         ELSE [topic EXCEPT ![it.release] = <<FirstPost>>]
             /\ GoTo("announce")
             /\ UNCHANGED <<world, people, tags, proposals, state>>

\* The posts of the first k versions are as wanted.
UpdatedPosts(k) ==
    LET posts == topic[it.release]
    IN  [j \in (1..k) \cup DOMAIN posts |-> IF j <= k THEN Wanted(VersionsHere[j]) ELSE posts[j]]

\* ReleaseCandidateForumTopic::update, before and after the work on the versions.
Announce == /\ it.pc = "announce"
            /\ \E k \in 0..Len(VersionsHere) :
                 /\ topic' = [topic EXCEPT ![it.release] = UpdatedPosts(k)]
                 /\ Went(k = Len(VersionsHere), "tags")
            /\ UNCHANGED <<world, people, tags, proposals, state>>

NextRelease == LET todo == {r \in Targets : r > it.release}
               IN  IF todo = {} THEN Abort ELSE BeginRelease(Min(todo))

Refresh == /\ it.pc = "refresh"
           /\ \E k \in 0..Len(VersionsHere) :
                /\ topic' = [topic EXCEPT ![it.release] = UpdatedPosts(k)]
                /\ IF k = Len(VersionsHere) THEN NextRelease /\ UNCHANGED failures ELSE CutShort
           /\ UNCHANGED <<world, people, tags, proposals, state>>

-----------------------------------------------------------------------------
(* One version: tags, notes, pull request.                                  *)

\* A git push that fails is not noticed.
PushTagsUnchecked == /\ it.pc = "tags"
                     /\ \E k \in 0..Len(VersionsHere) :
                          tags' = tags \cup {VersionsHere[j] : j \in 1..k}
                     /\ GoTo("notes")
                     /\ UNCHANGED <<world, people, topic, proposals, state>>

PushTags == /\ it.pc = "tags"
            /\ \E k \in 0..Len(VersionsHere) :
                 /\ tags' = tags \cup {VersionsHere[j] : j \in 1..k}
                 /\ Went(k = Len(VersionsHere), "notes")
            /\ UNCHANGED <<world, people, topic, proposals, state>>

\* The first version of the last release of the index has no predecessor to
\* take the first commit from: releases[rc_idx + 1] raises.
NoPredecessor == it.i = 1 /\ \A r \in Release : r > it.release => it.index[r] = <<>>

IndexError == /\ it.pc = "notes"
              /\ NoPredecessor
              /\ Abort
              /\ UNCHANGED <<world, people, outside, state, failures>>

\* The document is uploaded before it is announced, which may raise.
EnsureNotes == /\ it.pc = "notes"
               /\ ~NoPredecessor
               /\ \/ /\ notes' = [notes EXCEPT ![This] = IF @ = "none" THEN "draft" ELSE @]
                     /\ GoTo("publish")
                  \/ /\ notes[This] = "none"
                     /\ notes' = [notes EXCEPT ![This] = "draft"]
                     /\ CutShort
               /\ UNCHANGED <<world, pull, outside, state>>

\* The steps of ensure_published: branch, file, pull request.
Onward(p) == CASE p = "none"   -> {"branch", "file", "open"}
               [] p = "branch" -> {"branch", "file", "open"}
               [] p = "file"   -> {"file", "open"}
               [] OTHER        -> {p}

PublishIfReady ==
    /\ it.pc = "publish"
    /\ IF notes[This] # "reviewed"
       THEN GoTo("gate") /\ UNCHANGED pull
       ELSE \E p \in Onward(pull[This]) :
              /\ pull' = [pull EXCEPT ![This] = p]
              /\ Went(p \in {"open", "merged"}, "gate")
    /\ UNCHANGED <<world, notes, outside, state>>

-----------------------------------------------------------------------------
(* The proposal: only for a changelog on the main branch, and only once.    *)

NextVersion == IF it.i < Len(VersionsHere)
               THEN it' = [it EXCEPT !.pc = "tags", !.i = @ + 1, !.unelect = {}]
               ELSE it' = [it EXCEPT !.pc = "refresh", !.unelect = {}]

Skip == /\ it.pc = "gate"
        /\ pull[This] # "merged"
        /\ NextVersion
        /\ UNCHANGED <<world, people, outside, state, failures>>

\* The proposals are looked up only after one was placed.
WasSubmittedSkip == /\ it.pc = "gate"
                    /\ pull[This] = "merged"
                    /\ This \in marked
                    /\ NextVersion
                    /\ UNCHANGED <<world, people, outside, state, failures>>

WasSubmitted == /\ it.pc = "gate"
                /\ pull[This] = "merged"
                /\ This \in marked
                /\ GoTo("list")
                /\ UNCHANGED <<world, people, outside, state>>

Unelected == IF it.i = 1 THEN VersionsToUnelect(it.index, it.active, elected) ELSE {}

\* mark_submitted is left out.
MarkForgotten == /\ it.pc = "gate"
                 /\ pull[This] = "merged"
                 /\ This \notin marked
                 /\ it' = [it EXCEPT !.pc = "place", !.unelect = Unelected]
                 /\ UNCHANGED <<world, people, outside, state, failures>>

\* mark_submitted comes before the proposal; only the first version of a
\* release carries the list of versions to un-elect.
Mark == /\ it.pc = "gate"
        /\ pull[This] = "merged"
        /\ This \notin marked
        /\ marked' = marked \cup {This}
        /\ it' = [it EXCEPT !.pc = "place", !.unelect = Unelected]
        /\ UNCHANGED <<world, people, outside, saved, failures>>

\* The last post of the topic.
PostOfLast == <<it.release, Len(topic[it.release])>>

\* The post the proposal links to: the one at the position of the version.
PostOf == <<it.release, it.i>>

OwnProposal == [version |-> This, unelect |-> it.unelect, post |-> PostOf, own |-> TRUE]

\* ic-admin may submit the proposal and still fail.
PlaceProposal == /\ it.pc = "place"
                 /\ it.i <= Len(topic[it.release])
                 /\ proposals' = Append(proposals, OwnProposal)
                 /\ GoTo("list") \/ CutShort
                 /\ UNCHANGED <<world, people, tags, topic, state>>

\* save_proposal writes to an empty file only.
SaveProposal ==
    /\ it.pc = "list"
    /\ IF Unreadable
       THEN Abort /\ UNCHANGED saved
       ELSE /\ NextVersion
            /\ saved' = IF Newest = This /\ saved[This] = 0 /\ This \in marked
                        THEN [saved EXCEPT ![This] = NewestId] ELSE saved
    /\ UNCHANGED <<world, people, outside, marked, failures>>

Step == \/ ReadIndex \/ ReadActive \/ OpenTopic \/ Announce \/ Refresh \/ PushTags
        \/ IndexError \/ EnsureNotes \/ PublishIfReady
        \/ Skip \/ WasSubmitted \/ Mark \/ PlaceProposal \/ SaveProposal

-----------------------------------------------------------------------------
(* The rest of the world: people, governance, the network.                  *)

controller == <<tags, topic, state, it, failures>>

\* No version of the release was taken out of the index.
Grows(r) == index[r] = SubSeq(Releases[r], 1, Len(index[r]))

\* The next version is added to a release; a release after the ones before it.
ListVersion(r) == /\ Grows(r) /\ Len(index[r]) < Len(Releases[r])
                  /\ r = Len(Releases) \/ index[r + 1] # <<>>
                  /\ index' = [index EXCEPT ![r] = Append(@, Releases[r][Len(@) + 1])]
                  /\ UNCHANGED <<active, elected, adopted, people, proposals, controller>>

\* A version that no subnet runs is taken out; later ones of its release stay.
RemoveVersion(r, i) == /\ MayRemove
                       /\ i < Len(index[r]) /\ index[r][i] \notin active
                       /\ index[r] = Releases[r]
                       /\ index' = [index EXCEPT ![r] = SubSeq(@, 1, i - 1) \o SubSeq(@, i + 1, Len(@))]
                       /\ UNCHANGED <<active, elected, adopted, people, proposals, controller>>

Review(v) == /\ notes[v] = "draft"
             /\ notes' = [notes EXCEPT ![v] = "reviewed"]
             /\ UNCHANGED <<world, pull, proposals, controller>>

Merge(v) == /\ pull[v] = "open"
            /\ pull' = [pull EXCEPT ![v] = "merged"]
            /\ UNCHANGED <<world, notes, proposals, controller>>

Adopt(p) == /\ p \in DOMAIN proposals \ adopted
            /\ proposals[p].version \in Version
            /\ adopted' = adopted \cup {p}
            /\ elected' = (elected \ proposals[p].unelect) \cup {proposals[p].version}
            /\ UNCHANGED <<index, active, people, proposals, controller>>

\* Subnets are upgraded to listed versions, never to a release older than all of theirs.
Deploy(v) == /\ v \in elected \ active
             /\ \E r \in Current(index, active) : v \in Listed(index, r)
             /\ active' = active \cup {v}
             /\ UNCHANGED <<index, elected, adopted, people, proposals, controller>>

\* The last subnet leaves a version.
Retire(v) == /\ v \in active
             /\ \E r \in Release : Listed(index, r) \cap (active \ {v}) # {}
             /\ active' = active \ {v}
             /\ UNCHANGED <<index, elected, adopted, people, proposals, controller>>

ProposalsFor(v) == {p \in DOMAIN proposals : proposals[p].version = v}

\* A proposal somebody submits by hand (oneoff), when the controller's is missing,
\* and proposals of others that elect no version of the replicas.
ProposeByHand(v) ==
    /\ Cardinality({p \in DOMAIN proposals : ~proposals[p].own}) < Len(FirstProposals) + MaxProposals
    /\ IF v \in Version THEN v \in marked \ elected /\ ProposalsFor(v) = {} ELSE MayProposeOther
    /\ proposals' = Append(proposals, [version |-> v, unelect |-> {}, post |-> <<1, 0>>, own |-> FALSE])
    /\ UNCHANGED <<world, people, controller>>

WorldStep == \/ \E r \in Release : ListVersion(r) \/ \E i \in DOMAIN index[r] : RemoveVersion(r, i)
             \/ \E v \in Version : Review(v) \/ Merge(v) \/ Deploy(v) \/ Retire(v)
             \/ \E p \in DOMAIN proposals : Adopt(p)
             \/ \E v \in Subject : ProposeByHand(v)

Next == Step \/ StartOver \/ WorldStep

Spec == Init /\ [][Next]_vars

(***************************************************************************)
(* Fairness.  The loop sleeps a minute and goes on, whatever was raised;   *)
(* the teams finish their reviews and pull requests are merged.  Nobody    *)
(* promises votes, upgrades or new releases.  Failures are bounded by      *)
(* MaxFailures: the promise is about what happens once they have ended.    *)
(***************************************************************************)
Fairness == /\ WF_vars(Step)
            /\ WF_vars(\E v \in Version : Review(v))
            /\ WF_vars(\E v \in Version : Merge(v))

FairSpec == Spec /\ Fairness

-----------------------------------------------------------------------------
(* Properties. *)

\* Over all failures, restarts and watchdog kills the controller submits at most
\* one election proposal for a version: mark_submitted is durable and comes
\* first ("This is a defensive approach", reconciler.py).
OneOwnProposal ==
    \A p, q \in DOMAIN proposals :
      proposals[p].own /\ proposals[q].own /\ proposals[p].version = proposals[q].version => p = q

\* Adopting the controller's proposals never takes away a version that a subnet
\* runs, although the list was made from an older view of network and index.
InUseStaysElected == active \subseteq elected

\* The forum tells the truth: a proposal links to the post about its version,
\* and a post that announces a proposal announces one for its version (post_url
\* and update find posts by their position in the topic).
LinkIsRight(p) == LET q == proposals[p] IN
    q.own => topic[q.post[1]][q.post[2]].version = q.version

ForumMatchesProposals ==
    /\ \A p \in DOMAIN proposals : Grows(proposals[p].post[1]) => LinkIsRight(p)
    /\ \A r \in Release : \A j \in DOMAIN topic[r] : LET post == topic[r][j] IN
         post.proposal # 0 => proposals[post.proposal].version = post.version

\* A version is proposed only with its notes on the main branch and its tag pushed.
ProposedIsPrepared ==
    \A p \in DOMAIN proposals : proposals[p].own =>
      pull[proposals[p].version] = "merged" /\ proposals[p].version \in tags

\* "Once it's merged, the proposal will be placed and forum post updated" (the
\* controller's README:13), while not every look at the proposals raises.  The code
\* breaks the promise in three cases, which are exempt: a failure hit between the mark
\* and the proposal, and the version is given up for ever; the id of its proposal was
\* not saved while that was the newest of the topic, and is never found again; or its
\* release is the last one of the index, for which every iteration raises.
IsListed(v)  == \E r \in Release : v \in Listed(index, r)
Announced(v) == \E r \in Release : \E j \in DOMAIN topic[r] :
                  topic[r][j].version = v /\ topic[r][j].proposal # 0
GivenUp(v)   == it.pc = "start" /\ v \in marked /\ ProposalsFor(v) = {}
Overtaken(v) == ProposalsFor(v) # {} /\ saved[v] = 0 /\ NewestId \notin ProposalsFor(v)
IsLast(v)    == \E r \in Release : v \in Listed(index, r) /\ \A q \in Release : q > r => index[q] = <<>>
IsOver(v)    == \A r \in Current(index, active) \ Ignored : v \notin Listed(index, r)

ListedIsAnnounced ==
    <>[]~Unreadable =>
      \A v \in Version :
        IsListed(v) ~> \/ Announced(v) \/ GivenUp(v) \/ Overtaken(v)
                         \/ IsLast(v) \/ IsOver(v) \/ ~IsListed(v)
=============================================================================
