--------------------------- MODULE ReconcilerProofs ---------------------------
(***************************************************************************)
(* Theorems about Reconciler for any versions, releases, first state of    *)
(* the network and bounds.                                                 *)
(***************************************************************************)
EXTENDS Reconciler, LeastAndGreatest

-----------------------------------------------------------------------------
(* Types.  While a release is worked on, the index read at the start of the *)
(* iteration lists a version for it at the position of the iteration.       *)

Within == IF it.pc \in {"start", "active"} THEN it.i = 1 ELSE it.i \in 1..Len(VersionsHere)

Typed == TypeOK /\ Within

\* A release that is chosen is one, and it has versions.
LEMMA ChosenRelease ==
    ASSUME NEW S \in SUBSET Release, S # {}
    PROVE  Min(S) \in S
<1>1. S \in SUBSET Nat
  BY ReleaseAssumption DEF Release
<1>. QED
  BY <1>1, MinType

LEMMA IdleType == Idle \in Iteration /\ Idle.pc = "start" /\ Idle.i = 1
<1>1. Len(Releases) \in Release
  BY ReleaseAssumption DEF Release
<1>2. NoIndex \in [Release -> Seq(Version)]
  BY DEF NoIndex
<1>. QED
  BY <1>1, <1>2 DEF Idle, Iteration, PC

\* A post that tells what the state directory says.
LEMMA UpdatedPostsType ==
    ASSUME Typed, it.pc \notin {"start", "active"}, NEW k \in 0..Len(VersionsHere)
    PROVE  UpdatedPosts(k) \in Seq(Post)
<1>1. /\ VersionsHere \in Seq(Version) /\ topic[it.release] \in Seq(Post)
      /\ Len(VersionsHere) \in Nat
  BY DEF Typed, TypeOK, Iteration, VersionsHere
<1>. DEFINE posts == topic[it.release]
            n == IF k > Len(posts) THEN k ELSE Len(posts)
<1>2. n \in Nat /\ (1..k) \cup DOMAIN posts = 1..n
  BY <1>1
<1>3. ASSUME NEW j \in 1..k
      PROVE  Wanted(VersionsHere[j]) \in Post
  <2>1. VersionsHere[j] \in Version
    BY <1>1
  <2>2. saved[VersionsHere[j]] \in Nat
    BY <2>1 DEF Typed, TypeOK
  <2>. QED
    BY <2>1, <2>2 DEF Wanted, Post
<1>4. ASSUME NEW j \in 1..n
      PROVE  (IF j <= k THEN Wanted(VersionsHere[j]) ELSE posts[j]) \in Post
  BY <1>1, <1>3
<1>5. UpdatedPosts(k) = [j \in 1..n |-> IF j <= k THEN Wanted(VersionsHere[j]) ELSE posts[j]]
  BY <1>2 DEF UpdatedPosts
<1>. HIDE DEF n, posts
<1>6. UpdatedPosts(k) \in [1..n -> Post]
  BY <1>4, <1>5
<1>. QED
  BY <1>2, <1>6

\* The iteration starts over, or goes on with the same version.
LEMMA MovesOn ==
    ASSUME Typed
    PROVE  /\ Abort => it' \in Iteration /\ Within'
           /\ CutShort => it' \in Iteration /\ Within' /\ failures' \in Nat
           /\ \A pc \in PC \ {"start", "active"} :
                it.pc \notin {"start", "active"} /\ GoTo(pc) =>
                  it' \in Iteration /\ Within' /\ failures' \in Nat
<1>1. Abort => it' \in Iteration /\ Within'
  BY IdleType DEF Abort, Within
<1>2. ASSUME NEW pc \in PC \ {"start", "active"}, it.pc \notin {"start", "active"}, GoTo(pc)
      PROVE  it' \in Iteration /\ Within' /\ failures' \in Nat
  <2>1. it' \in Iteration /\ it'.i = it.i /\ it'.release = it.release /\ it'.index = it.index
    BY <1>2 DEF GoTo, Typed, TypeOK, Iteration
  <2>. QED
    BY <1>2, <2>1 DEF GoTo, Typed, TypeOK, Within, VersionsHere
<1>. QED
  BY <1>1, <1>2 DEF CutShort, Typed, TypeOK

\* The iteration comes to a release that has versions.
LEMMA ReleaseBegins ==
    ASSUME Typed, NEW act, NEW todo \in SUBSET Current(it.index, act),
           todo # {}, it'.i = 1, it'.release = Min(todo), it'.pc = "topic", it'.index = it.index
    PROVE  Within' /\ it'.release \in Release
<1>1. Min(todo) \in todo /\ Min(todo) \in Release /\ it.index[Min(todo)] # <<>>
  BY ChosenRelease DEF Current
<1>2. it.index[Min(todo)] \in Seq(Version)
  BY <1>1 DEF Typed, TypeOK, Iteration
<1>. QED
  BY <1>1, <1>2 DEF Within, VersionsHere

LEMMA ReadActiveType ==
    ASSUME Typed, ReadActive
    PROVE  it' \in Iteration /\ Within'
<1>. DEFINE todo == Current(it.index, active) \ Ignored
<1>1. CASE it' = Idle
  BY <1>1, IdleType DEF Within
<1>2. CASE it' # Idle
  <2>1. /\ todo # {}
        /\ it' = [it EXCEPT !.pc = "topic", !.active = active, !.release = Min(todo)]
    BY <1>2 DEF ReadActive
  <2>2. it.i = 1
    BY DEF ReadActive, Typed, Within
  <2>. QED
    BY <2>1, <2>2, ReleaseBegins DEF Typed, TypeOK, Iteration, PC
<1>. QED
  BY <1>1, <1>2

LEMMA NextReleaseType ==
    ASSUME Typed, it.pc = "refresh", NextRelease
    PROVE  it' \in Iteration /\ Within'
<1>. DEFINE todo == {r \in Targets : r > it.release}
<1>1. CASE todo = {}
  BY <1>1, MovesOn DEF NextRelease
<1>2. CASE todo # {}
  <2>1. it' = [it EXCEPT !.pc = "topic", !.release = Min(todo), !.i = 1]
    BY <1>2 DEF NextRelease, BeginRelease
  <2>2. todo \in SUBSET Current(it.index, it.active)
    BY DEF Targets
  <2>3. /\ it'.pc = "topic" /\ it'.i = 1 /\ it'.release = Min(todo) /\ it'.index = it.index
        /\ Within' /\ it'.release \in Release
    <3>1. it'.pc = "topic" /\ it'.i = 1 /\ it'.release = Min(todo) /\ it'.index = it.index
      BY <2>1 DEF Typed, TypeOK, Iteration
    <3>. HIDE DEF todo
    <3>. QED
      BY <1>2, <2>2, <3>1, ReleaseBegins
  <2>. HIDE DEF todo
  <2>. QED
    BY <2>1, <2>3 DEF Typed, TypeOK, Iteration, PC
<1>. QED
  BY <1>1, <1>2

LEMMA NextVersionType ==
    ASSUME Typed, it.pc \notin {"start", "active"}, NextVersion
    PROVE  it' \in Iteration /\ Within'
<1>1. Len(VersionsHere) \in Nat /\ it.i \in 1..Len(VersionsHere)
  BY DEF Typed, TypeOK, Within, Iteration, VersionsHere
<1>2. CASE it.i < Len(VersionsHere)
  <2>1. it' = [it EXCEPT !.pc = "tags", !.i = @ + 1, !.unelect = {}]
    BY <1>2 DEF NextVersion
  <2>2. it.i + 1 \in Nat /\ "tags" \in PC /\ it \in Iteration
    BY DEF Typed, TypeOK, Iteration, PC
  <2>3. it'.pc = "tags" /\ it'.i = it.i + 1 /\ it'.release = it.release /\ it'.index = it.index
    BY <2>1, <2>2 DEF Iteration
  <2>4. it' \in Iteration
    BY <2>1, <2>2 DEF Iteration
  <2>. QED
    BY <1>1, <1>2, <2>3, <2>4 DEF Within, VersionsHere
<1>3. CASE ~(it.i < Len(VersionsHere))
  <2>1. it' = [it EXCEPT !.pc = "refresh", !.unelect = {}]
    BY <1>3 DEF NextVersion
  <2>. QED
    BY <1>1, <2>1 DEF Typed, TypeOK, Iteration, PC, Within, VersionsHere
<1>. QED
  BY <1>2, <1>3

LEMMA ThisType ==
    ASSUME Typed, it.pc \notin {"start", "active"}
    PROVE  /\ This \in Version
           /\ VersionsHere \in Seq(Version)
           /\ it.release \in Release
BY DEF Typed, TypeOK, Within, Iteration, This, VersionsHere

\* A step that leaves everything but the iteration alone.
LEMMA OnlyIteration ==
    ASSUME Typed, UNCHANGED <<world, people, outside, state>>,
           it' \in Iteration, Within', failures' \in Nat
    PROVE  Typed'
BY DEF Typed, TypeOK, world, people, outside, state

LEMMA ForumStep ==
    ASSUME Typed, NEW posts \in Seq(Post), topic' = [topic EXCEPT ![it.release] = posts],
           UNCHANGED <<world, people, tags, proposals, state>>,
           it' \in Iteration, Within', failures' \in Nat
    PROVE  Typed'
BY DEF Typed, TypeOK, Iteration, world, people, state

\* A further proposal, whoever submits it, keeps ids and what refers to them.
LEMMA ProposalsGrow ==
    ASSUME TypeOK, NEW p \in Proposal, proposals' = Append(proposals, p)
    PROVE  /\ proposals' \in Seq(Proposal)
           /\ Len(proposals') = Len(proposals) + 1
           /\ DOMAIN proposals' = DOMAIN proposals \cup {Len(proposals) + 1}
           /\ \A q \in DOMAIN proposals : proposals'[q] = proposals[q]
           /\ proposals'[Len(proposals) + 1] = p
           /\ adopted \subseteq DOMAIN proposals'
           /\ saved \in [Version -> 0..Len(proposals')]
<1>1. /\ proposals' \in Seq(Proposal)
      /\ Len(proposals) \in Nat /\ Len(proposals') = Len(proposals) + 1
      /\ DOMAIN proposals = 1..Len(proposals) /\ DOMAIN proposals' = 1..Len(proposals')
      /\ \A q \in 1..Len(proposals) : proposals'[q] = proposals[q]
      /\ proposals'[Len(proposals) + 1] = p
  BY DEF TypeOK
<1>2. 0..Len(proposals) \subseteq 0..Len(proposals')
  BY <1>1
<1>3. saved \in [Version -> 0..Len(proposals')]
  BY <1>2 DEF TypeOK
<1>. QED
  BY <1>1, <1>3 DEF TypeOK

LEMMA OwnProposalType ==
    ASSUME Typed, it.pc \notin {"start", "active"}
    PROVE  OwnProposal \in Proposal
BY ThisType DEF Typed, TypeOK, Iteration, OwnProposal, PostOf, Proposal, Subject

\* A proposal of the topic, if there is one, is found under its id.
LEMMA NewestIdType ==
    ASSUME TypeOK, ~Unreadable
    PROVE  NewestId \in 0..Len(proposals) /\ NewestId \in DOMAIN proposals
<1>1. proposals \in Seq(Proposal) /\ proposals # <<>>
  BY DEF TypeOK, Unreadable
<1>. QED
  BY <1>1 DEF NewestId

\* What was proposed before the start.
LEMMA FirstProposalsType ==
    /\ FirstProposals \in Seq(Proposal)
    /\ \A p \in DOMAIN FirstProposals :
         /\ ~FirstProposals[p].own
         /\ FirstProposals[p].unelect = {}
         /\ FirstProposals[p].version \in FirstElected \cup {NoVersion, NotGuestOS}
<1>. DEFINE Early == [version : FirstElected \cup {NoVersion, NotGuestOS},
                     unelect : {{}}, post : Release \X Nat, own : {FALSE}]
<1>1. FirstProposals \in Seq(Early)
  BY VersionAssumption
<1>2. \A q \in Early : /\ q \in Proposal /\ ~q.own /\ q.unelect = {}
                       /\ q.version \in FirstElected \cup {NoVersion, NotGuestOS}
  BY VersionAssumption DEF Proposal, Subject
<1>. HIDE DEF Early
<1>. QED
  BY <1>1, <1>2

LEMMA UnelectedType ==
    ASSUME TypeOK
    PROVE  Unelected \in SUBSET Version
BY DEF TypeOK, Unelected, VersionsToUnelect

-----------------------------------------------------------------------------
(* The steps of the iteration keep the types. *)

LEMMA StepTyped ==
    ASSUME Typed, Step \/ StartOver
    PROVE  Typed'
<1>. USE DEF PC
<1>1. CASE ReadIndex
  <2>1. it' = [it EXCEPT !.pc = "active", !.index = index]
    BY <1>1 DEF ReadIndex
  <2>2. it' \in Iteration /\ it'.pc = "active" /\ it'.i = it.i
    BY <2>1 DEF Typed, TypeOK, Iteration
  <2>. QED
    BY <1>1, <2>2, OnlyIteration DEF ReadIndex, Typed, TypeOK, Within
<1>2. CASE ReadActive
  BY <1>2, ReadActiveType, OnlyIteration DEF ReadActive, Typed, TypeOK
<1>3. CASE OpenTopic
  <2>1. it' \in Iteration /\ Within' /\ failures' \in Nat
    BY <1>3, MovesOn DEF OpenTopic
  <2>2. <<FirstPost>> \in Seq(Post)
    BY DEF FirstPost, Post
  <2>3. topic' \in [Release -> Seq(Post)]
    BY <1>3, <2>2 DEF OpenTopic, Typed, TypeOK
  <2>. QED
    BY <1>3, <2>1, <2>3 DEF OpenTopic, Typed, TypeOK, world, people, state
<1>4. CASE Announce
  <2>1. PICK k \in 0..Len(VersionsHere) :
          /\ topic' = [topic EXCEPT ![it.release] = UpdatedPosts(k)]
          /\ Went(k = Len(VersionsHere), "tags")
    BY <1>4 DEF Announce
  <2>2. it' \in Iteration /\ Within' /\ failures' \in Nat
    BY <1>4, <2>1, MovesOn DEF Announce, Went
  <2>3. UpdatedPosts(k) \in Seq(Post)
    BY <1>4, UpdatedPostsType DEF Announce
  <2>. QED
    BY <1>4, <2>1, <2>2, <2>3, ForumStep DEF Announce
<1>5. CASE Refresh
  <2>1. PICK k \in 0..Len(VersionsHere) :
          /\ topic' = [topic EXCEPT ![it.release] = UpdatedPosts(k)]
          /\ IF k = Len(VersionsHere) THEN NextRelease /\ UNCHANGED failures ELSE CutShort
    BY <1>5 DEF Refresh
  <2>2. it' \in Iteration /\ Within' /\ failures' \in Nat
    BY <1>5, <2>1, MovesOn, NextReleaseType DEF Refresh, Typed, TypeOK
  <2>3. UpdatedPosts(k) \in Seq(Post)
    BY <1>5, UpdatedPostsType DEF Refresh
  <2>. QED
    BY <1>5, <2>1, <2>2, <2>3, ForumStep DEF Refresh
<1>6. CASE PushTags
  <2>1. PICK k \in 0..Len(VersionsHere) :
          /\ tags' = tags \cup {VersionsHere[j] : j \in 1..k}
          /\ Went(k = Len(VersionsHere), "notes")
    BY <1>6 DEF PushTags
  <2>2. it' \in Iteration /\ Within' /\ failures' \in Nat
    BY <1>6, <2>1, MovesOn DEF PushTags, Went
  <2>3. tags' \subseteq Version
    BY <1>6, <2>1, ThisType DEF PushTags, Typed, TypeOK
  <2>. QED
    BY <1>6, <2>2, <2>3 DEF PushTags, Typed, TypeOK, world, people, state
<1>7. CASE IndexError
  BY <1>7, MovesOn, OnlyIteration DEF IndexError, Typed, TypeOK
<1>8. CASE EnsureNotes
  <2>1. it' \in Iteration /\ Within' /\ failures' \in Nat
    BY <1>8, MovesOn DEF EnsureNotes
  <2>2. notes' \in [Version -> {"none", "draft", "reviewed"}]
    BY <1>8 DEF EnsureNotes, Typed, TypeOK
  <2>. QED
    BY <1>8, <2>1, <2>2 DEF EnsureNotes, Typed, TypeOK, world, outside, state
<1>9. CASE PublishIfReady
  <2>1. it' \in Iteration /\ Within' /\ failures' \in Nat
    BY <1>9, MovesOn DEF PublishIfReady, Went
  <2>2. pull' \in [Version -> {"none", "branch", "file", "open", "merged"}]
    BY <1>9, ThisType DEF PublishIfReady, Onward, Typed, TypeOK
  <2>. QED
    BY <1>9, <2>1, <2>2 DEF PublishIfReady, Typed, TypeOK, world, outside, state
<1>10. CASE Skip
  BY <1>10, NextVersionType, OnlyIteration DEF Skip, Typed, TypeOK
<1>11. CASE WasSubmitted
  BY <1>11, MovesOn, OnlyIteration DEF WasSubmitted
<1>12. CASE Mark
  <2>1. it' = [it EXCEPT !.pc = "place", !.unelect = Unelected]
    BY <1>12 DEF Mark
  <2>2. it' \in Iteration /\ it'.pc = "place" /\ it'.i = it.i
        /\ it'.release = it.release /\ it'.index = it.index
    BY <2>1, UnelectedType DEF Typed, TypeOK, Iteration
  <2>3. Within'
    BY <1>12, <2>2 DEF Mark, Typed, Within, VersionsHere
  <2>4. marked' \subseteq Version
    BY <1>12, ThisType DEF Mark, Typed, TypeOK
  <2>. QED
    BY <1>12, <2>2, <2>3, <2>4 DEF Mark, Typed, TypeOK, world, people, outside
<1>13. CASE PlaceProposal
  <2>1. it' \in Iteration /\ Within' /\ failures' \in Nat
    BY <1>13, MovesOn DEF PlaceProposal
  <2>2. OwnProposal \in Proposal
    BY <1>13, OwnProposalType DEF PlaceProposal
  <2>3. /\ proposals' \in Seq(Proposal)
        /\ adopted \subseteq DOMAIN proposals'
        /\ saved \in [Version -> 0..Len(proposals')]
    BY <1>13, <2>2, ProposalsGrow DEF PlaceProposal, Typed
  <2>. QED
    BY <1>13, <2>1, <2>3 DEF PlaceProposal, Typed, TypeOK, world, people, state
<1>14. CASE SaveProposal
  <2>1. it' \in Iteration /\ Within'
    BY <1>14, MovesOn, NextVersionType DEF SaveProposal
  <2>2. saved' \in [Version -> 0..Len(proposals)]
    BY <1>14, ThisType, NewestIdType DEF SaveProposal, Typed, TypeOK
  <2>. QED
    BY <1>14, <2>1, <2>2 DEF SaveProposal, Typed, TypeOK, world, people, outside
<1>15. CASE StartOver
  BY <1>15, MovesOn, OnlyIteration DEF StartOver
<1>. QED
  BY <1>1, <1>2, <1>3, <1>4, <1>5, <1>6, <1>7, <1>8, <1>9, <1>10, <1>11, <1>12, <1>13, <1>14,
     <1>15 DEF Step

\* The steps of people, governance and the network do, too.
LEMMA WorldStepTyped ==
    ASSUME Typed, WorldStep
    PROVE  Typed'
<1>. USE DEF Typed, TypeOK, controller, world, people, state
<1>1. UNCHANGED it => UNCHANGED Within
  BY DEF Within, VersionsHere
<1>2. UNCHANGED controller
  BY DEF WorldStep, ListVersion, RemoveVersion, Review, Merge, Adopt, Deploy, Retire, ProposeByHand
<1>3. ASSUME NEW r \in Release, ListVersion(r)
      PROVE  Typed'
  <2>1. index[r] \in Seq(Version) /\ Releases[r] \in Seq(Version)
    BY ReleaseAssumption DEF Release
  <2>. DEFINE n == Len(index[r]) + 1
  <2>2. n \in 1..Len(Releases[r])
    BY <1>3, <2>1 DEF ListVersion
  <2>3. Append(index[r], Releases[r][n]) \in Seq(Version)
    BY <2>1, <2>2
  <2>4. index' \in [Release -> Seq(Version)]
    BY <1>3, <2>3 DEF ListVersion
  <2>. QED
    BY <1>1, <1>2, <1>3, <2>4 DEF ListVersion
<1>4. ASSUME NEW r \in Release, NEW i \in DOMAIN index[r], RemoveVersion(r, i)
      PROVE  Typed'
  <2>1. index[r] \in Seq(Version) /\ i \in 1..Len(index[r])
    OBVIOUS
  <2>2. /\ SubSeq(index[r], 1, i - 1) \in Seq(Version)
        /\ SubSeq(index[r], i + 1, Len(index[r])) \in Seq(Version)
    BY <2>1
  <2>3. SubSeq(index[r], 1, i - 1) \o SubSeq(index[r], i + 1, Len(index[r])) \in Seq(Version)
    BY <2>2
  <2>4. index' \in [Release -> Seq(Version)]
    BY <1>4, <2>3 DEF RemoveVersion
  <2>. QED
    BY <1>1, <1>2, <1>4, <2>4 DEF RemoveVersion
<1>5. ASSUME NEW v \in Version, Review(v) \/ Merge(v) \/ Deploy(v) \/ Retire(v)
      PROVE  Typed'
  BY <1>1, <1>2, <1>5 DEF Review, Merge, Deploy, Retire
<1>6. ASSUME NEW p \in DOMAIN proposals, Adopt(p)
      PROVE  Typed'
  <2>1. proposals[p] \in Proposal
    OBVIOUS
  <2>2. elected' \subseteq Version /\ adopted' \subseteq DOMAIN proposals
    BY <1>6, <2>1 DEF Adopt, Proposal
  <2>. QED
    BY <1>1, <1>2, <1>6, <2>2 DEF Adopt
<1>7. ASSUME NEW v \in Subject, ProposeByHand(v)
      PROVE  Typed'
  <2>1. 1 \in Release
    BY ReleaseAssumption DEF Release
  <2>2. [version |-> v, unelect |-> {}, post |-> <<1, 0>>, own |-> FALSE] \in Proposal
    BY <1>7, <2>1 DEF Proposal, Subject
  <2>3. /\ proposals' \in Seq(Proposal)
        /\ adopted \subseteq DOMAIN proposals'
        /\ saved \in [Version -> 0..Len(proposals')]
    BY <1>7, <2>2, ProposalsGrow DEF ProposeByHand
  <2>. QED
    BY <1>1, <1>2, <1>7, <2>3 DEF ProposeByHand
<1>. QED
  BY <1>3, <1>4, <1>5, <1>6, <1>7 DEF WorldStep

LEMMA InitTyped == Init => Typed
<1>. SUFFICES ASSUME Init
              PROVE  Typed
  OBVIOUS
<1>1. it \in Iteration /\ Within
  BY IdleType DEF Init, Within
<1>2. index \in [Release -> Seq(Version)]
  BY ReleaseAssumption DEF Init, Release
<1>3. topic \in [Release -> Seq(Post)] /\ proposals \in Seq(Proposal) /\ adopted \subseteq DOMAIN proposals
  BY FirstProposalsType DEF Init, NoIndex
<1>4. saved \in [Version -> 0..Len(proposals)] /\ failures \in Nat
  BY FirstProposalsType DEF Init
<1>. QED
  BY <1>1, <1>2, <1>3, <1>4, VersionAssumption DEF Init, Typed, TypeOK

LEMMA TypedInvariant == Spec => []Typed
<1>1. Typed /\ [Next]_vars => Typed'
  <2>. SUFFICES ASSUME Typed, [Next]_vars
                PROVE  Typed'
    OBVIOUS
  <2>1. CASE UNCHANGED vars
    BY <2>1 DEF vars, world, people, outside, state, Typed, TypeOK, Within, VersionsHere
  <2>. QED
    BY <2>1, StepTyped, WorldStepTyped DEF Next
<1>. QED
  BY <1>1, InitTyped, PTL DEF Spec

\* Whatever fails and whoever acts, the stores keep their types: ids that are
\* saved are ids of proposals, and the release at hand is one of the index.
THEOREM TypeCorrect == Spec => []TypeOK
BY TypedInvariant, PTL DEF Typed

-----------------------------------------------------------------------------
(* One proposal for a version.  The file of the version is created first, so *)
(* whatever has a proposal has a file, and what is about to be proposed has *)
(* a file but no proposal.                                                  *)

OwnFor(v) == {p \in DOMAIN proposals : proposals[p].own /\ proposals[p].version = v}

MarkedFirst == \A v \in Version : OwnFor(v) # {} => v \in marked

AboutToPropose == it.pc = "place" => This \in marked /\ OwnFor(This) = {}

OnceInv == OneOwnProposal /\ MarkedFirst /\ AboutToPropose

\* A proposal by hand is a further one and not the controller's.
LEMMA ByHandIsNotOwn ==
    ASSUME Typed, NEW v \in Subject, ProposeByHand(v)
    PROVE  /\ DOMAIN proposals' = DOMAIN proposals \cup {Len(proposals) + 1}
           /\ \A q \in DOMAIN proposals : proposals'[q] = proposals[q]
           /\ ~proposals'[Len(proposals) + 1].own
<1>. DEFINE new == [version |-> v, unelect |-> {}, post |-> <<1, 0>>, own |-> FALSE]
<1>1. 1 \in Release
  BY ReleaseAssumption DEF Release
<1>2. new \in Proposal /\ ~new.own
  BY <1>1 DEF Proposal, Subject
<1>3. proposals' = Append(proposals, new)
  BY DEF ProposeByHand
<1>. HIDE DEF new
<1>. QED
  BY <1>2, <1>3, ProposalsGrow DEF Typed

\* The step puts no proposal of the controller.
LEMMA OwnForUnchanged ==
    ASSUME Typed, UNCHANGED proposals \/ \E v \in Subject : ProposeByHand(v)
    PROVE  /\ \A v \in Version : OwnFor(v)' = OwnFor(v)
           /\ OneOwnProposal => OneOwnProposal'
<1>1. CASE UNCHANGED proposals
  BY <1>1 DEF OwnFor, OneOwnProposal
<1>2. ASSUME NEW v \in Subject, ProposeByHand(v)
      PROVE  /\ \A w \in Version : OwnFor(w)' = OwnFor(w)
             /\ OneOwnProposal => OneOwnProposal'
  BY <1>2, ByHandIsNotOwn DEF OwnFor, OneOwnProposal
<1>. QED
  BY <1>1, <1>2

\* Where the iteration and what it has read stay, so does the version at hand.
LEMMA ThisUnchanged == UNCHANGED it => This' = This /\ VersionsHere' = VersionsHere
BY DEF This, VersionsHere

\* Of all the steps only Mark leads to the proposal.
LEMMA OtherStepsLeadElsewhere ==
    ASSUME Typed, Step \/ StartOver, ~Mark
    PROVE  it'.pc # "place" /\ (PlaceProposal \/ UNCHANGED proposals) /\ UNCHANGED marked
<1>. USE DEF Typed, TypeOK, Iteration, world, people, outside, state, Abort, GoTo, CutShort
<1>. USE IdleType
<1>1. CASE ReadIndex \/ IndexError \/ StartOver
  BY <1>1 DEF ReadIndex, IndexError, StartOver
<1>2. CASE ReadActive
  <2>1. it'.pc \in {"start", "topic"}
    BY <1>2 DEF ReadActive
  <2>. QED
    BY <1>2, <2>1 DEF ReadActive
<1>3. CASE OpenTopic \/ Announce \/ PushTags
  BY <1>3 DEF OpenTopic, Announce, PushTags, Went
<1>4. CASE Refresh
  <2>1. CutShort \/ NextRelease
    BY <1>4 DEF Refresh
  <2>2. it'.pc \in {"start", "topic"}
    BY <2>1 DEF NextRelease, BeginRelease
  <2>. QED
    BY <1>4, <2>2 DEF Refresh
<1>5. CASE EnsureNotes \/ PublishIfReady
  BY <1>5 DEF EnsureNotes, PublishIfReady, Went
<1>6. CASE Skip \/ WasSubmitted
  BY <1>6 DEF Skip, WasSubmitted, NextVersion
<1>7. CASE PlaceProposal
  BY <1>7 DEF PlaceProposal
<1>8. CASE SaveProposal
  <2>1. Abort \/ NextVersion
    BY <1>8 DEF SaveProposal
  <2>2. it'.pc \in {"start", "tags", "refresh"}
    BY <2>1 DEF NextVersion
  <2>. QED
    BY <1>8, <2>2 DEF SaveProposal
<1>. QED
  BY <1>1, <1>2, <1>3, <1>4, <1>5, <1>6, <1>7, <1>8 DEF Step

LEMMA PlaceProposalOnce ==
    ASSUME Typed, OnceInv, PlaceProposal
    PROVE  OneOwnProposal' /\ MarkedFirst'
<1>1. /\ This \in Version /\ This \in marked /\ OwnFor(This) = {}
      /\ UNCHANGED marked /\ OwnProposal.own /\ OwnProposal.version = This
  BY ThisType DEF PlaceProposal, OnceInv, AboutToPropose, OwnProposal, state
<1>2. /\ proposals \in Seq(Proposal) /\ Len(proposals) + 1 \notin DOMAIN proposals
      /\ DOMAIN proposals' = DOMAIN proposals \cup {Len(proposals) + 1}
      /\ \A q \in DOMAIN proposals : proposals'[q] = proposals[q]
      /\ proposals'[Len(proposals) + 1] = OwnProposal
  BY OwnProposalType, ProposalsGrow DEF PlaceProposal, Typed, TypeOK
<1>3. MarkedFirst'
  BY <1>1, <1>2 DEF MarkedFirst, OnceInv, OwnFor
<1>4. OneOwnProposal'
  BY <1>1, <1>2 DEF OneOwnProposal, OnceInv, OwnFor
<1>. QED
  BY <1>3, <1>4

LEMMA MarkOnce ==
    ASSUME Typed, OnceInv, Mark
    PROVE  OnceInv'
<1>1. /\ it' = [it EXCEPT !.pc = "place", !.unelect = Unelected]
      /\ This \notin marked /\ marked' = marked \cup {This} /\ UNCHANGED proposals
      /\ This \in Version
  BY ThisType DEF Mark, outside
<1>2. This' = This
  BY <1>1 DEF This, VersionsHere, Typed, TypeOK, Iteration
<1>3. OneOwnProposal' /\ \A v \in Version : OwnFor(v)' = OwnFor(v)
  BY <1>1, OwnForUnchanged DEF OnceInv
<1>4. OwnFor(This) = {}
  BY <1>1 DEF OnceInv, MarkedFirst
<1>5. MarkedFirst'
  BY <1>1, <1>3 DEF OnceInv, MarkedFirst
<1>6. OwnFor(This)' = {}
  BY <1>1, <1>2, <1>4 DEF OwnFor
<1>7. AboutToPropose'
  BY <1>1, <1>2, <1>6 DEF AboutToPropose
<1>. QED
  BY <1>3, <1>5, <1>7 DEF OnceInv

LEMMA OnceStep ==
    ASSUME Typed, OnceInv, [Next]_vars
    PROVE  OnceInv'
<1>1. CASE Mark
  BY <1>1, MarkOnce
<1>2. CASE (Step \/ StartOver) /\ ~Mark
  <2>1. it'.pc # "place" /\ UNCHANGED marked
    BY <1>2, OtherStepsLeadElsewhere
  <2>2. CASE PlaceProposal
    BY <2>1, <2>2, PlaceProposalOnce DEF OnceInv, AboutToPropose
  <2>3. CASE UNCHANGED proposals
    BY <2>1, <2>3, OwnForUnchanged DEF OnceInv, MarkedFirst, AboutToPropose
  <2>. QED
    BY <1>2, <2>2, <2>3, OtherStepsLeadElsewhere
<1>3. CASE WorldStep \/ UNCHANGED vars
  <2>1. /\ UNCHANGED <<it, marked>>
        /\ UNCHANGED proposals \/ \E v \in Subject : ProposeByHand(v)
    BY <1>3 DEF vars, state, outside, controller, WorldStep, ListVersion, RemoveVersion, Review,
       Merge, Adopt, Deploy, Retire, ProposeByHand
  <2>2. OneOwnProposal' /\ \A v \in Version : OwnFor(v)' = OwnFor(v)
    BY <2>1, OwnForUnchanged DEF OnceInv
  <2>3. it.pc = "place" => This' = This /\ This \in Version
    BY <2>1, ThisType, ThisUnchanged
  <2>4. it.pc = "place" => OwnFor(This)' = OwnFor(This)
    BY <2>2, <2>3 DEF OwnFor
  <2>. QED
    BY <2>1, <2>2, <2>3, <2>4 DEF OnceInv, MarkedFirst, AboutToPropose
<1>. QED
  BY <1>1, <1>2, <1>3 DEF Next

\* The controller never submits a second election proposal for a version,
\* whatever raises, restarts or is killed between two of its steps.
THEOREM ProposedOnce == Spec => []OneOwnProposal
<1>1. Init => OnceInv
  BY FirstProposalsType DEF Init, Idle, OnceInv, OneOwnProposal, MarkedFirst, OwnFor, AboutToPropose
<1>. QED
  BY <1>1, OnceStep, TypedInvariant, PTL DEF Spec, OnceInv

-----------------------------------------------------------------------------
(* Proposed only when prepared: the tags of a release are pushed before one *)
(* of its versions is looked at, and what is merged stays merged.           *)

TagsPushed == it.pc \in {"notes", "publish", "gate", "place", "list"} =>
                \A j \in 1..Len(VersionsHere) : VersionsHere[j] \in tags

MergedFirst == it.pc = "place" => pull[This] = "merged"

PreparedInv == ProposedIsPrepared /\ TagsPushed /\ MergedFirst

LEMMA MergedStaysMerged ==
    ASSUME Typed, [Next]_vars
    PROVE  tags \subseteq tags' /\ \A v \in Version : pull[v] = "merged" => pull'[v] = "merged"
<1>1. CASE PublishIfReady
  BY <1>1, ThisType DEF PublishIfReady, Onward, Typed, TypeOK, outside
<1>2. CASE PushTags
  BY <1>2 DEF PushTags, people
<1>3. CASE (Step \/ StartOver) /\ ~PublishIfReady /\ ~PushTags
  BY <1>3 DEF Step, ReadIndex, ReadActive, OpenTopic, Announce, Refresh, IndexError, EnsureNotes,
     Skip, WasSubmitted, Mark, PlaceProposal, SaveProposal, StartOver, people, outside
<1>4. CASE WorldStep
  BY <1>4 DEF WorldStep, ListVersion, RemoveVersion, Review, Merge, Adopt, Deploy, Retire,
     ProposeByHand, controller, people, Typed, TypeOK
<1>5. CASE UNCHANGED vars
  BY <1>5 DEF vars, people, outside
<1>. QED
  BY <1>1, <1>2, <1>3, <1>4, <1>5 DEF Next

LEMMA PlacePrepared ==
    ASSUME Typed, PreparedInv, PlaceProposal
    PROVE  ProposedIsPrepared'
<1>1. /\ This \in Version /\ pull[This] = "merged" /\ This \in tags
      /\ UNCHANGED <<pull, tags>> /\ OwnProposal.version = This
  BY ThisType DEF PlaceProposal, PreparedInv, MergedFirst, TagsPushed, OwnProposal, people, This,
     Typed, Within
<1>2. /\ DOMAIN proposals' = DOMAIN proposals \cup {Len(proposals) + 1}
      /\ \A q \in DOMAIN proposals : proposals'[q] = proposals[q]
      /\ proposals'[Len(proposals) + 1] = OwnProposal
  BY OwnProposalType, ProposalsGrow DEF PlaceProposal, Typed
<1>. QED
  BY <1>1, <1>2 DEF ProposedIsPrepared, PreparedInv

AfterTags == {"notes", "publish", "gate", "place", "list"}

\* A version is worked on only after the tags of its release were pushed.
LEMMA TagsComeFirst ==
    ASSUME Typed, Step \/ StartOver
    PROVE  \/ it'.pc \notin AfterTags
           \/ PushTags
           \/ it.pc \in AfterTags /\ VersionsHere' = VersionsHere
<1>. USE IdleType
<1>. USE DEF Typed, TypeOK, Iteration, Abort, GoTo, CutShort, AfterTags, VersionsHere
<1>1. CASE ReadIndex \/ IndexError \/ StartOver \/ OpenTopic
  BY <1>1 DEF ReadIndex, IndexError, StartOver, OpenTopic
<1>2. CASE ReadActive
  BY <1>2 DEF ReadActive
<1>3. CASE Announce
  BY <1>3 DEF Announce, Went
<1>4. CASE Refresh
  <2>1. CutShort \/ NextRelease
    BY <1>4 DEF Refresh
  <2>2. CASE CutShort
    BY <2>2
  <2>3. CASE NextRelease
    <3>1. Abort \/ \E r : BeginRelease(r)
      BY <2>3 DEF NextRelease
    <3>2. CASE Abort
      BY <3>2
    <3>3. CASE \E r : BeginRelease(r)
      BY <3>3 DEF BeginRelease
    <3>. QED
      BY <3>1, <3>2, <3>3
  <2>. QED
    BY <2>1, <2>2, <2>3
<1>5. CASE EnsureNotes \/ PublishIfReady
  BY <1>5 DEF EnsureNotes, PublishIfReady, Went
<1>6. CASE Skip \/ WasSubmitted
  <2>1. CASE Skip
    <3>1. NextVersion
      BY <2>1 DEF Skip
    <3>2. it'.pc \in {"tags", "refresh"}
      BY <3>1 DEF NextVersion
    <3>. QED
      BY <3>2
  <2>2. CASE WasSubmitted
    BY <2>2 DEF WasSubmitted
  <2>. QED
    BY <1>6, <2>1, <2>2
<1>7. CASE Mark \/ PlaceProposal
  BY <1>7 DEF Mark, PlaceProposal
<1>8. CASE SaveProposal
  <2>1. Abort \/ NextVersion
    BY <1>8 DEF SaveProposal
  <2>2. CASE Abort
    BY <2>2
  <2>3. CASE NextVersion
    <3>1. CASE it.i < Len(VersionsHere)
      <4>1. it'.pc = "tags"
        BY <2>3, <3>1 DEF NextVersion
      <4>. QED
        BY <4>1
    <3>2. CASE ~(it.i < Len(VersionsHere))
      <4>1. it'.pc = "refresh"
        BY <2>3, <3>2 DEF NextVersion
      <4>. QED
        BY <4>1
    <3>. QED
      BY <3>1, <3>2
  <2>. QED
    BY <2>1, <2>2, <2>3
<1>. QED
  BY <1>1, <1>2, <1>3, <1>4, <1>5, <1>6, <1>7, <1>8 DEF Step

LEMMA TagsPushedStep ==
    ASSUME Typed, TagsPushed, [Next]_vars
    PROVE  TagsPushed'
<1>1. tags \subseteq tags'
  BY MergedStaysMerged
<1>2. CASE PushTags
  <2>1. PICK k \in 0..Len(VersionsHere) :
          /\ tags' = tags \cup {VersionsHere[j] : j \in 1..k}
          /\ Went(k = Len(VersionsHere), "notes")
    BY <1>2 DEF PushTags
  <2>2. CASE k = Len(VersionsHere)
    <3>1. VersionsHere' = VersionsHere
      BY <2>1, <2>2 DEF Went, GoTo, VersionsHere, Typed, TypeOK, Iteration
    <3>. QED
      BY <2>1, <2>2, <3>1 DEF TagsPushed
  <2>3. CASE k # Len(VersionsHere)
    BY <2>1, <2>3, IdleType DEF Went, CutShort, Abort, TagsPushed
  <2>. QED
    BY <2>2, <2>3
<1>3. CASE (Step \/ StartOver) /\ ~PushTags
  BY <1>1, <1>3, TagsComeFirst DEF AfterTags, TagsPushed
<1>4. CASE WorldStep \/ UNCHANGED vars
  <2>1. UNCHANGED it
    BY <1>4 DEF vars, controller, WorldStep, ListVersion, RemoveVersion, Review,
       Merge, Adopt, Deploy, Retire, ProposeByHand
  <2>. QED
    BY <1>1, <2>1, ThisUnchanged DEF TagsPushed
<1>. QED
  BY <1>2, <1>3, <1>4 DEF Next

LEMMA PreparedStep ==
    ASSUME Typed, PreparedInv, [Next]_vars
    PROVE  PreparedInv'
<1>1. /\ tags \subseteq tags'
      /\ \A v \in Version : pull[v] = "merged" => pull'[v] = "merged"
  BY MergedStaysMerged
<1>2. ASSUME UNCHANGED proposals
      PROVE  ProposedIsPrepared'
  BY <1>1, <1>2 DEF PreparedInv, ProposedIsPrepared, Typed, TypeOK
<1>3. ASSUME NEW v \in Subject, ProposeByHand(v)
      PROVE  ProposedIsPrepared'
  <2>1. /\ DOMAIN proposals' = DOMAIN proposals \cup {Len(proposals) + 1}
        /\ \A q \in DOMAIN proposals : proposals'[q] = proposals[q]
        /\ ~proposals'[Len(proposals) + 1].own
    BY <1>3, ByHandIsNotOwn
  <2>. QED
    BY <1>1, <2>1 DEF PreparedInv, ProposedIsPrepared, Typed, TypeOK
<1>4. TagsPushed'
  BY TagsPushedStep DEF PreparedInv
<1>5. CASE Mark
  <2>1. /\ it' = [it EXCEPT !.pc = "place", !.unelect = Unelected]
        /\ pull[This] = "merged" /\ UNCHANGED <<proposals, pull>>
    BY <1>5 DEF Mark, outside, people
  <2>2. This' = This
    BY <2>1 DEF This, VersionsHere, Typed, TypeOK, Iteration
  <2>. QED
    BY <1>2, <1>4, <2>1, <2>2 DEF PreparedInv, MergedFirst
<1>6. CASE (Step \/ StartOver) /\ ~Mark
  <2>1. it'.pc # "place" /\ (PlaceProposal \/ UNCHANGED proposals)
    BY <1>6, OtherStepsLeadElsewhere
  <2>. QED
    BY <1>2, <1>4, <2>1, PlacePrepared DEF PreparedInv, MergedFirst
<1>7. CASE WorldStep \/ UNCHANGED vars
  <2>1. /\ UNCHANGED it
        /\ UNCHANGED proposals \/ \E v \in Subject : ProposeByHand(v)
    BY <1>7 DEF vars, state, outside, controller, WorldStep, ListVersion, RemoveVersion, Review,
       Merge, Adopt, Deploy, Retire, ProposeByHand
  <2>2. MergedFirst'
    BY <1>1, <2>1, ThisType, ThisUnchanged DEF PreparedInv, MergedFirst
  <2>. QED
    BY <1>2, <1>3, <1>4, <2>1, <2>2 DEF PreparedInv
<1>. QED
  BY <1>5, <1>6, <1>7 DEF Next

\* What the controller proposes has its release notes on the main branch and its
\* tag pushed, at the time of the proposal and ever after.
THEOREM ProposedWhenPrepared == Spec => []ProposedIsPrepared
<1>1. Init => PreparedInv
  BY FirstProposalsType DEF Init, Idle, PreparedInv, ProposedIsPrepared, TagsPushed, MergedFirst
<1>. QED
  BY <1>1, PreparedStep, TypedInvariant, PTL DEF Spec, PreparedInv

-----------------------------------------------------------------------------
(* What is still to be un-elected is not needed any more.  A version is     *)
(* upcoming while the index may still get it, and deployable while subnets  *)
(* may be upgraded to it; the versions that a proposal un-elects are        *)
(* neither, and stay so: releases are not taken up again, and the oldest    *)
(* one that the network runs is never left for an older one.                *)

IsPrefix(idx, r) == idx[r] = SubSeq(Releases[r], 1, Len(idx[r]))

Upcoming(idx) == {v \in Version : \E r \in Release : /\ IsPrefix(idx, r)
                                                     /\ v \in Range(Releases[r]) \ Listed(idx, r)}

FromReleases(idx) == \A r \in Release : Listed(idx, r) \subseteq Range(Releases[r])

\* A version belongs to one release, at one place.
VersionsOnce == \A r, q \in Release : \A i \in DOMAIN Releases[r], j \in DOMAIN Releases[q] :
                  Releases[r][i] = Releases[q][j] => r = q /\ i = j

\* What was elected before is not taken for a coming version.
NothingElectedEarly == \A r \in Release \ FirstListed : Range(Releases[r]) \cap FirstElected = {}

NetworkListed(idx, act) == \E r \in Release : Listed(idx, r) \cap act # {}

LEMMA ReleasesType ==
    ASSUME TypeOK, NEW r \in Release
    PROVE  /\ Releases[r] \in Seq(Version) /\ index[r] \in Seq(Version)
           /\ Len(Releases[r]) \in Nat /\ DOMAIN Releases[r] = 1..Len(Releases[r])
           /\ Len(index[r]) \in Nat /\ DOMAIN index[r] = 1..Len(index[r])
BY ReleaseAssumption DEF TypeOK, Release

LEMMA OnePlace ==
    ASSUME VersionsOnce, NEW r \in Release, NEW i \in DOMAIN Releases[r], NEW j \in DOMAIN Releases[r],
           Releases[r][i] = Releases[r][j]
    PROVE  i = j
BY DEF VersionsOnce

LEMMA Joined ==
    ASSUME NEW s \in Seq(Version), NEW t \in Seq(Version)
    PROVE  /\ Len(s \o t) = Len(s) + Len(t) /\ DOMAIN (s \o t) = 1..(Len(s) + Len(t))
           /\ \A j \in 1..Len(s) : (s \o t)[j] = s[j]
           /\ \A j \in (Len(s) + 1)..(Len(s) + Len(t)) : (s \o t)[j] = t[j - Len(s)]
OBVIOUS

\* A release gets a version that was upcoming.
LEMMA IndexGrows ==
    ASSUME TypeOK, VersionsOnce, FromReleases(index), NEW r \in Release, ListVersion(r)
    PROVE  /\ FromReleases(index') /\ Upcoming(index') \subseteq Upcoming(index)
           /\ \A q \in Release : /\ Listed(index, q) \subseteq Listed(index', q)
                                 /\ Listed(index', q) \subseteq Listed(index, q) \cup Upcoming(index)
<1>. DEFINE n == Len(index[r])
            w == Releases[r][n + 1]
<1>1. /\ IsPrefix(index, r) /\ n < Len(Releases[r])
      /\ index' = [index EXCEPT ![r] = Append(@, w)]
  BY DEF ListVersion, Grows, IsPrefix
<1>2. /\ index'[r] = Append(index[r], w) /\ \A q \in Release \ {r} : index'[q] = index[q]
      /\ index[r] \in Seq(Version) /\ n \in Nat /\ DOMAIN index[r] = 1..n
  BY <1>1, ReleasesType DEF TypeOK
<1>3. n + 1 \in DOMAIN Releases[r] /\ w \in Version /\ w \in Range(Releases[r])
  BY <1>1, <1>2, ReleasesType DEF Range
<1>4. w \notin Listed(index, r)
  <2>. SUFFICES ASSUME NEW j \in 1..n, index[r][j] = w
                PROVE  FALSE
    BY <1>2 DEF Listed, Range
  <2>1. j \in DOMAIN Releases[r] /\ index[r][j] = Releases[r][j] /\ j # n + 1
    BY <1>1, <1>2, ReleasesType DEF IsPrefix
  <2>2. Releases[r][j] = Releases[r][n + 1]
    BY <2>1
  <2>. QED
    BY <1>3, <2>1, <2>2, OnePlace
<1>5. w \in Upcoming(index)
  BY <1>1, <1>3, <1>4 DEF Upcoming
<1>6. Listed(index', r) = Listed(index, r) \cup {w}
  <2>1. /\ DOMAIN index'[r] = 1..(n + 1) /\ index'[r][n + 1] = w
        /\ \A j \in 1..n : index'[r][j] = index[r][j]
    BY <1>2, <1>3
  <2>. HIDE DEF w
  <2>. QED
    BY <1>2, <2>1 DEF Listed, Range
<1>. HIDE DEF w
<1>7. \A q \in Release \ {r} : Listed(index', q) = Listed(index, q)
  BY <1>2 DEF Listed
<1>8. FromReleases(index')
  BY <1>3, <1>6, <1>7 DEF FromReleases
<1>9. Upcoming(index') \subseteq Upcoming(index)
  BY <1>1, <1>2, <1>6 DEF Upcoming, IsPrefix, Listed
<1>. QED
  BY <1>5, <1>6, <1>7, <1>8, <1>9

\* A version that nobody runs is taken out; its release gets no other.
LEMMA IndexShrinks ==
    ASSUME TypeOK, VersionsOnce, FromReleases(index), NEW r \in Release, NEW i \in DOMAIN index[r],
           RemoveVersion(r, i)
    PROVE  /\ FromReleases(index') /\ Upcoming(index') \subseteq Upcoming(index)
           /\ \A q \in Release : /\ Listed(index, q) \cap active \subseteq Listed(index', q)
                                 /\ Listed(index', q) \subseteq Listed(index, q)
<1>. DEFINE n == Len(index[r])
            rest == SubSeq(index[r], 1, i - 1) \o SubSeq(index[r], i + 1, n)
<1>1. /\ i < n /\ index[r][i] \notin active /\ index[r] = Releases[r]
      /\ index' = [index EXCEPT ![r] = rest]
  BY DEF RemoveVersion
<1>2. /\ index'[r] = rest /\ \A q \in Release \ {r} : index'[q] = index[q]
      /\ index[r] \in Seq(Version) /\ n \in Nat /\ DOMAIN index[r] = 1..n
  BY <1>1, ReleasesType DEF TypeOK
<1>3. /\ Len(rest) = n - 1 /\ DOMAIN rest = 1..(n - 1)
      /\ \A j \in 1..(i - 1) : rest[j] = index[r][j]
      /\ \A j \in i..(n - 1) : rest[j] = index[r][j + 1]
  <2>. DEFINE before == SubSeq(index[r], 1, i - 1)
              after  == SubSeq(index[r], i + 1, n)
  <2>0. i \in Nat /\ i >= 1 /\ i < n
    BY <1>1, <1>2
  <2>1. /\ before \in Seq(Version) /\ Len(before) = i - 1
        /\ \A j \in 1..(i - 1) : before[j] = index[r][j]
    BY <1>2, <2>0
  <2>2. /\ after \in Seq(Version) /\ Len(after) = n - i
        /\ \A j \in 1..(n - i) : after[j] = index[r][i + j]
    BY <1>2, <2>0
  <2>. HIDE DEF before, after
  <2>3. rest = before \o after
    BY DEF before, after
  <2>. HIDE DEF rest
  <2>4. /\ Len(rest) = n - 1 /\ DOMAIN rest = 1..(n - 1)
        /\ \A j \in 1..(i - 1) : rest[j] = before[j]
        /\ \A j \in i..(n - 1) : rest[j] = after[j - (i - 1)]
    <3>1. (i - 1) + (n - i) = n - 1 /\ (i - 1) + 1 = i
      BY <1>2, <2>0
    <3>2. /\ Len(before \o after) = Len(before) + Len(after)
          /\ DOMAIN (before \o after) = 1..(Len(before) + Len(after))
          /\ \A j \in 1..Len(before) : (before \o after)[j] = before[j]
          /\ \A j \in (Len(before) + 1)..(Len(before) + Len(after)) :
               (before \o after)[j] = after[j - Len(before)]
      BY <2>1, <2>2, Joined
    <3>. QED
      BY <2>1, <2>2, <2>3, <3>1, <3>2
  <2>5. ASSUME NEW j \in i..(n - 1)
        PROVE  rest[j] = index[r][j + 1]
    <3>1. j - (i - 1) \in 1..(n - i) /\ i + (j - (i - 1)) = j + 1
      BY <1>2, <2>0
    <3>. QED
      BY <2>2, <2>4, <3>1
  <2>. QED
    BY <2>1, <2>4, <2>5
<1>. HIDE DEF rest
<1>4. Listed(index, r) = {index[r][k] : k \in 1..n} /\ Listed(index', r) = {rest[j] : j \in 1..(n - 1)}
  BY <1>2, <1>3 DEF Listed, Range
<1>5. Listed(index', r) \subseteq Listed(index, r)
  <2>. SUFFICES ASSUME NEW j \in 1..(n - 1)
                PROVE  \E k \in 1..n : rest[j] = index[r][k]
    BY <1>4
  <2>1. i \in Nat /\ (j \in 1..(i - 1) \/ j \in i..(n - 1))
    BY <1>2
  <2>2. j \in 1..n /\ j + 1 \in 1..n
    BY <1>2
  <2>. QED
    BY <1>3, <2>1, <2>2
<1>6. Listed(index, r) \cap active \subseteq Listed(index', r)
  <2>. SUFFICES ASSUME NEW k \in 1..n, index[r][k] \in active
                PROVE  \E j \in 1..(n - 1) : rest[j] = index[r][k]
    BY <1>4
  <2>1. CASE k < i
    <3>1. k \in 1..(i - 1) /\ k \in 1..(n - 1)
      BY <1>1, <1>2, <2>1
    <3>. QED
      BY <1>3, <3>1
  <2>2. CASE k > i
    <3>1. k - 1 \in i..(n - 1) /\ k - 1 \in 1..(n - 1) /\ (k - 1) + 1 = k
      BY <1>1, <1>2, <2>2
    <3>. QED
      BY <1>3, <3>1
  <2>. QED
    BY <1>1, <1>2, <2>1, <2>2
<1>7. ~IsPrefix(index', r)
  <2>. SUFFICES ASSUME IsPrefix(index', r)
                PROVE  FALSE
    OBVIOUS
  <2>1. rest = SubSeq(Releases[r], 1, n - 1)
    BY <1>2, <1>3 DEF IsPrefix
  <2>2. rest[i] = Releases[r][i]
    BY <1>1, <1>2, <2>1
  <2>3. rest[i] = Releases[r][i + 1] /\ i + 1 \in DOMAIN Releases[r] /\ i \in DOMAIN Releases[r]
    BY <1>1, <1>2, <1>3
  <2>4. i # i + 1
    BY <1>2
  <2>. QED
    BY <2>2, <2>3, <2>4, OnePlace
<1>8. \A q \in Release \ {r} : Listed(index', q) = Listed(index, q)
  BY <1>2 DEF Listed
<1>9. FromReleases(index')
  BY <1>5, <1>8 DEF FromReleases
<1>10. Upcoming(index') \subseteq Upcoming(index)
  BY <1>2, <1>7, <1>8 DEF Upcoming, IsPrefix
<1>. QED
  BY <1>5, <1>6, <1>8, <1>9, <1>10

-----------------------------------------------------------------------------
\* The versions subnets may be upgraded to.
Deployable(idx, act) == {v \in Version : \E r \in Release :
                           r <= OldestActive(idx, act) /\ v \in Listed(idx, r)}

LEMMA ReleaseNumbers == Release \subseteq Nat
BY ReleaseAssumption DEF Release

LEMMA OldestType ==
    ASSUME NEW idx, NEW act, NetworkListed(idx, act)
    PROVE  /\ OldestActive(idx, act) \in Release
           /\ Listed(idx, OldestActive(idx, act)) \cap act # {}
           /\ \A r \in Release : Listed(idx, r) \cap act # {} => r <= OldestActive(idx, act)
<1>. DEFINE S == {r \in Release : Listed(idx, r) \cap act # {}}
<1>1. Len(Releases) \in Nat /\ S \in SUBSET (1..Len(Releases)) /\ S # {}
  BY ReleaseAssumption DEF Release, NetworkListed
<1>2. Max(S) \in S /\ \A r \in S : r <= Max(S)
  <2>. HIDE DEF S
  <2>. QED
    BY <1>1, MaxType
<1>3. OldestActive(idx, act) = Max(S)
  BY DEF OldestActive
<1>. HIDE DEF OldestActive
<1>. QED
  BY <1>2, <1>3

\* The oldest release of a network that runs nothing older is not older.
LEMMA OldestIsNoOlder ==
    ASSUME NEW idx, NEW act, NetworkListed(idx, act), NEW idx2, NEW act2, NetworkListed(idx2, act2),
           \A r \in Release : Listed(idx2, r) \cap act2 # {} => r <= OldestActive(idx, act)
    PROVE  OldestActive(idx2, act2) <= OldestActive(idx, act)
BY OldestType

\* What a proposal un-elects is none of the versions subnets may be upgraded to.
LEMMA CurrentListed ==
    ASSUME NEW idx \in [Release -> Seq(Version)], NEW act, NetworkListed(idx, act),
           NEW v \in Deployable(idx, act)
    PROVE  v \in UNION {Listed(idx, r) : r \in Current(idx, act)}
<1>1. PICK r \in Release : r <= OldestActive(idx, act) /\ v \in Listed(idx, r)
  BY DEF Deployable
<1>2. idx[r] # <<>>
  BY <1>1 DEF Listed, Range
<1>3. r \in Current(idx, act)
  BY <1>1, <1>2 DEF Current
<1>. QED
  BY <1>1, <1>3

-----------------------------------------------------------------------------
(* How the world changes under what the controller has read and proposed.   *)

NetworkInv == /\ NetworkListed(index, active)
              /\ FromReleases(index)
              /\ active \subseteq elected
              /\ elected \subseteq marked
              /\ marked \cap Upcoming(index) = {}

Down == /\ NetworkListed(index', active')
        /\ FromReleases(index')
        /\ Upcoming(index') \subseteq Upcoming(index)
        /\ \A r \in Release : Listed(index', r) \subseteq Listed(index, r) \cup Upcoming(index)
        /\ OldestActive(index', active') <= OldestActive(index, active)
        /\ active' \subseteq active \cup Deployable(index, active)

LEMMA NothingChanges ==
    ASSUME NetworkInv, UNCHANGED <<index, active>>
    PROVE  Down
<1>1. OldestActive(index, active) \in Nat
  BY OldestType, ReleaseNumbers DEF NetworkInv
<1>. QED
  BY <1>1 DEF Down, NetworkInv

LEMMA DeployGoesDown ==
    ASSUME Typed, VersionsOnce, NetworkInv, NEW v \in Version, Deploy(v)
    PROVE  Down
<1>1. PICK r \in Current(index, active) : v \in Listed(index, r)
  BY DEF Deploy
<1>2. r \in Release /\ r <= OldestActive(index, active) /\ active' = active \cup {v} /\ index' = index
  BY <1>1 DEF Current, Deploy
<1>3. OldestActive(index, active) \in Release
  BY OldestType DEF NetworkInv
<1>4. NetworkListed(index, active')
  BY <1>2 DEF NetworkInv, NetworkListed
<1>5. ASSUME NEW q \in Release, Listed(index, q) \cap active' # {}
      PROVE  q <= OldestActive(index, active)
  <2>1. CASE Listed(index, q) \cap active # {}
    BY <2>1, OldestType DEF NetworkInv
  <2>2. CASE v \in Listed(index, q)
    <3>1. v \in Range(Releases[q]) /\ v \in Range(Releases[r])
      BY <1>1, <1>2, <2>2 DEF NetworkInv, FromReleases
    <3>2. q = r
      BY <1>2, <3>1 DEF VersionsOnce, Range
    <3>. QED
      BY <1>2, <3>2
  <2>. QED
    BY <1>2, <1>5, <2>1, <2>2
<1>6. OldestActive(index, active') <= OldestActive(index, active)
  BY <1>4, <1>5, OldestIsNoOlder DEF NetworkInv
<1>7. v \in Deployable(index, active)
  BY <1>1, <1>2 DEF Deployable
<1>. QED
  BY <1>2, <1>4, <1>6, <1>7 DEF Down, NetworkInv

\* Nothing an upgrade or a change of the index does takes up an older release.
LEMMA WorldGoesDown ==
    ASSUME Typed, VersionsOnce, NetworkInv, WorldStep
    PROVE  Down
<1>1. ASSUME NEW r \in Release, ListVersion(r)
      PROVE  Down
  <2>1. /\ FromReleases(index') /\ Upcoming(index') \subseteq Upcoming(index) /\ active' = active
        /\ \A q \in Release : /\ Listed(index, q) \subseteq Listed(index', q)
                              /\ Listed(index', q) \subseteq Listed(index, q) \cup Upcoming(index)
    BY <1>1, IndexGrows DEF NetworkInv, Typed, ListVersion
  <2>2. active \cap Upcoming(index) = {}
    BY DEF NetworkInv
  <2>3. NetworkListed(index', active')
    BY <2>1 DEF NetworkInv, NetworkListed
  <2>4. \A q \in Release : Listed(index', q) \cap active' # {} => q <= OldestActive(index, active)
    BY <2>1, <2>2, OldestType DEF NetworkInv
  <2>5. OldestActive(index', active') <= OldestActive(index, active)
    BY <2>3, <2>4, OldestIsNoOlder DEF NetworkInv
  <2>. QED
    BY <2>1, <2>3, <2>5 DEF Down
<1>2. ASSUME NEW r \in Release, NEW i \in DOMAIN index[r], RemoveVersion(r, i)
      PROVE  Down
  <2>1. /\ FromReleases(index') /\ Upcoming(index') \subseteq Upcoming(index) /\ active' = active
        /\ \A q \in Release : /\ Listed(index, q) \cap active \subseteq Listed(index', q)
                              /\ Listed(index', q) \subseteq Listed(index, q)
    BY <1>2, IndexShrinks DEF NetworkInv, Typed, RemoveVersion
  <2>2. NetworkListed(index', active')
    BY <2>1 DEF NetworkInv, NetworkListed
  <2>3. \A q \in Release : Listed(index', q) \cap active' # {} => q <= OldestActive(index, active)
    BY <2>1, OldestType DEF NetworkInv
  <2>4. OldestActive(index', active') <= OldestActive(index, active)
    BY <2>2, <2>3, OldestIsNoOlder DEF NetworkInv
  <2>. QED
    BY <2>1, <2>2, <2>4 DEF Down
<1>3. ASSUME NEW v \in Version, Retire(v)
      PROVE  Down
  <2>1. active' = active \ {v} /\ index' = index /\ NetworkListed(index, active')
    BY <1>3 DEF Retire, NetworkListed
  <2>2. \A q \in Release : Listed(index, q) \cap active' # {} => q <= OldestActive(index, active)
    BY <2>1, OldestType DEF NetworkInv
  <2>3. OldestActive(index, active') <= OldestActive(index, active)
    BY <2>1, <2>2, OldestIsNoOlder DEF NetworkInv
  <2>. QED
    BY <2>1, <2>3 DEF Down, NetworkInv
<1>4. CASE UNCHANGED <<index, active>>
  BY <1>4, NothingChanges
<1>5. \/ UNCHANGED <<index, active>>
      \/ \E r \in Release : ListVersion(r) \/ \E i \in DOMAIN index[r] : RemoveVersion(r, i)
      \/ \E v \in Version : Deploy(v) \/ Retire(v)
  BY DEF WorldStep, Review, Merge, Adopt, ProposeByHand, world
<1>. QED
  BY <1>1, <1>2, <1>3, <1>4, <1>5, DeployGoesDown

-----------------------------------------------------------------------------
(* The invariant: what was read and what was proposed still hold against    *)
(* the world as it is.                                                      *)

NoUse(vs) == vs \cap (active \cup Deployable(index, active) \cup Upcoming(index)) = {}

ProposalsInv == /\ NoUse(it.unelect)
                /\ \A p \in DOMAIN proposals : NoUse(proposals[p].unelect)
                /\ \A p \in DOMAIN proposals : proposals[p].version \in marked \cup {NoVersion, NotGuestOS}

\* The index that the iteration has read.
IndexRead == /\ FromReleases(it.index)
             /\ Upcoming(index) \subseteq Upcoming(it.index)
             /\ \A r \in Release : Listed(index, r) \subseteq Listed(it.index, r) \cup Upcoming(it.index)
             /\ marked \cap Upcoming(it.index) = {}

\* The network as the iteration has seen it.
NetworkRead == /\ NetworkListed(it.index, it.active)
               /\ active \subseteq it.active \cup Deployable(it.index, it.active)
               /\ OldestActive(index, active) <= OldestActive(it.index, it.active)

ViewInv == /\ it.pc # "start" => IndexRead
           /\ it.pc \notin {"start", "active"} => NetworkRead

UseInv == NetworkInv /\ ProposalsInv /\ ViewInv

LEMMA NoUseStays ==
    ASSUME Down, NEW vs, NoUse(vs), NetworkInv
    PROVE  NoUse(vs)'
<1>1. OldestActive(index, active) \in Nat /\ OldestActive(index', active') \in Nat
  BY OldestType, ReleaseNumbers DEF NetworkInv, Down
<1>2. Deployable(index', active') \subseteq Deployable(index, active) \cup Upcoming(index)
  BY <1>1, ReleaseNumbers DEF Deployable, Down
<1>. QED
  BY <1>2 DEF NoUse, Down

\* The versions that a proposal will un-elect, computed from what was read.
LEMMA UnelectedIsUnused ==
    ASSUME Typed, NetworkInv, IndexRead, NetworkRead
    PROVE  NoUse(Unelected)
<1>1. it.index \in [Release -> Seq(Version)]
  BY DEF Typed, TypeOK, Iteration
<1>2. /\ OldestActive(index, active) \in Nat /\ OldestActive(it.index, it.active) \in Nat
      /\ OldestActive(index, active) <= OldestActive(it.index, it.active)
  BY OldestType, ReleaseNumbers DEF NetworkInv, NetworkRead
<1>. SUFFICES ASSUME NEW v \in Unelected
              PROVE  v \notin active /\ v \notin Deployable(index, active) /\ v \notin Upcoming(index)
  BY DEF NoUse
<1>3. /\ v \in elected /\ v \in marked /\ v \notin it.active
      /\ v \notin UNION {Listed(it.index, r) : r \in Current(it.index, it.active)}
  BY DEF Unelected, VersionsToUnelect, NetworkInv
<1>4. v \notin Deployable(it.index, it.active)
  BY <1>1, <1>3, CurrentListed DEF NetworkRead
<1>5. v \notin Upcoming(it.index)
  BY <1>3 DEF IndexRead
<1>6. v \notin active /\ v \notin Upcoming(index)
  BY <1>3, <1>4, <1>5 DEF NetworkRead, IndexRead
<1>7. v \notin Deployable(index, active)
  BY <1>2, <1>4, <1>5, ReleaseNumbers DEF Deployable, IndexRead
<1>. QED
  BY <1>6, <1>7

LEMMA AdoptKeepsUse ==
    ASSUME Typed, NetworkInv, ProposalsInv, NEW p \in DOMAIN proposals, Adopt(p)
    PROVE  active' \subseteq elected' /\ elected' \subseteq marked'
<1>1. /\ proposals[p].version \in marked
      /\ elected' = (elected \ proposals[p].unelect) \cup {proposals[p].version}
      /\ UNCHANGED <<active, marked>>
  BY VersionAssumption DEF Adopt, ProposalsInv, controller, state
<1>2. proposals[p].unelect \cap active = {}
  BY DEF ProposalsInv, NoUse
<1>. QED
  BY <1>1, <1>2 DEF NetworkInv

LEMMA ByHandUsesNothing ==
    ASSUME Typed, NEW v \in Subject, ProposeByHand(v)
    PROVE  /\ DOMAIN proposals' = DOMAIN proposals \cup {Len(proposals) + 1}
           /\ \A q \in DOMAIN proposals : proposals'[q] = proposals[q]
           /\ proposals'[Len(proposals) + 1].unelect = {}
           /\ proposals'[Len(proposals) + 1].version \in marked \cup {NoVersion, NotGuestOS}
<1>. DEFINE new == [version |-> v, unelect |-> {}, post |-> <<1, 0>>, own |-> FALSE]
<1>1. 1 \in Release
  BY ReleaseAssumption DEF Release
<1>2. new \in Proposal /\ new.unelect = {} /\ new.version = v
  BY <1>1 DEF Proposal, Subject
<1>3. proposals' = Append(proposals, new) /\ v \in marked \cup {NoVersion, NotGuestOS}
  BY DEF ProposeByHand, Subject
<1>. HIDE DEF new
<1>. QED
  BY <1>2, <1>3, ProposalsGrow DEF Typed

LEMMA WorldKeepsUse ==
    ASSUME Typed, VersionsOnce, UseInv, WorldStep
    PROVE  UseInv'
<1>. USE DEF UseInv
<1>1. Down
  BY WorldGoesDown
<1>2. UNCHANGED <<it, marked>>
  BY DEF WorldStep, ListVersion, RemoveVersion, Review, Merge, Adopt, Deploy, Retire,
     ProposeByHand, controller, state
<1>3. active' \subseteq elected' /\ elected' \subseteq marked'
  <2>1. CASE \E p \in DOMAIN proposals : Adopt(p)
    BY <2>1, AdoptKeepsUse
  <2>2. CASE \E v \in Version : Deploy(v)
    BY <1>2, <2>2 DEF Deploy, NetworkInv
  <2>3. CASE \E v \in Version : Retire(v)
    BY <1>2, <2>3 DEF Retire, NetworkInv
  <2>4. \/ UNCHANGED <<active, elected>>
        \/ \E p \in DOMAIN proposals : Adopt(p)
        \/ \E v \in Version : Deploy(v) \/ Retire(v)
    BY DEF WorldStep, ListVersion, RemoveVersion, Review, Merge, ProposeByHand, world
  <2>. QED
    BY <1>2, <2>1, <2>2, <2>3, <2>4 DEF NetworkInv
<1>4. NetworkInv'
  BY <1>1, <1>2, <1>3 DEF NetworkInv, Down
<1>5. ProposalsInv'
  <2>1. NoUse(it.unelect)'
    BY <1>1, <1>2, NoUseStays DEF ProposalsInv
  <2>2. CASE UNCHANGED proposals
    <3>1. \A p \in DOMAIN proposals : NoUse(proposals[p].unelect)'
      BY <1>1, <2>2, NoUseStays DEF ProposalsInv
    <3>. QED
      BY <1>2, <2>1, <2>2, <3>1 DEF ProposalsInv
  <2>3. ASSUME NEW v \in Subject, ProposeByHand(v)
        PROVE  ProposalsInv'
    <3>1. /\ DOMAIN proposals' = DOMAIN proposals \cup {Len(proposals) + 1}
          /\ \A q \in DOMAIN proposals : proposals'[q] = proposals[q]
          /\ proposals'[Len(proposals) + 1].unelect = {}
          /\ proposals'[Len(proposals) + 1].version \in marked \cup {NoVersion, NotGuestOS}
      BY <2>3, ByHandUsesNothing
    <3>2. ASSUME NEW p \in DOMAIN proposals'
          PROVE  NoUse(proposals[p].unelect)'
      <4>1. CASE p \in DOMAIN proposals
        BY <1>1, <3>1, <4>1, NoUseStays DEF ProposalsInv
      <4>2. CASE p = Len(proposals) + 1
        BY <3>1, <4>2 DEF NoUse
      <4>. QED
        BY <3>1, <4>1, <4>2
    <3>. QED
      BY <1>2, <2>1, <3>1, <3>2 DEF ProposalsInv
  <2>4. UNCHANGED proposals \/ \E v \in Subject : ProposeByHand(v)
    BY DEF WorldStep, ListVersion, RemoveVersion, Review, Merge, Adopt, Deploy, Retire
  <2>. QED
    BY <2>2, <2>3, <2>4
<1>6. ASSUME it.pc # "start"
      PROVE  IndexRead'
  BY <1>1, <1>2, <1>6 DEF ViewInv, IndexRead, Down
<1>7. ASSUME it.pc \notin {"start", "active"}
      PROVE  NetworkRead'
  <2>1. IndexRead /\ NetworkRead
    BY <1>7 DEF ViewInv
  <2>2. /\ OldestActive(index, active) \in Nat /\ OldestActive(index', active') \in Nat
        /\ OldestActive(it.index, it.active) \in Nat
    BY <1>1, <2>1, OldestType, ReleaseNumbers DEF NetworkInv, NetworkRead, Down
  <2>3. ASSUME NEW v \in Deployable(index, active), v \in marked
        PROVE  v \in Deployable(it.index, it.active)
    <3>1. PICK r \in Release : r <= OldestActive(index, active) /\ v \in Listed(index, r)
      BY DEF Deployable
    <3>2. v \in Listed(it.index, r)
      BY <2>1, <2>3, <3>1 DEF IndexRead
    <3>. QED
      BY <2>1, <2>2, <3>1, <3>2, ReleaseNumbers DEF NetworkRead, Deployable
  <2>4. active' \subseteq marked
    BY <1>2, <1>3
  <2>. QED
    BY <1>1, <1>2, <2>1, <2>2, <2>3, <2>4 DEF NetworkRead, Down
<1>. QED
  BY <1>2, <1>4, <1>5, <1>6, <1>7 DEF ViewInv

\* The other steps of the iteration forget what was read, or keep all of it.
LEMMA OtherStepsKeepView ==
    ASSUME Typed, Step \/ StartOver, ~ReadIndex, ~ReadActive, ~Mark
    PROVE  /\ UNCHANGED <<world, marked>>
           /\ PlaceProposal \/ UNCHANGED proposals
           /\ \/ it' = Idle
              \/ /\ it'.index = it.index /\ it'.active = it.active
                 /\ it'.unelect \in {it.unelect, {}}
                 /\ it.pc \notin {"start", "active"}
<1>. USE DEF Typed, TypeOK, Iteration, people, outside, state, Abort, GoTo, CutShort
<1>1. CASE IndexError \/ StartOver
  BY <1>1 DEF IndexError, StartOver
<1>2. CASE OpenTopic \/ Announce \/ PushTags
  BY <1>2 DEF OpenTopic, Announce, PushTags, Went
<1>3. CASE Refresh
  <2>1. CutShort \/ NextRelease
    BY <1>3 DEF Refresh
  <2>2. \/ it' = Idle
        \/ it'.index = it.index /\ it'.active = it.active /\ it'.unelect = it.unelect
    BY <2>1 DEF NextRelease, BeginRelease
  <2>. QED
    BY <1>3, <2>2 DEF Refresh
<1>4. CASE EnsureNotes \/ PublishIfReady
  BY <1>4 DEF EnsureNotes, PublishIfReady, Went
<1>5. CASE Skip \/ WasSubmitted
  BY <1>5 DEF Skip, WasSubmitted, NextVersion
<1>6. CASE PlaceProposal
  BY <1>6 DEF PlaceProposal
<1>7. CASE SaveProposal
  <2>1. Abort \/ NextVersion
    BY <1>7 DEF SaveProposal
  <2>2. \/ it' = Idle
        \/ it'.index = it.index /\ it'.active = it.active /\ it'.unelect = {}
    BY <2>1 DEF NextVersion
  <2>. QED
    BY <1>7, <2>2 DEF SaveProposal
<1>. QED
  BY <1>1, <1>2, <1>3, <1>4, <1>5, <1>6, <1>7 DEF Step

LEMMA IdleKeepsUse ==
    ASSUME UseInv, UNCHANGED <<world, marked, proposals>>, it' = Idle
    PROVE  UseInv'
<1>1. Idle.pc = "start" /\ Idle.unelect = {}
  BY DEF Idle
<1>2. NoUse(it.unelect)' /\ \A p \in DOMAIN proposals : NoUse(proposals[p].unelect)'
  BY <1>1 DEF UseInv, ProposalsInv, NoUse, world
<1>. QED
  BY <1>1, <1>2 DEF UseInv, NetworkInv, ProposalsInv, ViewInv, world

LEMMA ViewKept ==
    ASSUME Typed, UseInv, UNCHANGED <<world, marked>>, it.pc \notin {"start", "active"},
           it'.index = it.index, it'.active = it.active
    PROVE  NetworkInv' /\ ViewInv'
<1>1. NetworkInv'
  BY DEF UseInv, NetworkInv, world
<1>2. IndexRead'
  BY DEF UseInv, ViewInv, IndexRead, world
<1>3. NetworkRead'
  BY DEF UseInv, ViewInv, NetworkRead, world
<1>. QED
  BY <1>1, <1>2, <1>3 DEF ViewInv

LEMMA ReadIndexKeepsUse ==
    ASSUME Typed, UseInv, ReadIndex
    PROVE  UseInv'
<1>1. /\ UNCHANGED <<index, active, elected, marked, proposals>>
      /\ it'.index = index /\ it'.pc = "active" /\ it'.unelect = it.unelect
  BY DEF ReadIndex, world, state, outside, Typed, TypeOK, Iteration
<1>2. NetworkInv'
  BY <1>1 DEF UseInv, NetworkInv
<1>3. ProposalsInv'
  BY <1>1 DEF UseInv, ProposalsInv, NoUse
<1>4. IndexRead'
  BY <1>1 DEF UseInv, NetworkInv, IndexRead
<1>. QED
  BY <1>1, <1>2, <1>3, <1>4 DEF UseInv, ViewInv

LEMMA ReadActiveKeepsUse ==
    ASSUME Typed, UseInv, ReadActive
    PROVE  UseInv'
<1>1. /\ UNCHANGED <<index, active, elected, marked, proposals>> /\ UNCHANGED world
      /\ it.pc = "active"
  BY DEF ReadActive, world, state, outside
<1>2. CASE it' = Idle
  BY <1>1, <1>2, IdleKeepsUse
<1>3. CASE it' # Idle
  <2>1. /\ it'.index = it.index /\ it'.active = active /\ it'.unelect = it.unelect
        /\ NetworkListed(it.index, active)
    BY <1>3 DEF ReadActive, Typed, TypeOK, Iteration, NetworkListed
  <2>2. IndexRead /\ NetworkInv
    BY <1>1 DEF UseInv, ViewInv
  <2>3. \A r \in Release : Listed(index, r) \cap active # {} => r <= OldestActive(it.index, active)
    <3>1. \A r \in Release : Listed(index, r) \cap active # {} => Listed(it.index, r) \cap active # {}
      BY <2>2 DEF IndexRead, NetworkInv
    <3>. QED
      BY <2>1, <3>1, OldestType
  <2>4. OldestActive(index, active) <= OldestActive(it.index, active)
    BY <2>1, <2>2, <2>3, OldestIsNoOlder DEF NetworkInv
  <2>5. NetworkInv' /\ IndexRead' /\ NetworkRead'
    BY <1>1, <2>1, <2>2, <2>4 DEF NetworkInv, IndexRead, NetworkRead
  <2>6. ProposalsInv'
    BY <1>1, <2>1 DEF UseInv, ProposalsInv, NoUse
  <2>. QED
    BY <2>5, <2>6 DEF UseInv, ViewInv
<1>. QED
  BY <1>2, <1>3

LEMMA MarkKeepsUse ==
    ASSUME Typed, VersionsOnce, UseInv, Mark
    PROVE  UseInv'
<1>1. /\ UNCHANGED <<index, active, elected, proposals>> /\ marked' = marked \cup {This}
      /\ it.pc = "gate"
      /\ it'.index = it.index /\ it'.active = it.active /\ it'.unelect = Unelected /\ it'.pc = "place"
  BY DEF Mark, world, outside, Typed, TypeOK, Iteration
<1>2. NetworkInv /\ IndexRead /\ NetworkRead /\ ProposalsInv
  BY <1>1 DEF UseInv, ViewInv
<1>3. NoUse(Unelected)
  BY <1>2, UnelectedIsUnused
<1>4. This \notin Upcoming(it.index)
  <2>1. it.release \in Release /\ This \in Listed(it.index, it.release)
    BY <1>1, ThisType DEF Typed, Within, This, VersionsHere, Listed, Range, TypeOK, Iteration
  <2>2. This \in Range(Releases[it.release])
    BY <1>2, <2>1 DEF IndexRead, FromReleases
  <2>3. \A r \in Release : This \in Range(Releases[r]) => r = it.release
    BY <2>1, <2>2 DEF VersionsOnce, Range
  <2>. QED
    BY <2>1, <2>3 DEF Upcoming
<1>5. This \notin Upcoming(index)
  BY <1>2, <1>4 DEF IndexRead
<1>6. NetworkInv' /\ IndexRead'
  BY <1>1, <1>2, <1>4, <1>5 DEF NetworkInv, IndexRead
<1>7. NetworkRead'
  BY <1>1, <1>2 DEF NetworkRead
<1>8. ProposalsInv'
  <2>1. NoUse(it.unelect)' /\ \A p \in DOMAIN proposals : NoUse(proposals[p].unelect)'
    BY <1>1, <1>2, <1>3 DEF ProposalsInv, NoUse
  <2>. QED
    BY <1>1, <1>2, <2>1 DEF ProposalsInv
<1>. QED
  BY <1>6, <1>7, <1>8 DEF UseInv, ViewInv

LEMMA PlaceKeepsUse ==
    ASSUME Typed, OnceInv, UseInv, PlaceProposal
    PROVE  ProposalsInv'
<1>1. /\ it.pc = "place" /\ UNCHANGED <<index, active, marked>>
      /\ it'.unelect \in {it.unelect, {}}
  BY DEF PlaceProposal, world, state, GoTo, CutShort, Abort, Idle, Typed, TypeOK, Iteration
<1>2. /\ DOMAIN proposals' = DOMAIN proposals \cup {Len(proposals) + 1}
      /\ \A q \in DOMAIN proposals : proposals'[q] = proposals[q]
      /\ proposals'[Len(proposals) + 1] = OwnProposal
  BY <1>1, OwnProposalType, ProposalsGrow DEF PlaceProposal, Typed
<1>3. OwnProposal.unelect = it.unelect /\ OwnProposal.version \in marked
  BY <1>1 DEF OwnProposal, OnceInv, AboutToPropose
<1>4. NoUse(it.unelect)'
  BY <1>1 DEF UseInv, ProposalsInv, NoUse
<1>5. \A p \in DOMAIN proposals' : NoUse(proposals[p].unelect)'
  BY <1>1, <1>2, <1>3 DEF UseInv, ProposalsInv, NoUse
<1>6. \A p \in DOMAIN proposals' : proposals'[p].version \in marked' \cup {NoVersion, NotGuestOS}
  BY <1>1, <1>2, <1>3 DEF UseInv, ProposalsInv
<1>. QED
  BY <1>4, <1>5, <1>6 DEF ProposalsInv

LEMMA UseStep ==
    ASSUME Typed, VersionsOnce, OnceInv, UseInv, [Next]_vars
    PROVE  UseInv'
<1>1. CASE (Step \/ StartOver) /\ ~ReadIndex /\ ~ReadActive /\ ~Mark
  <2>1. /\ UNCHANGED <<world, marked>>
        /\ PlaceProposal \/ UNCHANGED proposals
        /\ \/ it' = Idle
           \/ /\ it'.index = it.index /\ it'.active = it.active
              /\ it'.unelect \in {it.unelect, {}}
              /\ it.pc \notin {"start", "active"}
    BY <1>1, OtherStepsKeepView
  <2>2. NetworkInv' /\ ViewInv'
    <3>1. CASE it' = Idle
      <4>1. NetworkInv'
        BY <2>1 DEF UseInv, NetworkInv, world
      <4>. QED
        BY <3>1, <4>1 DEF Idle, ViewInv
    <3>. QED
      BY <2>1, <3>1, ViewKept
  <2>3. CASE PlaceProposal
    BY <2>2, <2>3, PlaceKeepsUse DEF UseInv
  <2>4. CASE UNCHANGED proposals
    <3>1. NoUse(it.unelect)' /\ \A p \in DOMAIN proposals : NoUse(proposals[p].unelect)'
      BY <2>1, <2>4 DEF UseInv, ProposalsInv, NoUse, world, Idle
    <3>. QED
      BY <2>1, <2>2, <2>4, <3>1 DEF UseInv, ProposalsInv
  <2>. QED
    BY <2>1, <2>3, <2>4
<1>2. CASE UNCHANGED vars
  BY <1>2 DEF vars, world, outside, state, UseInv, NetworkInv, ProposalsInv, ViewInv, IndexRead,
     NetworkRead, NoUse
<1>. QED
  BY <1>1, <1>2, ReadIndexKeepsUse, ReadActiveKeepsUse, MarkKeepsUse, WorldKeepsUse DEF Next

\* What the controller reads first.  The network runs a listed release, and no
\* version is elected before the index lists it.
FirstNetworkListed == \E r \in FirstListed : Range(Releases[r]) \cap FirstActive # {}

LEMMA InitUse ==
    ASSUME FirstNetworkListed, NothingElectedEarly, Init
    PROVE  UseInv
<1>1. /\ \A r \in Release : Listed(index, r) = IF r \in FirstListed THEN Range(Releases[r]) ELSE {}
      /\ FirstListed \subseteq Release
  BY ReleaseAssumption DEF Init, Listed, Range
<1>2. NetworkListed(index, active) /\ FromReleases(index)
  BY <1>1 DEF Init, FirstNetworkListed, NetworkListed, FromReleases
<1>3. marked \cap Upcoming(index) = {}
  BY <1>1 DEF Init, NothingElectedEarly, Upcoming
<1>4. NetworkInv
  BY <1>2, <1>3, VersionAssumption, FirstProposalsType DEF Init, NetworkInv
<1>5. /\ \A p \in DOMAIN proposals : /\ proposals[p].unelect = {}
                                     /\ proposals[p].version \in marked \cup {NoVersion, NotGuestOS}
      /\ it.unelect = {} /\ it.pc = "start"
  BY FirstProposalsType DEF Init, Idle
<1>6. ProposalsInv /\ ViewInv
  BY <1>5 DEF ProposalsInv, NoUse, ViewInv
<1>. QED
  BY <1>4, <1>6 DEF UseInv

\* Whenever the controller's proposals are adopted, however old the index and the
\* network were that it made its list from, no version in use loses its election:
\* provided that versions are listed once and not elected before.
THEOREM InUseElected ==
    VersionsOnce /\ NothingElectedEarly /\ FirstNetworkListed => (Spec => []InUseStaysElected)
<1>. SUFFICES ASSUME VersionsOnce, NothingElectedEarly, FirstNetworkListed
              PROVE  Spec => []InUseStaysElected
  OBVIOUS
<1>1. Init => OnceInv
  BY FirstProposalsType DEF Init, Idle, OnceInv, OneOwnProposal, MarkedFirst, OwnFor, AboutToPropose
<1>2. Init => UseInv
  BY InitUse
<1>3. Typed /\ OnceInv /\ UseInv /\ [Next]_vars => UseInv'
  BY UseStep
<1>4. UseInv => InUseStaysElected
  BY DEF UseInv, NetworkInv, InUseStaysElected
<1>. QED
  BY <1>1, <1>2, <1>3, <1>4, OnceStep, TypedInvariant, PTL DEF Spec

-----------------------------------------------------------------------------
(* The forum tells the truth.  Posts are found by position: as long as a    *)
(* release has only grown, its posts are in the order of its versions.      *)

SavedRight == \A v \in Version : saved[v] # 0 => proposals[saved[v]].version = v

PostsRight == \A r \in Release : \A j \in DOMAIN topic[r] :
                topic[r][j].proposal # 0 =>
                  /\ topic[r][j].proposal \in DOMAIN proposals
                  /\ proposals[topic[r][j].proposal].version = topic[r][j].version

IndexWas == it.pc # "start" => \A r \in Release : Grows(r) => IsPrefix(it.index, r)

Posted == {"tags", "notes", "publish", "gate", "place", "list", "refresh"}

PostsHere == it.pc \in Posted =>
               \A j \in 1..Len(VersionsHere) :
                 /\ j \in DOMAIN topic[it.release]
                 /\ topic[it.release][j].version = VersionsHere[j]

LinksHold == \A p \in DOMAIN proposals : \A r \in Release, i \in Nat :
               proposals[p].own /\ proposals[p].post = <<r, i>> /\ Grows(r) =>
                 /\ i \in DOMAIN topic[r]
                 /\ topic[r][i].version = proposals[p].version
                 /\ Releases[r][i] = proposals[p].version

ForumInv == SavedRight /\ PostsRight /\ IndexWas /\ PostsHere /\ LinksHold

\* A release that lost a version never looks as if it had only grown.
LEMMA GrowsNoMore ==
    ASSUME Typed, WorldStep, NEW r \in Release, Grows(r)'
    PROVE  Grows(r)
<1>1. ASSUME NEW q \in Release, ListVersion(q)
      PROVE  Grows(r)
  BY <1>1 DEF ListVersion, Grows, Typed, TypeOK
<1>2. ASSUME NEW q \in Release, NEW i \in DOMAIN index[q], RemoveVersion(q, i)
      PROVE  Grows(r)
  <2>1. index[q] = Releases[q] /\ index' = [index EXCEPT ![q] = SubSeq(@, 1, i - 1) \o SubSeq(@, i + 1, Len(@))]
    BY <1>2 DEF RemoveVersion
  <2>2. CASE r = q
    <3>1. Releases[r] = SubSeq(Releases[r], 1, Len(Releases[r]))
      BY ReleasesType DEF Typed
    <3>. QED
      BY <2>1, <2>2, <3>1 DEF Grows
  <2>3. CASE r # q
    BY <2>1, <2>3 DEF Grows, Typed, TypeOK
  <2>. QED
    BY <2>2, <2>3
<1>3. CASE UNCHANGED index
  BY <1>3 DEF Grows
<1>. QED
  BY <1>1, <1>2, <1>3 DEF WorldStep, Review, Merge, Adopt, Deploy, Retire, ProposeByHand, world

\* Further proposals do not touch what is written about the earlier ones.
LEMMA MoreProposals ==
    ASSUME Typed, ForumInv, UNCHANGED <<topic, saved>>,
           DOMAIN proposals' = DOMAIN proposals \cup {Len(proposals) + 1},
           \A q \in DOMAIN proposals : proposals'[q] = proposals[q]
    PROVE  SavedRight' /\ PostsRight'
<1>1. \A v \in Version : saved[v] # 0 => saved[v] \in DOMAIN proposals
  BY DEF Typed, TypeOK
<1>2. SavedRight'
  BY <1>1 DEF ForumInv, SavedRight
<1>3. PostsRight'
  BY DEF ForumInv, PostsRight
<1>. QED
  BY <1>2, <1>3

LEMMA WorldKeepsForum ==
    ASSUME Typed, ForumInv, WorldStep
    PROVE  ForumInv'
<1>1. UNCHANGED <<it, topic, saved>>
  BY DEF WorldStep, ListVersion, RemoveVersion, Review, Merge, Adopt, Deploy, Retire,
     ProposeByHand, controller, state
<1>2. IndexWas'
  BY <1>1, GrowsNoMore DEF ForumInv, IndexWas
<1>3. PostsHere'
  BY <1>1, ThisUnchanged DEF ForumInv, PostsHere
<1>4. ASSUME NEW p \in DOMAIN proposals, proposals'[p] = proposals[p],
             NEW r \in Release, NEW i \in Nat,
             proposals[p].own, proposals[p].post = <<r, i>>, Grows(r)'
      PROVE  /\ i \in DOMAIN topic[r]
             /\ topic[r][i].version = proposals[p].version
             /\ Releases[r][i] = proposals[p].version
  <2>1. Grows(r)
    BY <1>4, GrowsNoMore
  <2>. QED
    BY <1>4, <2>1 DEF ForumInv, LinksHold
<1>5. CASE UNCHANGED proposals
  <2>1. LinksHold'
    BY <1>1, <1>4, <1>5 DEF LinksHold
  <2>2. SavedRight' /\ PostsRight'
    BY <1>1, <1>5 DEF ForumInv, SavedRight, PostsRight
  <2>. QED
    BY <1>2, <1>3, <2>1, <2>2 DEF ForumInv
<1>6. ASSUME NEW v \in Subject, ProposeByHand(v)
      PROVE  ForumInv'
  <2>1. /\ DOMAIN proposals' = DOMAIN proposals \cup {Len(proposals) + 1}
        /\ \A q \in DOMAIN proposals : proposals'[q] = proposals[q]
        /\ ~proposals'[Len(proposals) + 1].own
    BY <1>6, ByHandIsNotOwn
  <2>3. SavedRight' /\ PostsRight'
    BY <1>1, <2>1, MoreProposals
  <2>4. LinksHold'
    BY <1>1, <1>4, <2>1 DEF LinksHold
  <2>. QED
    BY <1>2, <1>3, <2>3, <2>4 DEF ForumInv
<1>7. UNCHANGED proposals \/ \E v \in Subject : ProposeByHand(v)
  BY DEF WorldStep, ListVersion, RemoveVersion, Review, Merge, Adopt, Deploy, Retire
<1>. QED
  BY <1>5, <1>6, <1>7

\* The versions that the iteration works on are posted before.
LEMMA PostedStays ==
    ASSUME Typed, Step \/ StartOver
    PROVE  \/ it'.pc \notin Posted
           \/ Announce
           \/ it.pc \in Posted /\ VersionsHere' = VersionsHere /\ it'.release = it.release
<1>. USE IdleType
<1>. USE DEF Typed, TypeOK, Iteration, Abort, GoTo, CutShort, Posted, VersionsHere
<1>1. CASE ReadIndex \/ IndexError \/ StartOver \/ OpenTopic
  BY <1>1 DEF ReadIndex, IndexError, StartOver, OpenTopic
<1>2. CASE ReadActive
  BY <1>2 DEF ReadActive
<1>3. CASE PushTags
  BY <1>3 DEF PushTags, Went
<1>4. CASE Refresh
  <2>1. CutShort \/ NextRelease
    BY <1>4 DEF Refresh
  <2>2. it'.pc \in {"start", "topic"}
    BY <2>1 DEF NextRelease, BeginRelease
  <2>. QED
    BY <2>2
<1>5. CASE EnsureNotes \/ PublishIfReady
  BY <1>5 DEF EnsureNotes, PublishIfReady, Went
<1>6. CASE Skip \/ SaveProposal
  <2>1. it.pc \in {"gate", "list"} /\ (Abort \/ NextVersion)
    BY <1>6 DEF Skip, SaveProposal
  <2>2. it'.pc = "start" \/ (it'.index = it.index /\ it'.release = it.release)
    BY <2>1 DEF NextVersion
  <2>. QED
    BY <2>1, <2>2
<1>7. CASE WasSubmitted \/ Mark \/ PlaceProposal
  BY <1>7 DEF WasSubmitted, Mark, PlaceProposal
<1>. QED
  BY <1>1, <1>2, <1>3, <1>4, <1>5, <1>6, <1>7 DEF Step

LEMMA IndexWasStep ==
    ASSUME Typed, IndexWas, Step \/ StartOver
    PROVE  IndexWas' /\ UNCHANGED index
<1>1. CASE ReadIndex
  BY <1>1 DEF ReadIndex, world, IndexWas, Grows, IsPrefix, Typed, TypeOK, Iteration
<1>2. CASE ReadActive
  <2>1. it' = Idle \/ (it'.index = it.index /\ it.pc # "start")
    BY <1>2 DEF ReadActive, Typed, TypeOK, Iteration
  <2>. QED
    BY <1>2, <2>1, IdleType DEF ReadActive, world, IndexWas, Grows
<1>3. CASE Mark
  <2>1. it'.index = it.index /\ it.pc # "start"
    BY <1>3 DEF Mark, Typed, TypeOK, Iteration
  <2>. QED
    BY <1>3, <2>1 DEF Mark, world, IndexWas, Grows
<1>4. CASE ~ReadIndex /\ ~ReadActive /\ ~Mark
  BY <1>4, OtherStepsKeepView, IdleType DEF world, IndexWas, Grows
<1>. QED
  BY <1>1, <1>2, <1>3, <1>4

LEMMA UpdateKeepsForum ==
    ASSUME Typed, ForumInv, it.pc \notin {"start", "active"}, NEW k \in 0..Len(VersionsHere),
           topic' = [topic EXCEPT ![it.release] = UpdatedPosts(k)],
           UNCHANGED <<index, proposals, saved>>
    PROVE  /\ PostsRight' /\ LinksHold'
           /\ \A j \in 1..k : /\ j \in DOMAIN topic'[it.release]
                              /\ topic'[it.release][j].version = VersionsHere[j]
<1>. DEFINE here == it.release
            posts == topic[here]
<1>1. /\ here \in Release /\ VersionsHere \in Seq(Version) /\ Len(VersionsHere) \in Nat
      /\ posts \in Seq(Post)
  BY ThisType DEF Typed, TypeOK
<1>2. /\ topic'[here] = UpdatedPosts(k) /\ DOMAIN topic'[here] = (1..k) \cup DOMAIN posts
      /\ \A r \in Release \ {here} : topic'[r] = topic[r]
  BY <1>1 DEF UpdatedPosts, Typed, TypeOK
<1>3. \A j \in 1..k : /\ topic'[here][j].version = VersionsHere[j]
                      /\ topic'[here][j].proposal = saved[VersionsHere[j]]
                      /\ VersionsHere[j] \in Version
  <2>. SUFFICES ASSUME NEW j \in 1..k
                PROVE  /\ topic'[here][j].version = VersionsHere[j]
                       /\ topic'[here][j].proposal = saved[VersionsHere[j]]
                       /\ VersionsHere[j] \in Version
    OBVIOUS
  <2>1. topic'[here][j] = Wanted(VersionsHere[j])
    BY <1>1, <1>2 DEF UpdatedPosts
  <2>2. /\ Wanted(VersionsHere[j]).version = VersionsHere[j]
        /\ Wanted(VersionsHere[j]).proposal = saved[VersionsHere[j]]
    BY DEF Wanted
  <2>3. VersionsHere[j] \in Version
    BY <1>1
  <2>. QED
    BY <2>1, <2>2, <2>3
<1>4. \A j \in (DOMAIN posts) \ (1..k) : topic'[here][j] = posts[j]
  BY <1>1, <1>2 DEF UpdatedPosts
<1>5. PostsRight'
  <2>. SUFFICES ASSUME NEW r \in Release, NEW j \in DOMAIN topic'[r], topic'[r][j].proposal # 0
                PROVE  /\ topic'[r][j].proposal \in DOMAIN proposals
                       /\ proposals[topic'[r][j].proposal].version = topic'[r][j].version
    BY DEF PostsRight
  <2>1. CASE r = here /\ j \in 1..k
    <3>1. /\ topic'[r][j].proposal = saved[VersionsHere[j]]
          /\ topic'[r][j].version = VersionsHere[j]
      BY <1>3, <2>1
    <3>2. saved[VersionsHere[j]] \in 0..Len(proposals)
      BY <1>3, <2>1 DEF Typed, TypeOK
    <3>. QED
      BY <1>3, <2>1, <3>1, <3>2 DEF ForumInv, SavedRight, Typed, TypeOK
  <2>2. CASE ~(r = here /\ j \in 1..k)
    <3>1. j \in DOMAIN topic[r] /\ topic'[r][j] = topic[r][j]
      BY <1>2, <1>4, <2>2
    <3>. QED
      BY <3>1 DEF ForumInv, PostsRight
  <2>. QED
    BY <2>1, <2>2
<1>6. LinksHold'
  <2>. SUFFICES ASSUME NEW p \in DOMAIN proposals, NEW r \in Release, NEW i \in Nat,
                       proposals[p].own, proposals[p].post = <<r, i>>, Grows(r)
                PROVE  /\ i \in DOMAIN topic'[r]
                       /\ topic'[r][i].version = proposals[p].version
                       /\ Releases[r][i] = proposals[p].version
    BY DEF LinksHold, Grows
  <2>1. /\ i \in DOMAIN topic[r]
        /\ topic[r][i].version = proposals[p].version
        /\ Releases[r][i] = proposals[p].version
    BY DEF ForumInv, LinksHold
  <2>2. CASE r = here /\ i \in 1..k
    <3>1. topic'[r][i].version = VersionsHere[i]
      BY <1>3, <2>2
    <3>2. IsPrefix(it.index, r)
      BY DEF ForumInv, IndexWas
    <3>3. VersionsHere[i] = Releases[r][i]
      BY <1>1, <2>2, <3>2, ReleasesType DEF IsPrefix, VersionsHere, Typed
    <3>. QED
      BY <1>2, <2>1, <2>2, <3>1, <3>3
  <2>3. CASE ~(r = here /\ i \in 1..k)
    BY <1>2, <1>4, <2>1, <2>3
  <2>. QED
    BY <2>2, <2>3
<1>. QED
  BY <1>2, <1>3, <1>5, <1>6

LEMMA OpenTopicKeepsForum ==
    ASSUME Typed, ForumInv, OpenTopic
    PROVE  PostsRight' /\ LinksHold'
<1>1. UNCHANGED <<index, proposals>> /\ it.release \in Release
  BY DEF OpenTopic, world, Typed, TypeOK, Iteration
<1>2. CASE topic' = topic
  BY <1>1, <1>2 DEF ForumInv, PostsRight, LinksHold, Grows
<1>3. CASE topic[it.release] = <<>> /\ topic' = [topic EXCEPT ![it.release] = <<FirstPost>>]
  <2>1. /\ topic'[it.release] = <<FirstPost>> /\ DOMAIN topic[it.release] = {}
        /\ \A r \in Release \ {it.release} : topic'[r] = topic[r]
    BY <1>1, <1>3 DEF Typed, TypeOK
  <2>2. \A j \in DOMAIN topic'[it.release] : topic'[it.release][j].proposal = 0
    BY <2>1 DEF FirstPost
  <2>3. PostsRight'
    BY <1>1, <2>1, <2>2 DEF ForumInv, PostsRight
  <2>4. LinksHold'
    BY <1>1, <2>1 DEF ForumInv, LinksHold, Grows
  <2>. QED
    BY <2>3, <2>4
<1>. QED
  BY <1>2, <1>3 DEF OpenTopic

LEMMA PlaceKeepsLinks ==
    ASSUME Typed, ForumInv, PlaceProposal
    PROVE  SavedRight' /\ PostsRight' /\ LinksHold'
<1>1. it.pc = "place" /\ UNCHANGED <<index, topic, saved>>
  BY DEF PlaceProposal, world, state
<1>2. /\ DOMAIN proposals' = DOMAIN proposals \cup {Len(proposals) + 1}
      /\ \A q \in DOMAIN proposals : proposals'[q] = proposals[q]
      /\ proposals'[Len(proposals) + 1] = OwnProposal
  BY <1>1, OwnProposalType, ProposalsGrow DEF PlaceProposal, Typed
<1>3. OwnProposal.post = <<it.release, it.i>> /\ OwnProposal.version = This
  BY DEF OwnProposal, PostOf
<1>4. /\ it.i \in DOMAIN topic[it.release] /\ topic[it.release][it.i].version = This
      /\ it.release \in Release /\ it.i \in 1..Len(VersionsHere)
  BY <1>1, ThisType DEF ForumInv, PostsHere, Posted, This, Typed, Within
<1>5. ASSUME Grows(it.release)
      PROVE  Releases[it.release][it.i] = This
  <2>1. IsPrefix(it.index, it.release)
    BY <1>1, <1>4, <1>5 DEF ForumInv, IndexWas
  <2>. QED
    BY <1>1, <1>4, <2>1, ThisType, ReleasesType DEF IsPrefix, This, VersionsHere, Typed
<1>6. LinksHold'
  <2>. SUFFICES ASSUME NEW p \in DOMAIN proposals', NEW r \in Release, NEW i \in Nat,
                       proposals'[p].own, proposals'[p].post = <<r, i>>, Grows(r)
                PROVE  /\ i \in DOMAIN topic[r]
                       /\ topic[r][i].version = proposals'[p].version
                       /\ Releases[r][i] = proposals'[p].version
    BY <1>1 DEF LinksHold, Grows
  <2>1. CASE p \in DOMAIN proposals
    BY <1>2, <2>1 DEF ForumInv, LinksHold
  <2>2. CASE p = Len(proposals) + 1
    <3>1. r = it.release /\ i = it.i
      BY <1>2, <1>3, <2>2
    <3>. QED
      BY <1>2, <1>3, <1>4, <1>5, <2>2, <3>1
  <2>. QED
    BY <1>2, <2>1, <2>2
<1>. QED
  BY <1>1, <1>2, <1>6, MoreProposals

LEMMA SaveKeepsRight ==
    ASSUME Typed, ForumInv, SaveProposal
    PROVE  SavedRight'
<1>1. UNCHANGED proposals /\ This \in Version
  BY ThisType DEF SaveProposal, outside
<1>2. CASE saved' = saved
  BY <1>1, <1>2 DEF ForumInv, SavedRight
<1>3. CASE ~Unreadable /\ Newest = This /\ saved' = [saved EXCEPT ![This] = NewestId]
  <2>1. proposals[NewestId].version = This
    BY <1>3 DEF Newest, NewestId
  <2>. QED
    BY <1>1, <1>3, <2>1 DEF ForumInv, SavedRight, Typed, TypeOK
<1>. QED
  BY <1>2, <1>3 DEF SaveProposal

LEMMA StepKeepsForum ==
    ASSUME Typed, ForumInv, Step \/ StartOver
    PROVE  ForumInv'
<1>1. IndexWas' /\ UNCHANGED index
  BY IndexWasStep DEF ForumInv
<1>2. CASE Announce
  <2>1. PICK k \in 0..Len(VersionsHere) :
          /\ topic' = [topic EXCEPT ![it.release] = UpdatedPosts(k)]
          /\ Went(k = Len(VersionsHere), "tags")
    BY <1>2 DEF Announce
  <2>2. it.pc = "announce" /\ UNCHANGED <<proposals, saved>>
    BY <1>2 DEF Announce, state
  <2>3. /\ PostsRight' /\ LinksHold'
        /\ \A j \in 1..k : /\ j \in DOMAIN topic'[it.release]
                           /\ topic'[it.release][j].version = VersionsHere[j]
    BY <1>1, <2>1, <2>2, UpdateKeepsForum
  <2>4. PostsHere'
    <3>1. CASE k = Len(VersionsHere)
      <4>1. VersionsHere' = VersionsHere /\ it'.release = it.release
        BY <2>1, <3>1 DEF Went, GoTo, VersionsHere, Typed, TypeOK, Iteration
      <4>. QED
        BY <2>3, <3>1, <4>1 DEF PostsHere
    <3>2. CASE k # Len(VersionsHere)
      BY <2>1, <3>2, IdleType DEF Went, CutShort, Abort, PostsHere, Posted
    <3>. QED
      BY <3>1, <3>2
  <2>. QED
    BY <1>1, <2>2, <2>3, <2>4 DEF ForumInv, SavedRight
<1>3. CASE Refresh
  <2>1. PICK k \in 0..Len(VersionsHere) : topic' = [topic EXCEPT ![it.release] = UpdatedPosts(k)]
    BY <1>3 DEF Refresh
  <2>2. it.pc = "refresh" /\ UNCHANGED <<proposals, saved>> /\ (CutShort \/ NextRelease)
    BY <1>3 DEF Refresh, state
  <2>3. PostsRight' /\ LinksHold'
    BY <1>1, <2>1, <2>2, UpdateKeepsForum
  <2>4. it'.pc \in {"start", "topic"}
    BY <2>2, IdleType DEF NextRelease, BeginRelease, CutShort, Abort, Typed, TypeOK, Iteration
  <2>. QED
    BY <1>1, <2>2, <2>3, <2>4 DEF ForumInv, SavedRight, PostsHere, Posted
<1>4. CASE OpenTopic
  <2>1. PostsRight' /\ LinksHold' /\ UNCHANGED <<proposals, saved>> /\ it'.pc = "announce"
    BY <1>4, OpenTopicKeepsForum DEF OpenTopic, state, GoTo, Typed, TypeOK, Iteration
  <2>. QED
    BY <1>1, <2>1 DEF ForumInv, SavedRight, PostsHere, Posted
<1>5. CASE ~Announce /\ ~Refresh /\ ~OpenTopic
  <2>1. /\ UNCHANGED topic
        /\ UNCHANGED proposals \/ PlaceProposal
        /\ UNCHANGED saved \/ SaveProposal
    BY <1>5 DEF Step, StartOver, ReadIndex, ReadActive, PushTags, IndexError, EnsureNotes,
       PublishIfReady, Skip, WasSubmitted, Mark, PlaceProposal, SaveProposal, outside, state
  <2>2. PostsHere'
    <3>1. \/ it'.pc \notin Posted
          \/ it.pc \in Posted /\ VersionsHere' = VersionsHere /\ it'.release = it.release
      BY <1>5, PostedStays
    <3>. QED
      BY <2>1, <3>1 DEF ForumInv, PostsHere
  <2>3. CASE PlaceProposal
    BY <1>1, <2>2, <2>3, PlaceKeepsLinks DEF ForumInv
  <2>4. CASE UNCHANGED proposals
    <3>1. PostsRight' /\ LinksHold'
      BY <1>1, <2>1, <2>4 DEF ForumInv, PostsRight, LinksHold, Grows
    <3>2. SavedRight'
      BY <2>1, <2>4, SaveKeepsRight DEF ForumInv, SavedRight
    <3>. QED
      BY <1>1, <2>2, <3>1, <3>2 DEF ForumInv
  <2>. QED
    BY <2>1, <2>3, <2>4
<1>. QED
  BY <1>2, <1>3, <1>4, <1>5

LEMMA InitForum == Init => ForumInv
<1>. SUFFICES ASSUME Init
              PROVE  ForumInv
  OBVIOUS
<1>1. SavedRight /\ LinksHold
  BY FirstProposalsType DEF Init, SavedRight, LinksHold
<1>2. PostsRight
  BY DEF Init, NoIndex, PostsRight
<1>3. IndexWas /\ PostsHere
  BY IdleType DEF Init, IndexWas, PostsHere, Posted
<1>. QED
  BY <1>1, <1>2, <1>3 DEF ForumInv

\* A proposal links to the post about its version as long as no version of its
\* release was taken out of the index, and every post that announces a proposal
\* announces one for its version, whatever is cut short.
THEOREM ForumIsRight == Spec => []ForumMatchesProposals
<1>1. Typed /\ ForumInv /\ [Next]_vars => ForumInv'
  <2>. SUFFICES ASSUME Typed, ForumInv, [Next]_vars
                PROVE  ForumInv'
    OBVIOUS
  <2>1. CASE UNCHANGED vars
    BY <2>1 DEF vars, world, outside, state, ForumInv, SavedRight, PostsRight, IndexWas, PostsHere,
       LinksHold, Grows, VersionsHere
  <2>. QED
    BY <2>1, StepKeepsForum, WorldKeepsForum DEF Next
<1>2. Typed /\ ForumInv => ForumMatchesProposals
  <2>. SUFFICES ASSUME Typed, ForumInv
                PROVE  ForumMatchesProposals
    OBVIOUS
  <2>1. ASSUME NEW p \in DOMAIN proposals, Grows(proposals[p].post[1])
        PROVE  LinkIsRight(p)
    <3>1. proposals[p] \in Proposal
      BY DEF Typed, TypeOK
    <3>2. \A q \in Proposal : q.post \in Release \X Nat
      BY DEF Proposal
    <3>3. PICK r \in Release, i \in Nat : proposals[p].post = <<r, i>>
      BY <3>1, <3>2
    <3>. QED
      BY <2>1, <3>3 DEF LinkIsRight, ForumInv, LinksHold
  <2>. QED
    BY <2>1 DEF ForumMatchesProposals, ForumInv, PostsRight
<1>. QED
  BY <1>1, <1>2, InitForum, TypedInvariant, PTL DEF Spec

=============================================================================
