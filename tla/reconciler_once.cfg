SPECIFICATION Spec
CONSTANTS
  a = a
  b = b
  old = old
  stray = stray
  Version = {a, b, old, stray}
  NoVersion = NoVersion
  NotGuestOS = NotGuestOS
  Releases <- TwoReleases
  FirstListed = {2}
  Ignored = {}
  FirstActive = {old, stray}
  FirstElected = {old, stray}
  FirstProposals <- OldElection
  MayRemove = TRUE
  MayProposeOther = TRUE
  MaxProposals = 1
  MaxFailures = 1
INVARIANTS
  TypeOK
  OneOwnProposal
  InUseStaysElected
  ForumMatchesProposals
  ProposedIsPrepared
