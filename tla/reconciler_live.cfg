SPECIFICATION FairSpec
CONSTANTS
  a = a
  b = b
  old = old
  stray = stray
  Version = {a, b, old}
  NoVersion = NoVersion
  NotGuestOS = NotGuestOS
  Releases <- TwoReleases
  FirstListed = {2}
  Ignored = {}
  FirstActive = {old}
  FirstElected = {old}
  FirstProposals <- OldElection
  MayRemove = FALSE
  MayProposeOther = TRUE
  MaxProposals = 1
  MaxFailures = 2
PROPERTY ListedIsAnnounced
