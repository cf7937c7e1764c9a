SPECIFICATION Spec
CONSTANTS
  n1 = n1
  n2 = n2
  n3 = n3
  v1 = v1
  v2 = v2
  v3 = v3
  v4 = v4
  p1 = p1
  p2 = p2
  Nothing = Nothing
  Torn = Torn
  Monitored = {n1, n2}
  Seen = {"Healthy", "Dead"}
  ProviderOf <- Providers
  Named = {p1}
  Routes <- Slack
  MaxChanges = 2
  MaxHealthFailures = 1
  Last1 = 3
  GroupOf <- Topics
  Muted = {3}
  MaxClock = 3
  MaxLost = 1
  MaxCrashes = 1
  Node = {n1, n2, n3}
  Eligible = {n1, n2}
  Releases <- Versions
  BranchOf <- Branches
  Unbranched = {v4}
  First <- Genesis
  Proposal <- Motions
  Agendas <- Plans
  Request = {1, 2}
  Loads <- Asked
  MaxViewFailures = 1
  User = {1, 2}
  Mainnet = TRUE
  Interval = 2
  MaxAge = 5
  MaxStops = 2
INVARIANTS
  TypeOK
  ToldInOrder
  AnswersAreTrue
PROPERTIES
  EveryoneIsTold
  EveryoneIsServed
  FileHeals
CHECK_DEADLOCK FALSE
