SPECIFICATION Spec
CONSTANTS
  a1 = a1
  a2 = a2
  a3 = a3
  a4 = a4
  b1 = b1
  b2 = b2
  b3 = b3
  x1 = x1
  x2 = x2
  x3 = x3
  subnetA = subnetA
  subnetB = subnetB
  Node = {a1, a2, a3, a4, b1, b2, b3, x1, x2, x3}
  Subnet = {subnetA, subnetB}
  Variants <- Order
  NodeProvider = "NP"
  Country = "country"
  Continent = "continent"
  Europe = "Europe"
  FeatureOf <- Features
  DfinityOwned = {a1, x1}
  Decentralized = {a1, a2, a3, a4, b1, b2, x1, x2}
  Nns = {subnetA}
  ValuableKey = {subnetA}
  European = {subnetB}
  Important = {subnetA}
  NewSubnet = NewSubnet
  NoMin = NoMin
  NoLimit = NoLimit
  Topologies <- World
  Filters <- SomeFilters
  Mins <- SomeMins
  Reports <- SomeReports
  MaxCount = 2
  Scheduled <- SevenSubnets
  NnsSubnet = 7
  SparedDays = {1, 2, 3, 4, 8, 9, 10, 17, 21}
  MaxStageSize = 4
  FirstDay = {0, 14, 16, 18, 19}
  LastDay = 23
  FirstWeek = 52
  WeeksInYear = 52
  Hours = 1
  Nodes <- ThreeNodes
  RolloutSubnet = {subnetA}
  NoSubnet = NewSubnet
  HomeOf <- Homes
  DfinityNodes = {x1}
  Duplicates = {}
  Excluded = {}
  Requests <- HostosRequests
  NothingAsked = NothingAsked
  MaxOpen = 2
  MaxFailures = 1
  Operator = {"o1", "o2"}
  ToolSubnet = {"s1", "s2"}
  Workloads <- Kinds
  Version = {"v1", "v2"}
  Candidate = {"v2"}
  Cdn = {"c1", "c2"}
  Image = {"i1", "i2"}
  Missing = "missing"
  Rules <- TwoRules
  Edits <- EditedRules
  MaxRuns = 2
  Yes = {"o1"}
INVARIANTS
  TypeOK
  ChangesAreSound
  ScheduleIsSound
  GroupsAreSound
  ProposalsAreSound
PROPERTY GroupCatchesUp
CHECK_DEADLOCK FALSE
