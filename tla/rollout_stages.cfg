SPECIFICATION Spec
CONSTANTS
  s1 = s1
  s2 = s2
  s3 = s3
  a = a
  b = b
  feature = feature
  Subnet = {s1, s2}
  Unassigned = unassigned
  Version = {a, b, feature}
  Releases <- TwoReleases
  Stages <- WaitingStages
  FirstPublished = 1
  FirstElected = {a, b}
  MayFail = TRUE
  OperatorStarts = TRUE
  ReplicasLag = TRUE
  MayReject = TRUE
  MayPause = TRUE
  MayForget = TRUE
  MaxOpen = 2
INVARIANTS
  TypeOK
  OneOpenProposal
PROPERTIES
  WeekRespected
  StopsOnlyWhenCompleted
  RolloutSpec
CHECK_DEADLOCK FALSE
