SPECIFICATION FairSpec
CONSTANTS
  s1 = s1
  s2 = s2
  s3 = s3
  a = a
  b = b
  feature = feature
  Subnet = {s1, s2, s3}
  Unassigned = unassigned
  Version = {a, b, feature}
  Releases <- TwoReleases
  Stages <- PairStages
  FirstPublished = 2
  FirstElected = {a, b}
  MayFail = FALSE
  OperatorStarts = TRUE
  ReplicasLag = FALSE
  MayReject = FALSE
  MayPause = FALSE
  MayForget = FALSE
  MaxOpen = 2
PROPERTIES
  BakedBeforeNextStage
  RolloutCompletes
CHECK_DEADLOCK FALSE
