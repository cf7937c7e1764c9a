SPECIFICATION FairSpec
CONSTANTS
  s1 = s1
  s2 = s2
  s3 = s3
  a = a
  b = b
  feature = feature
  Subnet = {s1, s2}
  Unassigned = unassigned
  Version = {a, b, feature}
  Releases <- TwoReleases
  Stages <- ThreeStages
  FirstPublished = 2
  FirstElected = {a, b}
  MayFail = FALSE
  OperatorStarts = TRUE
  ReplicasLag = FALSE
  MayReject = TRUE
  MayPause = FALSE
  MayForget = FALSE
  MaxOpen = 2
PROPERTY MissingIsProposed
CHECK_DEADLOCK FALSE
