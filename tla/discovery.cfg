SPECIFICATION Spec
CONSTANTS
  mainnet = mainnet
  testnet = testnet
  n1 = n1
  n2 = n2
  s1 = s1
  NoSubnet = NoSubnet
  host = host
  replica = replica
  u1 = u1
  u2 = u2
  a0 = a0
  a1 = a1
  a2 = a2
  None = None
  Torn = Torn
  Ic = {mainnet, testnet}
  Node = {n1, n2}
  Subnet = {s1}
  FirstFolders = {mainnet}
  LastVersion <- Versions
  ContentOf <- Contents
  OldMachine = {n2}
  Updater = {u1, u2}
  JobsOf <- Jobs
  ReplicaJob = replica
  OldFree = {host}
  MainKeepsRecv = FALSE
  MaxUpdaterFailures = 1
  MaxVersion = 3
  KeysIn <- Keys
  UseCurrentVersion = FALSE
  HaveKey = FALSE
  MaxSyncFailures = 2
  MaxStops = 1
  DownloadJob = {host, replica}
  Reply = {a0, a1, a2}
  NoTargets = a0
  TargetsOf <- Configs
  Pages = 1
  SkipEmpty = TRUE
  MaxChanges = 1
  MaxDownloadFailures = 1
  MaxRestarts = 1
  Messages <- Texts
  MaxEntries = 3
  Batch = 2
  MaxPrinted = 6
  MaxCrashes = 1
  MaxLogFailures = 1
INVARIANTS
  TypeOK
  MemoIsWritten
  StoreIsRegistry
  PrintsTheLog
PROPERTIES
  FilesCatchUp
  ShutdownCompletes
CHECK_DEADLOCK FALSE
