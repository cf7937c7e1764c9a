SPECIFICATION Spec
CONSTANTS
  mercury = mercury
  testnet = testnet
  folder1 = folder1
  folder2 = folder2
  Name = {mercury, testnet}
  NoName = NoName
  ThreadId = {d1, d2}
  Handler = {h1}
  Main = Main
  NoTask = NoTask
  NoThread = NoThread
  Mercury = mercury
  BoundaryNode = {}
  Folder = {folder1, folder2}
  FolderOf <- OneFolderEach
  StartWithoutMainnet = FALSE
  DiskMayFail = FALSE
  Workers = 2
  MaxRestarts = 0
INVARIANT ShutdownEndsAll
