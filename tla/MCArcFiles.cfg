SPECIFICATION LayersSpec
CONSTANTS
  MaxFd = 4
  Handles <- SmallHandles
  Word = 2
  DeviceEnd = 3
  MaxKeys = 4
  MaxOpens = 3
  Clusters <- ThreeClusters
  ClusterBytes = 2
  Fats <- SmallFats
  Sizes <- SmallSizes
  Positions = {0, 1, 2, 5}
  Lengths = {1, 3, 6}
  MaxReads = 2
  Tables <- SmallTables
  Parts = {0, 1, 2, 3}
  RootSecs = 1
  RootClus = 0
  Spc = 1
  DirClusters = {2, 3}
  Disks <- SmallDisks
  Paths <- SmallPaths
  Discs <- SmallDiscs
  Roots <- SmallRoots
  CdFiles <- SmallPaths
  Machines <- SmallMachines
  Targets = {0, 1, 2}
  Digits = {0, 1}
  BootNames <- SmallBootNames
  Programs <- SmallPrograms
  PageBytes = 4
  MaxSections = 3
  MaxLoads = 3
INVARIANT LayersTypeOK
INVARIANT InstancesAreOwned
INVARIANT LoadsPrograms
INVARIANT KeysInOrder
INVARIANT ReadsAreFaithful
INVARIANT OpensTheVolume
INVARIANT TreeIsNavigable
PROPERTY NamesLeadToTheFirst
CHECK_DEADLOCK FALSE
