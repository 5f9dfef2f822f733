SPECIFICATION FairSpec
CONSTANTS
  Lbas = {0, 1, 2, 3, 4}
  Slots = 2
  PartitionMax = 7
  Disks <- MCDisks
  Layouts <- MCLayouts
  ReadModes = {TRUE, FALSE}
  MaxFaults = 1
  MaxCalls = 2
INVARIANT TypeOK
INVARIANT RoundTrip
PROPERTY WalksAgree
PROPERTY CallsReturn
CHECK_DEADLOCK FALSE
