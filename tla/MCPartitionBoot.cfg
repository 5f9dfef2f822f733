SPECIFICATION Spec
CONSTANTS
  Lbas = {0, 1, 2, 3, 4}
  Slots = 2
  PartitionMax = 8
  Disks <- WriteDisks
  Layouts <- OneLayout
  ReadModes = {TRUE}
  MaxFaults = 1
  MaxCalls = 1
PROPERTY BootCodeKept
CHECK_DEADLOCK FALSE
