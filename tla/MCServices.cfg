SPECIFICATION ServicesSpec
CONSTANTS
  Word = 64
  TicksPerMs = 2
  Increments <- SmallIncrements
  MaxElapsed = 60
  MaxLate = 4
  PageBytes = 2
  Permanent = 1
  Kseg0 = 4
  MaxDesc = 6
  Machines <- SmallMachines
  FrameBytes = 2
  ApertureLo = 1
  ApertureHi = 3
  DiskLo = 3
  DiskBytes = {1, 2, 3, 4}
  Lists <- SmallLists
  PageSize = 4
  AddressSpace = 64
  MaxRegisters = 3
  Maxima = {4, 8, 12}
  Buffers <- SmallBuffers
  Size = 13
  Variables <- SmallVariables
  Values <- SmallValues
  Lengths = {0, 1, 2, 4, 5}
  PrimarySlots = 2
  MaxParts = 3
  MaxDisks = 2
  Letters = 4
  Setups <- SmallSetups
  Callers = {1}
  Slots = {1, 2, 3}
  Present <- SmallPresent
  BarBits <- SmallBarBits
  InterruptLine <- SmallLine
  Patched = {1}
  Spans <- SmallSpans
  Units = 3
  MacEpoch = 5
  CudaWord = 8
  Bits = 6
  Times = {0, 14, 15, 16, 17, 20, 35, 37, 38, 39, 40, 45}
  Cols = 2
  Rows = 3
  VramRows = 4
  Printable = {"a"}
  MaxColumn = 3
  Addresses = {0, 1, 2, 3, 4, 5, 6, 7, 8, 9, 10, 11, 12, 13, 14, 15, 16, 17, 18, 19, 20, 21, 22, 23}
  PciMemory = 12
  Window = 4
  Windows = {4, 16}
  Mirror = 4
  Vram = {0, 12}
  Bridge <- SmallBridge
  IoFirst = 2
  IoSize = 8
  IsaLast = 4
  Headers <- SmallHeaders
  MaxBars = 3
  Keys <- SmallKeys
  AdbToSet1 <- SmallSet1
  Deltas <- SmallDeltas
  MaxPackets = 3
  MaxControls = 3
  DiskWord = 8
  Block = 2
  ImageBytes = 6
  Track = 2
  Names <- SmallNames
  Texts <- SmallTexts
  BufBytes = 4
  Rooms = {1, 2, 3}
  HeapBytes = 16
  Wants <- SmallWants
  MsWord = 16
  PerSecond = 3
  Starts = {0, 1, 12, 15, 16}
  MaxMs = 12
  Opcodes <- AllOpcodes
  Extended <- AllExtended
  GprNames = {0, 12, 13}
INVARIANT ServicesTypeOK
INVARIANT ClocksKeepTime
INVARIANT DescribesMemory
INVARIANT ReservesItsOwn
INVARIANT BufferIsMapped
INVARIANT LettersFollowNt
INVARIANT ConfigIsFaithful
INVARIANT AbortReadsOnes
INVARIANT ScreenFollowsPaper
INVARIANT LeadsToTheDevice
INVARIANT InputsAgree
INVARIANT FloppyIsSound
PROPERTY EnvironmentIsKept
PROPERTY FirmwareKeepsItsWord
CHECK_DEADLOCK FALSE
