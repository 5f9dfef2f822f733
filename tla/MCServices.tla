----------------------------- MODULE MCServices -----------------------------
(* The HAL's and the loader's services that do not share state, each on its  *)
(* own: a behaviour runs one of them, and the others stay where they began. *)
EXTENDS Clock, Sequences, FiniteSets, TLC

CONSTANTS
  PageBytes, Permanent, Kseg0, MaxDesc, Machines,
  FrameBytes, ApertureLo, ApertureHi, DiskLo, DiskBytes, Lists,
  PageSize, AddressSpace, MaxRegisters, Maxima, Buffers,
  Size, Variables, Values, Lengths,
  PrimarySlots, MaxParts, MaxDisks, Letters, Setups,
  Callers, Slots, Present, BarBits, InterruptLine, Patched, Spans,
  Units, MacEpoch, CudaWord, Bits, Times,
  Cols, Rows, VramRows, Printable, MaxColumn,
  Addresses, PciMemory, Window, Windows, Mirror, Vram, Bridge, IoFirst, IoSize, IsaLast, Headers, MaxBars,
  Keys, AdbToSet1, Deltas, MaxPackets, MaxControls, DiskWord, Block, ImageBytes, Track,
  Names, Texts, BufBytes, Rooms, HeapBytes, Wants, MsWord, PerSecond, Starts, MaxMs,
  Opcodes, Extended, GprNames

VARIABLES
  service,
  machine, descs, bank, slot, walked, todo, halted,
  given, list, header, present, stage,
  maximum, mdl, currentVa, left, runs, swept, outcome,
  store, set, answer,
  installed, scanned, letters, floppies, bootLetter,
  config, latch, call, sizing,
  cuda, lastSet, told,
  active, col, row, vram, column, paper, moved,
  card, fbPhys, asked, found, function, resources,
  entry, created, image, counted, callback, polling, connected, enabled, buttons, bus, class, missed, packets, controls,
  memory, status, count,
  options, value_buf, kept, got, heap_used, blocks, ms, t0, firstLast, toldTime,
  insn, iar, gpr, bugcheck

memoryVars == <<machine, descs, bank, slot, walked, todo, halted>>
loaderVars == <<given, list, header, present, stage>>
mapVars    == <<maximum, mdl, currentVa, left, runs, swept, outcome>>
envVars    == <<store, set, answer>>
letterVars == <<installed, scanned, letters, floppies, bootLetter>>
pciVars    == <<config, latch, call, sizing>>
timeVars   == <<cuda, lastSet, told>>
consoleVars == <<active, col, row, vram, column, paper, moved>>
busVars    == <<card, fbPhys, asked, found, function, resources>>
portVars   == <<entry, created, image, counted, callback, polling, connected, enabled, buttons, bus, class, missed,
                packets, controls>>
diskVars   == <<memory, status, count>>
driverVars == <<portVars, diskVars>>
optionVars == <<options, value_buf, kept, got>>
heapVars   == <<heap_used, blocks>>
relVars    == <<ms, t0, toldTime, firstLast>>
callVars   == <<optionVars, heapVars, relVars>>
checkVars  == <<insn, iar, gpr, bugcheck>>
lastVars   == <<driverVars, callVars, checkVars>>
servicesVars == <<service, vars, memoryVars, loaderVars, mapVars, envVars, letterVars, pciVars, timeVars, consoleVars,
                  busVars, lastVars>>

Arc   == INSTANCE ArcMemory
Hal   == INSTANCE LoaderMemory
Dma   == INSTANCE MapTransfer
Env   == INSTANCE EnvStore
Drive == INSTANCE DriveLetters
Pci   == INSTANCE PciConfig
Rtc   == INSTANCE RealTime
Screen == INSTANCE Console
Bus   == INSTANCE BusResources
Port  == INSTANCE AdbPort WITH floppies <- counted, service <- connected
Disk  == INSTANCE RamDisk WITH Word <- DiskWord
Calls == INSTANCE ArcServices WITH told <- toldTime, asked <- firstLast
Check == INSTANCE MachineCheck WITH Registers <- GprNames

ASSUME ServicesAssumption ==
  /\ Port!AdbPortAssumption /\ Disk!RamDiskAssumption
  /\ Check!MachineCheckAssumption /\ Screen!ConsoleAssumption /\ Dma!MapTransferAssumption
  /\ Calls!CallsAssumption /\ Hal!LoaderAssumption /\ Bus!BusAssumption
  /\ Arc!ArcMemoryAssumption /\ Env!EnvAssumption /\ Rtc!RealTimeAssumption /\ Pci!PciAssumption

-----------------------------------------------------------------------------
(* Instances. *)

\* Half a second, a millisecond and the like: see Clock.
SmallIncrements == {5000, 10000, 19000, 100000}

\* Every order of one or two available ranges over one bank or two, to the byte.
Ranges == {<<>>} \cup {<<<<a, b - a>>>> : a \in 0 .. 9, b \in 1 .. 12}
TwoRanges == {<<<<a, b - a>>, <<c, d - c>>>> : a \in 0 .. 5, b \in 1 .. 9, c \in 2 .. 9, d \in 3 .. 12}
Sound(r) == \A k \in 1 .. Len(r) : r[k][2] > 0 /\ (k > 1 => r[k - 1][1] + r[k - 1][2] <= r[k][1])
SmallMachines ==
  [reg : {<<<<0, 12>>>>, <<<<0, 4>>, <<6, 6>>>>},
   available : {r \in Ranges \cup TwoRanges : Sound(r)},
   program : {<<0, 0>>, <<1, 1>>, <<2, 2>>}]

\* Six pages of three types, in one descriptor for each run of a type, and in
\* more where the loader left a border.
TypesOf == [0 .. 5 -> {"free", "temporary", "code"}]
Borders == SUBSET {2, 4}
Begins(types, border) == {p \in 0 .. 5 : p = 0 \/ p \in border \/ types[p] # types[p - 1]}
Nth(set_, n) == CHOOSE p \in set_ : Cardinality({q \in set_ : q < p}) = n - 1
ListOf(types, border) ==
  LET b == Begins(types, border)
  IN  [k \in 1 .. Cardinality(b) |->
         [type |-> types[Nth(b, k)], base |-> Nth(b, k),
          count |-> (IF k = Cardinality(b) THEN 6 ELSE Nth(b, k + 1)) - Nth(b, k)]]
SmallLists == {ListOf(t, b) : t \in TypesOf, b \in Borders}

\* Buffers of up to three pages, anywhere in physical memory.
PhysicalPages == UNION {[1 .. n -> {5, 6, 7}] : n \in 1 .. 3}
SmallBuffers ==
  {m \in [pages : PhysicalPages, offset : 0 .. 3, count : {1, 2, 4, 5, 7, 8}, start : {8, 40}, system : {0, 24}] :
     Len(m.pages) = (m.offset + m.count + 3) \div 4}

SmallVariables == {[id |-> 1, spelt |-> "SYSTEMPARTITION", length |-> 1], [id |-> 1, spelt |-> "systempartition", length |-> 1],
                   [id |-> 2, spelt |-> "A", length |-> 1], [id |-> 3, spelt |-> "AB", length |-> 2]}
SmallValues == {[id |-> 0, length |-> 0], [id |-> 1, length |-> 1], [id |-> 2, length |-> 3], [id |-> 3, length |-> 3]}

Layouts == UNION {[1 .. n -> BOOLEAN] : n \in {0, 2, 3, 4}}
SmallSetups ==
  [floppies : {0, 3}, cds : 0 .. 2,
   disks : UNION {[1 .. n -> Layouts] : n \in 1 .. 2} \cup [1 .. 3 -> [1 .. 2 -> BOOLEAN]],
   boot : {<<"CdRom", 1>>, <<"Harddisk", 1, 1>>}]

\* A port device of four bytes, whose id is reported as another, and a memory
\* device of two; the third slot is empty.
FourBytes == <<0, 1, 1, 1, 1, 0, 0, 1, 0, 0, 1, 0>>
TwoBytes  == <<1, 0, 0, 1, 0, 1, 0, 1, 0, 1, 0, 0>>
SmallPresent == [s \in 1 .. 2 |-> [n \in 0 .. 11 |-> IF s = 1 THEN FourBytes[n + 1] ELSE TwoBytes[n + 1]]]
SmallBarBits == [s \in 1 .. 2 |-> IF s = 1 THEN {2, 3} ELSE {1, 2, 3}]
SmallLine == [s \in 1 .. 3 |-> IF s = 1 THEN 1 ELSE 0]
SmallBridge == [b \in 0 .. 1 |-> 30 + 20 * b]
Bar(kind, base, length) == [kind |-> kind, base |-> base, length |-> length]
Bars == {Bar("none", 0, 0), Bar("port", 0, 2), Bar("port", 4, 2), Bar("memory32", 20, 4)}
\* Of three base addresses, with a 64-bit one first, second or nowhere.
SmallHeaders ==
  [bars : [1 .. 3 -> Bars]
          \cup {<<Bar("memory64", 24, 4), Bar("none", 0, 0), b>> : b \in Bars}
          \cup {<<b, Bar("memory64", 24, 4), Bar("none", 0, 0)>> : b \in Bars},
   line : 0 .. 1]
SmallSpans == {<<0, 4>>, <<2, 2>>, <<3, 2>>, <<3, 6>>, <<4, 4>>, <<0, 12>>, <<8, 1>>, <<9, 8>>}

\* Keys 24 and 81 are = and Keypad =, which share a make code; 63 is Fn, which
\* has none.
SmallSet1 == (24 :> 13) @@ (81 :> 13) @@ (59 :> 256 + 75) @@ (63 :> 0)
SmallKeys == DOMAIN SmallSet1
SmallDeltas == {-64, 0}

\* A variable in two spellings and another, with values of none to two characters.
SmallNames == {[id |-> 1, spelt |-> "upper"], [id |-> 1, spelt |-> "mixed"], [id |-> 2, spelt |-> "upper"]}
AllOpcodes == 0 .. 63
AllExtended == 0 .. 1023
\* Sizes and alignments asked of the heap.
SmallWants == {<<1, 8>>, <<3, 4>>, <<5, 8>>}
SmallTexts == {<<>>, <<"a">>, <<"b", "c">>}

-----------------------------------------------------------------------------
(* One service at a time. *)

AnyOf(S) == CHOOSE s \in S : TRUE

ServicesInit ==
  /\ service \in {"clock", "arc", "loader", "dma", "env", "letters", "pci", "time", "console", "bus", "driver",
                  "options", "heap", "relative", "check"}
  /\ service = "arc" \/ machine = AnyOf(Machines)
  /\ service = "loader" \/ (given = AnyOf(Lists) /\ header = [state |-> "absent", bytes |-> 1])
  /\ service = "dma" \/ (maximum = AnyOf(Maxima) /\ mdl = AnyOf({m \in Buffers : m.count = 1 /\ m.system = 0}))
  /\ service = "letters" \/ installed = AnyOf(Setups)
  /\ service = "bus" \/ card = 0
  /\ service = "options" \/ kept = [i \in Calls!Ids |-> Calls!Absent]
  /\ service = "relative" \/ ms = 1
  /\ service = "check" \/ insn = [op |-> 32, xo |-> 0, rt |-> 0]
  /\ Init /\ Env!Init /\ Pci!Init /\ Rtc!Init /\ Screen!Init /\ Bus!Init /\ Port!Init /\ Disk!DiskInit
  /\ Calls!CallsInit
  \* In the order in which TLC has the least to enumerate.
  /\ \/ service = "loader"  /\ Arc!Init /\ Dma!Init /\ Drive!Init /\ Hal!Init
     \/ service = "dma"     /\ Arc!Init /\ Hal!Init /\ Drive!Init /\ Dma!Init
     \/ service = "letters" /\ Arc!Init /\ Hal!Init /\ Dma!Init /\ Drive!Init
     \/ service \notin {"loader", "dma", "letters"} /\ Hal!Init /\ Dma!Init /\ Drive!Init /\ Arc!Init
  /\ Check!CheckInit

\* The disk takes requests once DriverEntry has created it; it shares nothing
\* with the ports then, so behaviours that use it leave the ports alone.
DriverNext ==
  \/ status = "none" /\ Port!Next /\ UNCHANGED diskVars
  \/ /\ entry = "up" /\ "disk" \in created
     /\ packets = 0 /\ controls = 0
     /\ Disk!DiskNext /\ UNCHANGED portVars

LastNext ==
  \/ service = "driver"   /\ DriverNext       /\ UNCHANGED <<callVars, checkVars>>
  \/ service = "options"  /\ Calls!EnvNext    /\ UNCHANGED <<driverVars, heapVars, relVars, checkVars>>
  \/ service = "heap"     /\ Calls!HeapNext   /\ UNCHANGED <<driverVars, optionVars, relVars, checkVars>>
  \/ service = "relative" /\ Calls!ClockNext  /\ UNCHANGED <<driverVars, optionVars, heapVars, checkVars>>
  \/ service = "check"    /\ Check!HalpMachineCheck /\ UNCHANGED <<driverVars, callVars>>

ServicesNext ==
  /\ UNCHANGED service
  /\ \/ /\ service = "clock" /\ Next
        /\ UNCHANGED <<memoryVars, loaderVars, mapVars, envVars, letterVars, pciVars, timeVars, consoleVars, busVars, lastVars>>
     \/ /\ service = "arc" /\ Arc!Next
        /\ UNCHANGED <<vars, loaderVars, mapVars, envVars, letterVars, pciVars, timeVars, consoleVars, busVars, lastVars>>
     \/ /\ service = "loader" /\ Hal!Next
        /\ UNCHANGED <<vars, memoryVars, mapVars, envVars, letterVars, pciVars, timeVars, consoleVars, busVars, lastVars>>
     \/ /\ service = "dma" /\ Dma!Next
        /\ UNCHANGED <<vars, memoryVars, loaderVars, envVars, letterVars, pciVars, timeVars, consoleVars, busVars, lastVars>>
     \/ /\ service = "env" /\ Env!Next
        /\ UNCHANGED <<vars, memoryVars, loaderVars, mapVars, letterVars, pciVars, timeVars, consoleVars, busVars, lastVars>>
     \/ /\ service = "letters" /\ Drive!Next
        /\ UNCHANGED <<vars, memoryVars, loaderVars, mapVars, envVars, pciVars, timeVars, consoleVars, busVars, lastVars>>
     \/ /\ service = "pci" /\ Pci!Next
        /\ UNCHANGED <<vars, memoryVars, loaderVars, mapVars, envVars, letterVars, timeVars, consoleVars, busVars, lastVars>>
     \/ /\ service = "time" /\ Rtc!Next
        /\ UNCHANGED <<vars, memoryVars, loaderVars, mapVars, envVars, letterVars, pciVars, consoleVars, busVars, lastVars>>
     \/ /\ service = "console" /\ Screen!Next
        /\ UNCHANGED <<vars, memoryVars, loaderVars, mapVars, envVars, letterVars, pciVars, timeVars, busVars, lastVars>>
     \/ /\ service = "bus" /\ Bus!Next
        /\ UNCHANGED <<vars, memoryVars, loaderVars, mapVars, envVars, letterVars, pciVars, timeVars, consoleVars, lastVars>>
     \/ /\ service \in {"driver", "options", "heap", "relative", "check"} /\ LastNext
        /\ UNCHANGED <<vars, memoryVars, loaderVars, mapVars, envVars, letterVars, pciVars, timeVars, consoleVars, busVars>>

ServicesSpec == ServicesInit /\ [][ServicesNext]_servicesVars

\* The services' properties, where they are stated.
ServicesTypeOK     == TypeOK /\ Screen!TypeOK /\ Port!TypeOK
DescribesMemory    == Arc!DescribesMemory
ReservesItsOwn     == Hal!ReservesItsOwn
BufferIsMapped     == Dma!BufferIsMapped
EnvironmentIsKept  == Env!EnvironmentIsKept
LettersFollowNt    == Drive!LettersFollowNt
ConfigIsFaithful   == Pci!ConfigIsFaithful
ReadsItsRegister   == Pci!ReadsItsRegister
ClocksKeepTime     == TicksKeepTime /\ Rtc!TellsWhatWasSet
FirmwareKeepsItsWord == Calls!FirmwareKeepsItsWord
AbortReadsOnes     == Check!AbortReadsOnes
ScreenFollowsPaper == Screen!ScreenFollowsPaper
LeadsToTheDevice   == Bus!LeadsToTheDevice

\* As long as a class driver was given every event, the keys it takes to be
\* down, the buttons and the position it has added up are those of the
\* devices (kbd.c:58-72, mouse.c:20-45).
InputsAgree == Port!KeysAgree /\ Port!PointerAgrees

\* The floppy that IoAssignDriveLetters counts is there, has its image, and
\* stays inside it (adbport.c:150-165, ramdisk.c:35-50).
FloppyIsSound == Port!FloppyIsThere /\ Disk!DiskStaysInside
=============================================================================
