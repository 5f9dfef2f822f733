# A model of the PowerMac NT HAL

This directory holds TLA+ modules that model the programs of this repository:
the HAL (`src/src/*.c`), the ARC firmware that boots NT (`src/src/arcfw/`) and
the keyboard, mouse and floppy driver (`src/drivers/adbport/`). TLC checks the
modules on small instances; TLAPS proves most of the safety properties for
every instance: those of the interrupt controller, of Cuda's wire and the packet
ring, of the partition tables, of the firmware's files and program loading, of the driver, and of the
clock, the console, the DMA transfers and the firmware's services. `PROJECT.json` says which lines of the source
each definition stands for, which run checks which property, and how the
property fails when the code is changed.

Paths in this text are those of the repository: `ints.c:181` is line 181 of
`src/src/ints.c`, and `fat.c` and the like are in `src/src/arcfw/`.

    tlc -workers 2 -config MCInterrupts.cfg MCInterrupts
    tlapm CudaProofs.tla

## 1. The system

The machine is a uniprocessor PowerPC with a Grand Central interrupt
controller, a Cuda microcontroller behind a VIA, a Bandit PCI bridge and a
Cirrus display. Three programs run on it, one after or beside the other.

* The **firmware** (`arcfw`) is started by Open Firmware. It offers NT's loader
  the ARC calls: memory descriptors, a configuration tree, files by name or by
  ARC path, environment variables. One thread, no interrupts of its own; all it
  does to hardware it asks of Open Firmware, which may refuse.
* The **HAL** is a library in the kernel. The kernel's threads, its DPCs, the
  external interrupt handler and the decrementer handler all run in it, and
  preempt one another by the IRQL.
* The **adbport driver** is called back by the HAL from its DPC with ADB
  packets, and called by the keyboard and pointer class drivers from threads.

### Components

For each: the state it keeps; its operations; what is hard; what makes it right.

| Component | State | Operations | What is hard, and what must hold |
|---|---|---|---|
| Interrupts and IRQL (`ints.c`, `irql.c`) | IRQL, MSR[EE], Grand Central's mask and its shadow, the registered sources | raise and lower, enable and disable a source, the external handler | nested handlers; every path writes the mask and EE by hand: the three must agree with the IRQL at every moment, and no event may be lost |
| Clock (`clock.c`) | decrementer reload, current and next increment | tick, `HalSetTimeIncrement` | ticks come late; a changed increment applies one tick later than it is reported: NT's time must not run ahead |
| Cuda's wire (`cuda.c`, `init.c`) | the VIA's shift register and three lines | a polled request, the service of a packet held out, the restart | two processors and one flag: packets and requests collide, answers come late or never; the lines must be idle after every call, an answer the command's own, and no wait without an end |
| Cuda's packets (`cuda.c`) | a ring of packets, the DPC, the callback, the autopoll mask, the VIA's and Grand Central's enables | the VIA service, the DPC, polled requests, autopoll | a ring without a lock between an interrupt and a DPC; an edge-triggered line: no lost wake-up, no wedged VIA |
| Machine checks (`ints.c`) | the trap frame | complete an access nobody answered | instructions decoded by hand |
| Partition tables (`disk.c`) | none between calls but the disk | read, stamp a type, write | chains of tables that loop, transfers that fail half-way; two walks that must number alike |
| OEM disk and VGA reservations (`init.c`, `oemdisk.c`) | the loader's memory list | cut a range out of it | borders of descriptors: no page lost, none handed to the kernel that holds the image |
| DMA (`dma.c`) | adapter objects | allocate, `IoMapTransfer`, `HalFlushIoBuffers` | a run must be physically contiguous and inside the buffer; every page read in must be swept |
| Tree repair (`src/src/arc.c`) | resource lists of two adapters | `HalpFixConfigTree` | adapters and chips are matched by counting |
| Environment (`misc.c`) | a store of fixed size | get, set | replacing when the store is full |
| Drive letters (`misc.c`) | none | one scan, four passes | two counts of partitions that must agree |
| Real-time clock (`misc.c`) | Cuda's second counter | get, set | two epochs, a 32-bit word, a hand-made division |
| PCI (`pci.c`) | address port, base addresses | read and write configuration space, size a base address, translate, assign resources | two-step cycles without a lock; base addresses moved while sized |
| Console (`display.c`, `vga.c`) | cursor, text memory | display, query, set | wrapping and scrolling, a cursor set from outside |
| Program loading (`load.c`, `arc.c`, `main.c`) | the file's offset, memory, the pages noted | load, invoke, execute | a program is where it was linked, swept from the caches, and described as what it is, however many are loaded and whatever fails |
| Firmware services (`env.c`, `heap.c`, `arc.c`) | one buffer, one arena, one start time | look up and set a variable, allocate, relative time | values without terminator, alignment, a counter that wraps |
| Firmware files (`io.c`) | table of file ids over Open Firmware instances | open, close, read, write, seek, read status | every step may fail: no instance leaked or used after it was closed |
| FAT (`fat.c`) | the cursor in the chain, a one-sector cache | open, read | the cursor outlives a failed read |
| ISO 9660 (`io.c`) | none between calls | open | records never cross a sector: padding is not an end |
| Configuration tree (`config.c`) | the nodes | build, look up, name | the path given for a node must lead to it |
| Memory descriptors (`memory.c`) | a table of fixed size | build, retype | ranges that cut across one another, bytes and pages |
| adbport (`adbport.c`, `kbd.c`, `mouse.c`) | the class drivers' connections, the buttons down | `DriverEntry`, packets, control requests | two make codes in a packet, keys that share a code, events lost before a class connects |
| OEM floppy (`ramdisk.c`) | the image | transfer, device controls | offsets near 2^32 |

### How they interact

* The **IRQL** is what everything in the HAL is ordered by. `Interrupts` models
  it once; `CudaAdb` takes its consequence (a DPC does not run on top of a
  handler, `DpcUnderHandlers`) as the rule by which its three actors interleave.
* **Grand Central** latches an edge of VIA1; the handler clears the latch
  before it calls `HalpCudaService` (`ints.c:161`). Both models have that order.
* A transfer is one step of `CudaAdb` and many of `CudaVia`. What `CudaAdb`
  leaves open about it (taken or not, answered or not, and by which packet) is
  what `CudaVia` shows can come of it.
* `HalReturnToFirmware` asks Cuda for the machine's reset, with interrupts off,
  through the same transfer.
* The firmware's **tree** (`config.c`) is what the HAL repairs (`src/src/arc.c`)
  before the kernel reads it: `ConfigTree` has both, one after the other.
* `load.c` notes the **loader's pages** for `memory.c`: `ArcLoad` has the order,
  `ArcMemory` what is made of them.
* `cuda.c` hands packets to **adbport** by a callback in the DPC. `AdbPort`
  begins where `CudaAdb` ends: with a packet.
* **`misc.c` uses `disk.c`**: a drive letter is for partition n of
  `IoReadPartitionTable`. `DriveLetters` counts as `PartitionTable` numbers.
* **`fat.c` counts partitions as `disk.c` does**, or says so; `FatOpen` has both
  counts side by side (section 6).
* **oemdisk.c and ramdisk.c** share the image: `LoaderMemory` protects the pages
  that `RamDisk` transfers.
* `HalAssignSlotResources` reads and sizes base addresses through configuration
  space: `PciConfig` has the cycles, `BusResources` what is made of them.

## 2. Plan

Order of work, the most important behaviour first.

1. `Interrupts`, its runs and its proofs. *Done.*
2. `PacketFifo` (what the ring promises), `CudaAdb` (how it keeps it) and its
   proofs. *Done.*
3. `CudaVia`, the wire below it. *Done.*
4. `PartitionTable`. *Done.*
5. `AdbPort` with `RamDisk` and its proof. *Done.*
6. The firmware: `ArcIo`, `FatOpen`, `FatDir`, `FatFile`, `IsoDir`, `ConfigTree`
   with the HAL's repair, `ArcLoad`, together in `MCArcFiles`. *Done.*
7. The services: `Clock`, `ArcMemory`, `LoaderMemory`,
   `MapTransfer`, `EnvStore`, `DriveLetters`, `PciConfig`, `BusResources`,
   `RealTime`, `Console`, `ArcServices`, `MachineCheck`, together in
   `MCServices`. *Done.*
8. Still to do: the argument vectors of `main.c`; a run that shows what happens
   to the console when the cursor is set to the row after the last; sizing in
   steps beside the cached aperture (`vga.c:167`).
9. Theorems, each in the proof module of its run: the interrupt controller, the
   packet ring, the wire, the partition tables, the firmware's files, the driver,
   the services and what the HAL tells others of the machine, named in section 5.
   *Done.*
10. Theorems still to prove: `DriveLetters`' `LettersFollowNt`, for which the
   scan would have to be written without a fold, as `PartitionTable`'s now is.

No module that is to be proved about has a RECURSIVE operator; recursion is
written as recursive functions or folds.

## 3. The modules

Each action is one step that nothing in the code can come between: a call with
interrupts off, a handler between two points where it can be interrupted, one
transfer of a sector, one access to a port, one turn of a loop that the model
observes. Names are the source's where there is one. Operators marked
"Mutant" are not part of any specification: each is what a definition would be
if the code had one particular bug, and `PROJECT.json` says which property
finds that bug.

### Interrupts (`ints.c`, `irql.c`, entry and exit of `clock.c`)

| Variable | Code |
|---|---|
| `irql` | `PCR->CurrentIrql` |
| `ee` | MSR[EE] |
| `latch` | Grand Central's Events register |
| `gcMask` | its Mask register and `HalpGcShadowMask`, always written together |
| `registered` | `HalpRegisteredInterrupts` |
| `connected` | sources whose `PCR->InterruptRoutine` is a driver's (external: the kernel's) |
| `softint` | `PCR->SoftwareInterrupt` |
| `polled` | a `HalpCudaRequest` in progress and the MSR it saved |
| `stack` | the machine's control stack, reduced to the levels that will be given back |

The stack is what makes this model: a handler's local variable `old` is the
frame's `saved`, and every path by which a level returns (`KeLowerIrql`, the end
of a handler, of a tick, of a DPC) pops a frame. `ArriveAt` is the common end of
all of them: set the level, write the mask, set EE from the level, and let a
waiting DPC run first if the level allows. `HalpExternalInterrupt` runs its
service routine with EE on (`ints.c:158-165`), so it is a frame that other
frames come on top of. The unguarded `HalpRegisteredInterrupts &= ~cur` of
line 181 is two steps, `LoadRegistered` and `StoreRegistered`; every other
read-modify-write of the module happens with EE off and is one step. Level
table, priority choice and mask computation are translated as they stand.
Drivers enable and disable any source but VIA1, which is the HAL's own and which
the end of `HalPxiAdbAutopoll` enables. They may enable one that is enabled, which
clears its event all the same, or disable one that is not. An interrupt with
nothing pending (`SpuriousInterrupt`) clears what is latched behind the mask.
`HalBeginSystemInterrupt` and `HalEndSystemInterrupt` are the raise and the
lower they call.

### CudaAdb (`cuda.c`) and PacketFifo

Three actors on one processor: a thread, the DPC over it, the VIA handler over
both. `ThreadRuns` and the conjuncts on `handler.at` say who preempts whom.
`presented` is the packet Cuda holds out (what `VIA_IFR` shows), `edge` the
latched VIA1 event, `ier` and `registered` the two enables on its way, `ring`,
`head`, `tail`, `dropped` the ring, `dpcQueued` the kernel's queue. A polled
request holds EE off from `BeginRequest` to `EndRequest`; Cuda acts at any time,
also then. The DPC is several steps, one for each point of the loop of
`cuda.c:321-326` at which the handler can park another packet. `EndRequest`
leaves open whether Cuda took the request, whether it answered in time and
whether what was read was the answer or an unsolicited packet that was there
first: the code cannot tell either.

`PacketFifo` says what the ring promises with no ring in it: a bounded
first-in first-out queue whose head stays put while it is handed over, and
which refuses a packet only when full. `RingIsFifo` is its specification under
the mapping that reads the occupied slots in order from the head.

### CudaVia (`cuda.c`, `HalReturnToFirmware` of `init.c`)

What `CudaAdb` takes for one step. `via` is the shift register with its event
and its direction, `lines` the three wires, `hal` where the HAL is in which call,
`cuda` what the other processor does. Every access of the HAL that Cuda can see
or disturb is a step; Cuda's steps come at any time between them, or never. A
wait of the HAL (`HalpCudaWait`) ends with the event or gives up without it: time
is no quantity, so a Cuda that is only late is one that answers after the wait
was given up. Cuda itself is external, modelled as the code treats it: it clocks
a byte when the lines tell it to, drops TREQ with its last byte, obeys a request
only if it is whole, and where a packet it holds out meets a request either may
give way. `calm` marks a transfer that met Cuda at rest and was answered in
time, for which `CarriedWhole` asks that all arrives; the other properties hold
of every transfer.

### PartitionTable (`disk.c`)

One step is one sector read or written. `ReadPass` and `FindPass` take `ReadSlot`
and `FindSlot`, the bodies of the two loops over a table's slots, through the
sector (`ReadTable` and `FindTable`, recursive functions over the slots done);
they were written twice in the code, differ, and are translated
separately, which is what `WalksAgree` is about. `WriteGroup` reads a sector,
replaces its table and writes it; either transfer may fail. `layout` and
`written` remember what the caller last read and last wrote, as long as nothing
has changed the disk since; `RoundTrip` compares the two place by place. The CHS
fields and the boot flag are left out. `IsLayout` says what a layout is that
callers pass: nothing in the code checks it. The sector of a group is the one
that the last link of the group before it names (`TableAt`); a layout that lacks a
link is one too, and the call then ends early.

### AdbPort and RamDisk (`drivers/adbport`)

`DriverEntry` with its five ways to fail, the packet callback, and the class
drivers' connect, disconnect and enable requests. `bus` is the hardware's own
idea of the keys, the buttons and the place of the mouse; `class` is what NT has
made of the events it was given; `missed` names the ports of which an event
found nobody, and notes whether the HAL's ring has dropped a packet: if not,
`AdbButtons` follows the mouse also while nobody listens. `RamDisk` has the transfer check of `ramdisk.c:49-50` in modular
arithmetic (`Word` stands for 2^32) and the geometry the driver reports;
`memory` extends beyond the image so that a write there would show.

### ArcIo, FatOpen, FatDir, FatFile, IsoDir, ConfigTree (`arcfw`)

`ArcIo` is the table of file ids: `fds` is the code's `fds[]`, `instances` is
what Open Firmware has open and where each of its instances stands, with a
64-bit position in two words of `Word`. Every call to Open Firmware may refuse
or come back short. A seek that Open Firmware cannot do is read forward
(`io.c:178-209`). `loader` is the file `load.c` holds open. The console id is
read through one pending key (`GetReadStatus` fetches it, `Read` takes it).

`FatOpen` finds the partition's first sector through the one-sector cache of
`part_sector`. `FatDir` walks the path through directories read sector by
sector, `FatFile` reads an open file along its chain with a cursor (`curIdx`,
`curClus`) that outlives the call. `IsoDir` is the same walk on a CD.
`ConfigTree` builds the nodes in the code's order, probes the SCSI targets, and
has the lookup by path and the path of a node side by side. Once the tree is
built, `HalpFixConfigTree` is one more step: it gives the adapters the registers
and lines of the two chips it expects on the board.

### ArcLoad (`load.c`; `arc_Load`, `arc_Invoke`, `arc_Execute`; the order of `main.c`)

`ram` holds, for each byte of memory, which byte of which image is there, or a
zero, or what was there before; `dirty` the bytes stored but not yet swept from
the caches; `claimed`, `noted` and `described` the pages Open Firmware gave, those
`memory.c` was told of, and those its descriptors were made from. `load_image` is
a step for each stretch that can fail, down to the section. The program that runs
may have others loaded, so the state of one load meets the next.

### The services

| Module | One step is | State |
|---|---|---|
| `Clock` | a stretch of time, a tick, a call | the decrementer as a word that runs on below zero, the two increments, the time elapsed and the time reported |
| `MachineCheck` | one machine check | the instruction, the frame's register and address |
| `ArcServices` | one call | the properties of `/options`, the one buffer, the heap's blocks, milliseconds that wrap |
| `AdbPort`, `RamDisk` | see above | |
| `ArcMemory` | a turn of `memory_init`'s inner loop or of `type_range`'s | the descriptors, the range being typed |
| `LoaderMemory` | one of the reservations | the loader's list before and after |
| `MapTransfer` | one call of `IoMapTransfer` for what is left of a buffer; the flush after it | the MDL, the runs so far, the pages swept |
| `EnvStore` | one call | the entries with their lengths, what was set last |
| `DriveLetters` | the scan, then the passes | the letters in order |
| `PciConfig` | one access to the address or the data port | the latch of the bridge, the base addresses, every caller's progress |
| `BusResources` | one call | the aperture cached at first use |
| `RealTime` | one call | Cuda's second counter |
| `Console` | one character, or one call | the cursor, text memory, and the paper on which a serial terminal shows the same |

## 4. The runs

`MCKeyboard`, `MCArcFiles` and `MCServices` each check several modules that share no state.
A variable (`layer`, `service`) chosen in the initial state names the one that
runs; the others stay at one initial state. So the state space is the sum of
the modules', not their product, and each is explored completely.

A property with several parts is one property with a name for the whole; each
part is stated and commented in the module it is about, and has a mutant of
its own in `PROJECT.json`.

| Run | Shows | Bounds |
|---|---|---|
| `MCInterrupts` | EE agrees with the level, the mask with level and register, handlers nest by rising priority and their levels fall as they unwind, no DPC over a handler, no handler for a source that does not outrank | sources 18 (VIA1, at level 21), 25 and 26 (levels 25 and 24, the pair whose order runs against their numbers); raises to DISPATCH and HIGH. Nothing else is bounded: nesting is limited by the levels themselves |
| `MCInterruptsLive` | `EventsAreServed`: an event latched for a registered source leads to its handler, unless the source is unregistered or one of two statements throws the event away (`ints.c:148`, after an interrupt with nothing pending, and `ints.c:119`, the enabling of a source once more) | two sources of different level, three edges between them; interrupts with nothing pending at any time |
| `MCKeyboard` | on the wire: the lines are idle after every call, an undisturbed transfer is carried whole, an answer with the right echo is the command's own, every call ends; above it: the ring is a FIFO, a parked packet has a DPC to come and is delivered, a packet held out has an edge or a server and is fetched | wire: a clock request and RESET SYSTEM, of two bytes each, with answers shorter than the buffer and just as long, and auto-polled packets longer than it; three transfers (a late answer meets the next call, and what that leaves the third) and two auto-polled packets. Ring of 3 (two packets, so that it fills, wraps and overflows), five packets, two requests |
| `MCPartitionTable` | the listing and the search agree, what is written is read back, every call returns | five sectors, tables of two slots, one fault, two calls. Chains with loops of one and two sectors, off the disk and into sectors without a table; layouts over one to four tables, with a last table that is not full, with a link off the disk, with a link missing |
| `MCArcFiles` | no instance leaked or closed twice, positions agree, keys in order, sound files read back byte for byte, the right volume, the first entry of a name, a tree that can be walked | three instances; every FAT of three clusters with end marks, loops and entries outside the data area; files of 0, 3, 4 and 6 bytes in clusters of 2; every table of three entries of five kinds; directories over two sectors; images from disk and CD, raw and with a stub, with sections padded, without raw data, past the image and past the file, overlapping images, three loads; machines with chips on the board, in slots and on the second bridge, whose registers come first or after the chip's own memory |
| `MCServices` | see the table above: each service's own correctness | small words and pages; every list of six pages in three types; every buffer of up to three pages; every layout of up to four partitions on up to two disks, three disks for the limit; every three base addresses; for the driver four keys (one that has no make code, two that share one, one extended), three packets, three control requests; 8-value words over an image of 6 bytes; every opcode and every extended opcode, with the registers 0, 12 and 13 about the limit; values of every length up to the buffer's, terminated and not; a millisecond counter that starts just below its wrap, over less than one turn |
| `MCInterruptsRace`, `MCCudaReset`, `MCPartitionBoot`, `MCFatStale`, `MCFatNumbers`, `MCPciRace` | the findings of section 6 | as the run each is a variation of |

Why the bounds are enough. The interrupt model has the same code for every
source, and tells sources apart only by their level and by being VIA1: with
three sources there is one above, one below and one between any two events, and
the proofs of section 5 hold for any number. A ring misbehaves when it is full,
empty or wraps: each happens in a ring of three. The partition loops carry
`base`, `origin` and `number` from one table to the next: two tables after the
first exercise each. A FAT cursor can be ahead of, at or behind the position
wanted: three clusters give each case with the end of the chain beyond it. In
the arithmetic models (`RamDisk`, `RealTime`, `BusResources`, `MapTransfer`) the
word is small and the inputs go through the values around its limits.

Where a cfg says `CHECK_DEADLOCK FALSE` the model stops because a bound on
packets, calls or keys is used up, or a service has done its one job. The
interrupt runs check deadlock: there the processor can always go on.

### Fairness

* `MCInterruptsLive`: code that runs goes on running when it gets the processor
  back. A tick may interrupt it again and again, so the returns have strong
  fairness; so has the external handler, which is again and again acceptable
  but not continuously. The kernel's raises, the devices, the drivers' calls and
  the interrupt with nothing pending have none: they may come at any time, or
  never. `discarded` holds the sources of which the step just made has thrown
  an event away; the fair steps are those that throw none away. Without that
  disjunct TLC refutes `EventsAreServed`: an event held back by the level is
  cleared by a spurious interrupt and never served (see section 6). Devices
  are bounded to a few edges because a source that fires for ever does starve
  the ones below it: that is the meaning of priority, and not a fault.
* `CudaAdb`: weak fairness of the handler, of the DPC and of a request that is
  under way. None for Cuda, nor for a thread that has not called: nobody need
  type. Without fairness of the handler nothing would be delivered; the
  processor does take an interrupt that stays latched.
* `CudaVia`: weak fairness of the HAL's steps in a call, each of which either
  finds the event or gives up. None for Cuda: that is what `CallsEnd` is about.
* `PartitionTable`: a call goes on (the disk driver answers each request, with
  an error if need be). No fairness for making calls.

All other properties are safety, and assume none.

## 5. What is proved

### The interrupt controller

`InterruptsProofs` proves, for every set of sources within the 32 of Grand
Central, every set of levels software raises to, and any depth of nesting:

| Theorem | Says |
|---|---|
| `Invariant` | `Spec => []IInv`, the inductive invariant |
| `TypeCorrect` | `Spec => []TypeOK` |
| `EnableCorrect` | EE is on exactly below CLOCK2_LEVEL and outside polled transfers |
| `MaskCorrect` | the controller lets through what the level and the register allow and nothing else |
| `HandlersNest` | unwinding only lowers the level, handlers nest by strictly rising priority (none re-enters itself) |
| `DpcsWait` | no DPC over a handler: what the ring of `cuda.c` relies on without a lock |
| `EntryCorrect` | the case `ints.c:157` says should not happen does not |

The only assumption is `InterruptsAssumption`: sources are bit numbers, raise
levels are IRQLs, `SpuriousLine` is a Boolean. TLC evaluates it in every
interrupt run.

The properties are not inductive by themselves. That a return restores a level
at which EE and the mask come out right depends on what the frame saved; that no
handler is entered below its level depends on the mask; and the mask depends on
what an interrupted handler will store into the register when it resumes. `IInv`
joins what is needed:

* `TypeOK`, `EnableMatchesLevel`, `MaskIsSound`, `MaskIsComplete`;
* the MSR that a polled request saved is the one its level wants, so that
  restoring it (`cuda.c:230`) is right;
* `Ordered`: each frame runs at a level of its own (`FrameLevel`), above the one
  it saved and at most the current one, and what a frame saved is at least the
  level of every frame below it. This carries the nesting;
* `Removals`: what a handler loaded of `HalpRegisteredInterrupts`, on its way to
  strike its source off, covers what is registered now, and inner handlers
  loaded less than outer ones. This is why the race of `ints.c:181` can bring a
  source back (section 6) and still never leave the mask with a source that is
  not registered or without one that is: nobody registers a source while a
  handler is in progress.

The proof has one lemma for each way of changing the stack (`PushOrdered`,
`PopOrdered`, `SetTopOrdered`), one for `ArriveAt` (`Arrival`), one per action
or family of actions (`...KeepsIInv`), and puts them together in `NextIInv`.
`LeastElement` proves that a non-empty set of naturals has a least element,
from the well-foundedness of strict inclusion of finite sets; it serves the
CHOOSE by which `Preferred` picks the source to serve.

### The packet ring

`CudaProofs` proves, for a ring of any length above one, any set of packets
and any bounds on packets and requests:

| Theorem | Says |
|---|---|
| `RingInvariant` | `Spec => []IInv` |
| `RingTypeCorrect` | `Spec => []TypeOK` |
| `WakeupsAreKept` | a parked packet has a DPC queued, running or about to be queued |
| `InputDoesNotWedge` | a packet held out has its event latched, or somebody will look |
| `RingImplementsFifo` | `Spec => RingIsFifo`: the ring refines `PacketFifo` |

`NoWedge` is not inductive: the handler may give up with packets left (its
`guard`), and then only an event latched while it drained brings it back.
`DrainLatched` says that there is one, `Armed` that the enables on the event's
way are set together with polling, `DeliversParked` that a packet being handed
over is in the ring. For the refinement the sequence of occupied slots is
written as a function of `head`, `tail` and `ring`; the lemmas `Parks` and the
one about advancing the head say what storing at the tail and moving the head
do to it, for which the remainder by `AdbRing` is first turned into a case
distinction (`Wrapped`), which the prover can calculate with. Every action of
the driver is then a `Park`, a `Refuse`, a start or an end of a delivery, or
leaves the queue as it is (`NextRefines`).

### The clock and the OEM disk

`HalProofs` proves `TicksKeepTime` (`ClockKeepsTime`) for every rate of the
decrementer. The invariant ties each of the three reload values in the pipeline to an increment
of as many milliseconds (`Counts`), and what has elapsed in the running interval
to what the decrementer still holds (`Runs`, `Behind`): without the first, a
changed increment could be reported with the wrong interval, and without the
second a late tick could be counted twice.

`RamDiskProofs` proves `DiskStaysInside` for every size of word, block, track and
image: the check of `ramdisk.c:49-50`, which is written so that no sum can wrap,
refuses exactly what does not fit, and a sector within the reported geometry
always fits, since cylinders are counted downwards.

### Cuda's wire

`CudaProofs` also proves `TransfersAreSound` (the lines idle after every call, an
undisturbed transfer carried whole and obeyed, an answer with the right echo the
command's own) and the types of both layers, for any commands, packet lengths
and `CUDA_MAX_REPLY`, and any number of calls. `WireInv` has these parts:

* `HalInv`: which lines are asserted and which way the register points at each
  place of a call. It gives the idle lines.
* `CueInv`: Cuda is behind the lines by one event at most, since the HAL moves
  them once and then waits or gives up.
* `ReadingInv`: where Cuda is in its packet while the HAL reads. An event left
  over from a wait that was given up can start a reading early; that reading
  runs one byte behind Cuda to its end, so its third byte is no echo. One whose
  third byte is the echo began in step with Cuda and stays so, and `EchoedOn`
  follows byte by byte.
* `CalmInv`: a transfer that met Cuda at rest and was never given up is at the
  byte where Cuda is, place by place.

Above the wire the ring's theorems are those named before: `MCKeyboard` runs the two
layers beside each other.

### The partition tables

`PartitionProofs` proves, for tables of any number of slots, any `PARTITION_MAX`, every
disk, any number of faults and of calls:

| Theorem | Says |
|---|---|
| `PartitionTypeCorrect` | a listing never outgrows the layout, and what is written is a table: no relative sector falls below zero |
| `WalksAgreeAlways` | the entry `IoSetPartitionInformation` stamps is the one that the listing gave the number, and every number listed is found |
| `WhatIsWrittenIsRead` | what was written without a fault is what a read lists, slot by slot |

`WalksAgree` is about two loops, one of which stops when the layout is full and knows
nothing of the number looked for, while the other stops at a number and knows
nothing of a limit. The proof compares both with a third, `Walk(d)`: what a walk
of disk `d` with neither has in hand at each table, a recursive function over the
tables passed. A read and a search under way are `Abreast` of it at the table
they have come to (`ReadTied`, `FindTied`), and keep `InStep` slot by slot
(`ReadFollows`, `FindFollows`, by induction over the slots). Along the walk the
numbers rise, so that one place has a number (`NumbersAreUnique`, by induction
over tables and slots); the chain may loop, and then the same sector has several
numbers, but no number two places. That a search does not give up too soon
follows because both loops count the tables they follow alike (`PassUnlisted`).
`Inv` joins these parts with the types; `StampTied` says that between search and
stamp the sector is what it was, which holds as no call comes between.

For the round trip `Laid` says that the sector of a group holds its table. `LaidTied`
carries that over the groups written so far: a group written later leaves them
alone since no two have one sector. `ReadBackTied` says that a read over what is
written is, after n tables, at the sector of group n with the first n groups
listed; slot by slot `ReadBackStep` shows that what `StoredRel` subtracted is what the
read adds, by either of the two rules (`disk.c:290-300`), and `LinksLead` that the
last link of a table leads to the next group. So the read ends with the last
group, or with the layout full and nothing in use beyond.

### The firmware's files and programs

`FilesProofs` takes the modules of `MCArcFiles` one after the other.

| Theorem | Says | Rests on |
|---|---|---|
| `FilesOwnTheirInstances` | no instance in two slots, none open without a slot, none closed in one | `FileTables`: slots and instances are each other's inverse but for the handle an opening is about to store |
| `SeeksArriveWhereSent` | a position of 64 bits arrives in its two words, or by reading on | the division by `Word` in two words, and the read-ahead never passing the target |
| `KeysReachTheCaller` | keys typed are read once, in order | the key fetched by `GetReadStatus` is the next one typed |
| `VolumesAreOpened` | the first sector of the partition asked for, and the walk ends at the file | what the one-sector cache holds at each place (`CacheIsThePartition`), the sectors in hand are the disk's (`SearchIsOnDisk`) |
| `NamesAreFoundFirst` | a name leads to the first entry that bears it, and what is said to be missing is, in a FAT directory as on a CD (there for names of more than one byte: `LongNamed`) | the sectors passed hold nothing that ends the search, and those in hand follow them (`SearchInv`, `CdInv`) |
| `ProgramsAreLoaded` | every byte of a placed image is its section's or zero, swept, in pages described as its own | `PlacedTo`: the first n sections are in memory; `PagesInv`: no other image has a page of this one's; `EndingInv`: a load that fails says so |
| `ReadsGiveTheFile` | a read of a sound FAT file returns its bytes | `FileTypes`, `ProgressInv`, `RunInv` |

`NamesAreFoundFirst` is about two lists that nothing in the code keeps: the
sectors of a directory in their order, and of these the ones gone through. The
list of sectors is laid out from the chain of clusters, a recursive function over
`0 .. n` (`LinksChain`, by induction: each cluster of it is the next of the one
before); `Belongs` says that the cluster searched is one of it, so that the step
to its next goes on where the list does, and the step from the last one comes to
the end of the list. On a CD the list is a run of sectors, of which `ahead` remain.

A chain of clusters of a file is a function iterated. That the cursor, moved along the FAT,
is at the cluster with its own index is shown from the one equation of
`ClusterOf` at the next index, so no induction over data is needed: the induction
is the specification's own, over its steps. `RunInv` then says that the sectors
a transfer takes together are those of successive clusters of the chain.

### The services

`ServicesProofs` takes the modules of `MCServices`; a lemma for each
(`CheckSteps`, `ConsoleSteps` and so on) says that a step of the whole is a step
of the one or leaves it alone.

* `ChecksReadOnes`: the opcodes are split as the handler's switch does.
* `InputsFollowTheDevices`. The class driver's keys agree with the keyboard's
  (`Agrees`) in two ways: what it takes to be down is the make code of some key
  that is held, and a key with a make code of its own is down exactly if it is
  held. More would be false: two keys that share a make code are one to NT, and
  the first to go up releases both. A packet brings two events; each keeps
  `Agrees`. For the mouse, the movement that a byte of seven bits can carry is
  what is added up, and the buttons differ from the last packet's in those the
  driver reports. `AdbButtons` follows the mouse for as long as no packet is lost.
* `FloppyStaysSound`: `EntryInv` says which devices are there at each place of
  `DriverEntry`; the disk's own part is `RamDiskProofs`.
* `ScreenShowsThePaper`: the rows of text memory are the lines on the paper, with
  blank rows below (`Shows`); a new line is either the next blank row or, on the
  last row, a scroll of both. `moved` cuts this off as soon as a caller puts the
  cursor elsewhere.
* `TransfersStayInTheBuffer`: the address that `IoMapTransfer` is given lies at
  `Limit - left` from the start of one of the buffer's two mappings, and which
  one it is can be told from the address because the mappings do not overlap.
  From there the run stops at the first page that does not follow: the least
  length at which the loop stops exists (`LeastElement`) and every page below it
  follows its predecessor, so by `Follows` each byte is where the device is sent.
  The runs so far cover what has been taken off `left`. That a run fits the
  registers that were granted follows from `Granted`.
* `FirmwareIsTrusted`: a property of `/options` is one of the `Spellings` of
  the text set last, and `strlen` takes the terminator off again; the blocks of the
  heap lie in order below `heap_used`; and the relative clock counts from the
  first reading, or from a later one while the word happened to be 0 (`RelInv`).
  Subtraction in the word gives the time since then because less than a turn of
  the word has passed.
* `OthersMemoryIsKept`: `ReservesTheRange` says what cutting a range out of a list
  does, whichever of the parts below and above it there are. Since the
  descriptors are disjoint at most one covers the range, and each page is `Held`
  by one part; a page keeps its type unless it is of the range, and a descriptor
  wholly above the range is still whole. `LoaderInv` carries that over the two
  reservations: the second finds the disk's pages together if the loader had them
  so, because the first ends below them. `DiskEnds` is the arithmetic between
  bytes and pages.
* `ServicesHaveTheirTypes` from the invariants above and that of the clock.

### What the HAL and the firmware tell others of the machine

`HalProofs` takes more modules of `MCServices`.

* `DriversFindTheirDevice` (`LeadsToTheDevice`). `BusInv` says that `HalpFbPhys` is
  nothing or the card's memory. The card's windows begin where their length
  divides the address, so that a bus address inside one and its place in the card
  have the same remainder (`HalTranslateBusAddress`); what is neither the card's nor
  a bridge's ports is returned as it is, which is above RAM. The descriptors of a
  function are those of its first n base addresses, turn by turn of the loop of
  `pci.c:243-256`: each base address has one, and only an empty one is passed over.
* `MemoryIsDescribed` (`DescribesMemory`). `ArcInv` has five parts: the types;
  `ArcOrder`, the descriptors ascend, are merged, and what is still to be typed
  (`todo`) lies behind them and below where the walk has come; `ArcCover`, the pages
  that the walk has come past are those typed and those in `todo`; `ArcPassed`,
  the available ranges gone past lie behind or beyond the bank; and `ArcUses`, each
  typed page has the type of its use. A turn of `type_range` moves pages from
  `todo` to the descriptors, of one use up to where the use changes (`Cut`); a turn
  of `memory_init` moves the walk on and puts what it passed into `todo`. The
  ranges are bytes and the descriptors pages: a page counts as available if an
  available range touches it, and two ranges may share one.
* `TheEnvironmentIsKept` (`EnvironmentIsKept`). An entry for each name at most, none
  stale, and all of them fit. `HalpEnvUsed` is the sum of the entries, a recursive
  function over the store; that an entry appended adds its bytes and one removed
  takes its own away is proved by induction (see below), and so is that nothing
  else is lost when the entries behind move down.
* `ClocksTellTheTime` (`ClocksKeepTime`) adds the time of day to the clock. The long
  division of `misc.c:154-168` is a recursive function over the bits: after each
  turn the remainder is below the divisor, and quotient and remainder make up
  the bits brought down so far. So the quotient is that of the division, for
  numbers of any width, and `RtcInv` says that Cuda has the whole seconds of what was set.
* `AloneConfigIsFaithful` (`ConfigIsFaithful`) is a theorem for a single caller: with
  two it is false (section 6). `PciInv` says for each place of an access where the
  latch points, how far the access has come and that what it has read is what the
  registers hold; for each stage of `HalpSizeBar` whether the base address is opened
  (holds ones) or as the firmware left it (`Opened`, `Holds`); and what has been
  found so far (`Sizes`). The lanes of a transfer are the bytes that follow one
  another because a transfer begins where its size divides the offset (`SizeIs`).

An induction over data is possible where it runs over `0 .. n`: `LeastElement` has
`InductionTo`, for a predicate given as a function, and `RecursionExists`, that a
recursive function over `0 .. n` satisfies its equation. Both rest on the least
element of a set of naturals. The sums and the division above, the loop over base
addresses, `IoMapTransfer`'s and the walks over partition tables are written as
recursive functions for that reason.

### From which assumptions, and what is left

The assumptions are those of the modules' constants. TLC evaluates each in a run.

* `InterruptsAssumption`, `CudaAdbAssumption`, `ClockAssumption`,
  `RamDiskAssumption`: ranges of numbers, a ring of two at least, a word that
  holds two intervals of the decrementer.
* `PartitionTableAssumption`: sectors are numbers, the disks hold sectors, and the
  layouts are what `IsLayout` says: not empty; no entry in use beyond `PARTITION_MAX`
  places, since callers pass what they have read, and changed; a partition lies
  behind its table and a link behind the first of the chain, for the code
  subtracts without looking; no link leads away from the last group; and no two
  groups have one sector. Entries not in use are free, and a link may be missing.
* `ArcIoAssumption`: ids above the console's two, and a device whose end two words
  can express.
* `LayersAssumption`, for the files: sectors and clusters are numbers, entry 0 of
  the FAT is no cluster; the clusters of a directory are finitely many, and their
  chain ends (the search of one that loops would not); the directories of a CD
  lie on it; the sections of an image do not overlap, as a linker
  lays them out, and no program bears the names the model uses for the firmware
  and for a halted machine.
* `WireAssumption`: a command is not named as the model names an auto-polled
  packet; packets have a length above zero.
* `ServicesAssumption` joins those of the services' modules: opcodes of 6 and of
  10 bits and 32 registers; a screen of at least one row and column within its
  memory; buffers inside the address space, whose two mappings do not overlap and
  whose lists of pages are as long as the pages they span; a loader's list with no
  page in two descriptors, and an aperture that ends below the disk (it is in the
  first megabyte, the disk far above); variables shorter than the buffer; and the
  relative clock asked less than one turn of its word after it was first asked.
  This last one is the code's own limit, 49 days.
  * `BusAssumption`: windows begin where their length divides the address, the
    card's memory and the bridges' ports lie above RAM, and a 64-bit base address
    takes the next one with it.
  * `ArcMemoryAssumption`: banks and available ranges ascend, as Open Firmware keeps
    them (`memory.c:85`), and the program lies below KSEG0's limit.
  * `EnvAssumption`: spellings of one name have one length.
  * `RealTimeAssumption`: the times the clock is set to are `ULONGLONG`s.
  * `PciAssumption`: a device answers the probe, decodes the highest bits of its base
    address, and the bits below them read as zero, apart from the flags'; drivers
    ask for bytes that begin within the registers.

TLC checks on small instances the same formulas that are proved.

Only model-checked:

* Liveness (`EventsAreServed`, `PacketsArrive`, `CallsReturn`, `CallsEnd`): the prover
  has no fairness and no ENABLED.
* What the folds of the community modules compute: `ConfigTree`'s tree in `TreeIsNavigable` and in `LayersTypeOK`, the selections and
  concatenations of `DriveLetters` in `LettersFollowNt`. A fold takes an operator as
  a parameter, and a theorem about all of them would too, which the provers
  cannot instantiate; each would have to become a recursive function first.
* `ConfigIsFaithful` for more than one caller, which is false.

## 6. What the code does otherwise than it says

Each of these is a run that TLC finds violated, on the code as it is.

1. `MCInterruptsRace` (`ints.c:181`). `HalpRegisteredInterrupts &= ~cur; /* nobody
   wants it: stop it */` runs with interrupts on. A higher unclaimed source
   that comes in between its load and its store strikes itself off, and the
   outer store puts it back. It then interrupts again, and is struck off then,
   so the harm is one more round; but nothing in the code says so.
2. `MCPartitionBoot` (`disk.c:338`). "Keep whatever is already in the sector
   outside the table: sector 0's boot code". When the read fails the buffer is
   zeroed, the write goes on, and the call succeeds: the boot code is gone.
3. `MCFatStale` (`fat.c:257`). On a chain that is shorter than the file's size,
   a read ends with EIO but leaves the cursor at cluster 0. The next read of
   the same place finds nothing to walk, reads the sectors in front of the data
   area, and succeeds. A damaged file system is needed; `ReadsAreFaithful` holds
   on every sound one.
4. `MCFatNumbers` (`fat.c:159`, against `fat.c:18-19` and `disk.c:58-67`). The
   firmware counts every non-empty, non-extended entry, the HAL only the types
   NT recognises. With a foreign partition in front, `partition(2)` of the
   firmware is `Partition1` of NT.
5. `MCPciRace` (`pci.c:20`). An address cycle and its data cycle are two
   accesses with neither a lock nor a raised level between. With two callers one
   is given the other's register. `MCServices` has one caller, for which every
   property of `PciConfig` holds and is proved (`AloneConfigIsFaithful`).
6. `MCCudaReset` (`cuda.c:249`, against `cuda.c:239-241`). `HalpCudaResetSystem`
   takes any reply for Cuda's assent. A packet held out when the command is sent
   collides with it, and what the HAL then reads is that packet, or the idle
   acknowledge that ends it: TRUE, and `HalReturnToFirmware` spins for a reset
   that nobody was asked for, where it would have said that it halts.

Met while modelling, and left as remarks:

* `iso_lookup` (`io.c:274`) passes over every record whose name has one byte, to
  leave out the directory itself and the one above it. A directory whose name is
  one letter is passed over with them, and a path through it gets ENOENT. Files
  are not, since their names end in a version. `LeadsToTheFirst` counts every
  record of a name and is stated for names that records hold in more than one byte.
* Two statements clear an event of a registered source that nobody has served.
  An interrupt with nothing pending clears whatever fired while masked
  (`ints.c:146-149`), and what the level masks is cleared with what is not
  registered; enabling a source that is enabled clears what it has latched
  (`ints.c:119`). Neither comment says that no event is lost. The first could take
  the edge of a packet that Cuda holds out, after which `NoWedge` would not hold
  until VIA1's next edge; `CudaAdb` has no source but VIA1 and leaves that out.
* An NCR card in a slot whose device number comes before 17 is listed before the
  chips on the board (`src/src/arc.c:54-58`): it is given the first chip's
  registers and line, that chip the second's, and the second keeps what the
  firmware listed. `AdaptersHaveTheirChips` is stated for machines without one.
* `HalpCudaGetTime` looks at the length and the echo (`cuda.c:339`) but not at the
  packet's type; after a late answer the first byte may be the attention byte.
  From the third byte on the reply is the command's own (`AnswersAreOwn`).
* A program loaded by `arc_Load` is noted (`load.c:64`), in place of the one
  before it, but the descriptors are not made again. A load that fails after its
  claim keeps it (`load.c:60`), so that a second attempt gets ENOMEM.

* `IoReadPartitionTable` with `ReturnRecognizedPartitions` passes over a
  recognised entry of length zero (`disk.c:193-195`), `HalpFindPartition` counts
  it (comment at `disk.c:226`: the same numbering). `WalksAgree` is therefore
  stated for a listing of all entries.
* `cuda.c:284-290` says an event that comes while the handler runs produces no
  second interrupt. The latch is cleared before the handler (`ints.c:161`), so
  it does; the drain loop is harmless and `NoWedge` holds with it. What would
  wedge is clearing the latch after: the mutant `LeaveServiceClearing`.
* `HalPxiAdbAutopoll` remembers the new mask before the request (`cuda.c:397`) and
  ignores its failure: a refused request is not repeated, as the next call with
  the same mask returns early. `polling` is then FALSE with `ier` set;
  the liveness properties are about packets that Cuda does hold out.
* A polled request takes whatever packet comes first (`cuda.c:428`): a key held
  out at that moment is consumed as a failed reply.
* The comments at `misc.c:240-241` and `misc.c:250-252` still say the partition
  table reader is a stub; the code reads tables.
* `HalSetDisplayParameters` accepts a row equal to the number of rows
  (`display.c:102`); what is shown afterwards is not what a terminal would show,
  which is why `ShowsTheLastLines` speaks of a cursor nobody has moved.

## 7. What is not modelled, and why

* `HalInitSystem` (`init.c`) calls the other parts once, in a fixed order, on one
  processor; its reservations are in `LoaderMemory`.
* `thunk.S` of the HAL and of the driver: descriptor calls, register access and
  cache loops in assembler; nothing is kept.
* `of.c`: the marshalling of one call. Open Firmware itself is external; what it
  may answer is left open in `ArcIo`, `FatFile`, `FatDir` and `IsoDir`.
* The rest of `arcfw/arc.c`: forwarders to what is modelled, answers that are
  constants (`arc_GetTime`, `arc_GetSystemId`), and restarts that hand the
  machine to Open Firmware. Of `main.c`, the mapping of KSEG0 and the argument
  vectors. `console.c`, `string.c` and the assembler: formatting, copying,
  switches of mode.
* The headers: declarations; their constants are the models' constants.
* The programs under `tools/` run on a developer's machine, not in the system.

Abstractions inside what is modelled, which a reader should know of:

* `CudaAdb` has one step for the transfer of one packet, whose outcomes are left
  open; `CudaVia` has the transfer and no interrupts, since the HAL runs with
  them off there or in the one handler that reads the register. In `CudaVia`
  a byte is known by where it comes from, and the ten milliseconds of a wait are
  the choice to give up.
* `ArcLoad` takes the headers of an image for what they decide: a kind, a base, a
  size and sections.
* `ArcServices`: the milliseconds cover less than one turn of the word between two
  requests, and one reading of them serves the first request, which makes two.
* `PartitionTable` has tables of two slots for four, and types in four classes.
* `ArcIo` reads and writes ids of the console only through the two fixed ids 0
  and 1; a console opened by name gets an id that is opened and closed only.
* `FatFile` reads the three FAT encodings through one table of successors.
  `FatDir` has no cyclic chain of directory clusters: on one, `dir_lookup`
  (`fat.c:116`) would read for ever.
* `ConfigTree`: several displays or networks under one bridge all have key 0,
  so that a path leads to the first of them; `Twins` names the kinds for which
  `PathsLeadBack` is not claimed. Resource lists are modelled for SCSI adapters.
* `ArcMemory` places the program where the machine has it, below KSEG0's limit, and
  lets loader pages keep their type there; the widening of a byte range to pages
  (`memory.c:87`) is modelled by what it does to the pages.
* `LoaderMemory` tells a valid, an invalid and an absent header apart, not the
  bytes in it.
* `PciConfig` has one Bandit of the two, and registers of four one-bit bytes.
  An offset and a length whose sum overflows are not among its inputs.
* `RealTime` takes the calendar for granted: `RtlTimeToSecondsSince1970` and its
  kind are the kernel's.
* `Console` has a cell for a glyph, none of its pixels; printing from two
  levels at once (`display.c:79` takes no lock) is not modelled.

Hazards seen in the code that no property covers, beside those of
`PROJECT.json`: a disk image that two descriptors share, and that therefore stays
unprotected (`oemdisk.c:153`, which prints it); the old value gone when the new
one does not fit (`misc.c:120-121`); a failed write after which `disk.c:384` goes
on to the next table; the keyboard's device left behind when the pointer's cannot
be made (`adbport.c:148`); the digits of a list of boot targets taken one by one
(`config.c:126`); an I/O error on a CD reported as "no such file"
(`io.c:308-310`).
