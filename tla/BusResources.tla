----------------------------- MODULE BusResources -----------------------------
(***************************************************************************)
(* src/src/pci.c: where the CPU finds a bus address (HalTranslateBusAddress) *)
(* and which resources a slot is given (HalAssignSlotResources).  Addresses  *)
(* are a small range whose upper half is PCI memory; the base addresses are  *)
(* read and sized as PciConfig does it, here in one step.                    *)
(***************************************************************************)
EXTENDS Integers, Sequences, FiniteSets

CONSTANTS
  Addresses,      \* bus and CPU addresses: 0 .. n
  PciMemory,      \* below it the CPU sees RAM (0x80000000)
  Window,         \* the length of the legacy VGA window
  Windows,        \* the bus addresses it begins at: 0xA0000 and where it was once moved
  Mirror,         \* where BAR0 of the 54M30 answers for it
  Vram,           \* what BAR0 may hold, and 0 where there is no card
  Bridge,         \* by bus, the CPU address of its I/O space (HalpBanditBase); no bus, no entry
  IoFirst, IoSize,   \* the I/O ports that are translated: 0x3B0 up
  IsaLast,        \* the last port an ISA driver is let at (0x3DF)
  Headers,        \* functions: [bars, line], bars a sequence of base addresses, line in 0 .. 1
  MaxBars         \* 6

\* The windows are as they lie: each begins where its length divides the
\* address, and is reached in the card's BAR0, which like the bridges' I/O spaces
\* is above RAM.  Of two base addresses a 64-bit one takes, the second is none.
BarKinds == {"none", "port", "memory32", "memory64"}
BusAssumption ==
  /\ Addresses \subseteq Nat /\ PciMemory \in Nat /\ Window \in Nat \ {0} /\ Mirror \in Nat
  /\ \A w \in Windows : w \in Nat /\ w % Window = 0
  /\ \A v \in Vram : v \in Nat /\ (v = 0 \/ v >= PciMemory)
  /\ 0 \in DOMAIN Bridge /\ \A b \in DOMAIN Bridge : Bridge[b] \in Nat /\ Bridge[b] >= PciMemory
  /\ IoFirst \in Nat /\ IoSize \in Nat /\ IsaLast \in Nat /\ MaxBars \in Nat
  /\ \A h \in Headers :
       /\ h.line \in Nat /\ Len(h.bars) <= MaxBars
       /\ h.bars \in Seq([kind : BarKinds, base : Nat, length : Nat])
       /\ \A k \in 1 .. Len(h.bars) - 1 : h.bars[k].kind = "memory64" => h.bars[k + 1].kind = "none"

NotThere == [kind |-> "none", base |-> 0, length |-> 0]

VARIABLES
  card,      \* what BAR0 of the 54M30 holds
  fbPhys,    \* HalpFbPhys, which remembers it
  asked,     \* what a driver asked about: [type, bus, space, address]
  found,     \* the CPU's address for it, -1 where refused
  function,  \* the function resources were assigned to
  resources  \* its descriptors

busVars == <<card, fbPhys, asked, found, function, resources>>

NoAddress == [type |-> "other", bus |-> 0, space |-> "memory", address |-> 0]
NoFunction == [bars |-> <<>>, line |-> 0]

Init ==
  /\ card \in Vram /\ fbPhys = 0
  /\ asked = NoAddress /\ found = -1
  /\ function = NoFunction /\ resources = <<>>

-----------------------------------------------------------------------------
(* HalTranslateBusAddress. *)

\* HalpVgaVramPhys: asked of the card until it is known.
HalpVgaVramPhys == IF fbPhys # 0 THEN fbPhys ELSE card

\* Mutant: the window is taken for half of its length.
InWindowHalf(a) == a % (Window \div 2)

InWindow(a) == a % Window
IsWindow(a) == \E w \in Windows : a \in w .. w + Window - 1

\* Mutant: whatever is no window is where the bus says.
MemoryAnywhere(a) ==
  IF IsWindow(a) THEN IF HalpVgaVramPhys = 0 THEN -1 ELSE HalpVgaVramPhys + Mirror + InWindow(a)
  ELSE a

PciMemoryAt(a) ==
  IF IsWindow(a) THEN IF HalpVgaVramPhys = 0 THEN -1 ELSE HalpVgaVramPhys + Mirror + InWindow(a)
  ELSE IF a < PciMemory THEN -1 ELSE a

PciPort(bus, a) == IF a >= IoSize \/ a < IoFirst THEN -1 ELSE Bridge[bus] + a

\* There is no ISA bus, but a VGA chip whose ports are ISA's.
IsaAt(space, a) ==
  IF space = "io" THEN IF a \in IoFirst .. IsaLast THEN Bridge[0] + a ELSE -1
  ELSE IF a < PciMemory THEN -1 ELSE a

HalTranslateBusAddress(r, a) ==
  CASE r.type = "pci" /\ r.bus \notin DOMAIN Bridge -> -1
    [] r.type = "pci" /\ r.bus \in DOMAIN Bridge    -> IF r.space = "io" THEN PciPort(r.bus, a) ELSE PciMemoryAt(a)
    [] r.type = "isa"                               -> IsaAt(r.space, a)
    [] OTHER                                        -> -1

TranslateAddress ==
  \E r \in [type : {"pci", "isa", "other"}, bus : DOMAIN Bridge \cup {9}, space : {"io", "memory"}, address : Addresses] :
    /\ asked' = r
    /\ found' = HalTranslateBusAddress(r, r.address)
    /\ fbPhys' = IF r.type = "pci" /\ r.bus \in DOMAIN Bridge /\ r.space = "memory" /\ IsWindow(r.address)
                   THEN HalpVgaVramPhys ELSE fbPhys
    /\ function' = NoFunction /\ resources' = <<>>
    /\ UNCHANGED card

-----------------------------------------------------------------------------
(* HalAssignSlotResources. *)

\* HalpSizeBar finds what PciConfig finds; an address of zero is not there.
HalpSizeBar(h, bar) == IF bar <= Len(h.bars) THEN h.bars[bar] ELSE NotThere

Descriptor(b) == [kind |-> IF b.kind = "port" THEN "port" ELSE "memory", base |-> b.base, length |-> b.length]

WithInterrupt(h, descs) ==
  IF h.line = 0 THEN descs ELSE Append(descs, [kind |-> "interrupt", base |-> h.line, length |-> 0])

\* After each base address, the descriptors the loop has made and whether it
\* passes over the next one, the upper half of a 64-bit address.
LoopOver(h, wide) ==
  LET after[bar \in 0 .. MaxBars] ==
        IF bar = 0 THEN [skip |-> FALSE, descs |-> <<>>]
        ELSE LET v == HalpSizeBar(h, bar)
             IN  IF after[bar - 1].skip \/ v.kind = "none" THEN [skip |-> FALSE, descs |-> after[bar - 1].descs]
                 ELSE [skip |-> v.kind \in wide, descs |-> Append(after[bar - 1].descs, Descriptor(v))]
  IN  after

\* Mutant: every memory address is taken for a 64-bit one.
RangesOfWide(h) == LoopOver(h, {"memory32", "memory64"})[MaxBars].descs

RangesOf(h) == LoopOver(h, {"memory64"})[MaxBars].descs

HalAssignSlotResources ==
  \E h \in Headers :
    /\ function' = h
    /\ resources' = WithInterrupt(h, RangesOf(h))
    /\ asked' = NoAddress /\ found' = -1
    /\ UNCHANGED <<card, fbPhys>>

Next == TranslateAddress \/ HalAssignSlotResources

-----------------------------------------------------------------------------
(* Properties. *)

\* "handing it back would let a driver write over the kernel" (pci.c:178-179):
\* no bus address is found in RAM.
NeverInRam == found = -1 \/ found >= PciMemory

\* The video port driver has both ends of a range translated before it maps
\* it (pci.c:159-162).  A range of ports, of one window, or of PCI memory beside
\* the windows, both of whose ends are translated, is as long for the CPU as on
\* the bus: the driver maps all of it and nothing else.
OneKind(space, lo, hi) ==
  \/ space = "io"
  \/ \E w \in Windows : lo >= w /\ hi < w + Window
  \/ lo >= PciMemory /\ \A w \in Windows : hi < w \/ lo >= w + Window

RangeIsWhole ==
  \A hi \in Addresses :
    LET end == HalTranslateBusAddress(asked, hi)
    IN  hi >= asked.address /\ found # -1 /\ end # -1 /\ OneKind(asked.space, asked.address, hi)
          => end - found = hi - asked.address

\* A driver is handed every address the function decodes once, its line if it
\* has one, and nothing it does not decode, in no more descriptors than
\* HalAssignSlotResources has room for.
DecodersAreGiven ==
  LET real == {k \in DOMAIN function.bars : function.bars[k].kind # "none"}
  IN  /\ Len(resources) <= MaxBars + 1
      /\ Len(resources) = Cardinality(real) + (IF function.line = 0 THEN 0 ELSE 1)
      /\ \A k \in real : \E n \in DOMAIN resources : resources[n] = Descriptor(function.bars[k])

\* What a driver is told of a device leads to that device (pci.c:130-279).
LeadsToTheDevice == NeverInRam /\ RangeIsWhole /\ DecodersAreGiven
=============================================================================
