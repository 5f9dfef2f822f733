------------------------------ MODULE PciConfig ------------------------------
(***************************************************************************)
(* src/src/pci.c: configuration space behind one Bandit, reached through an *)
(* address port and a data port.  A step is one access to a port, so that   *)
(* callers interleave wherever the code lets them.  A byte has one bit here, *)
(* and a register four bytes: identification, a base address, and the rest  *)
(* with the interrupt line.                                                 *)
(***************************************************************************)
EXTENDS Integers, Sequences, FiniteSets

CONSTANTS
  Callers,      \* threads inside HalGetBusData and its like
  Slots,        \* IDSELs, those of empty slots too
  Present,      \* [slot -> [0 .. ConfigBytes - 1 -> 0 .. 1]]: what the firmware left
  BarBits,      \* by slot, the bits of the base address the device decodes
  InterruptLine, \* HalpPciInterruptLine
  Patched,      \* the slots whose device id is reported as another
  Spans         \* the offsets and lengths callers ask for: sets of <<offset, length>>

ConfigBytes == 12
BarAt == 4
LineAt == 8

VARIABLES
  config,   \* the devices' registers
  latch,    \* the address port: <<slot, register>>
  call,     \* by caller, HalpPciAccess in progress or ended
  sizing    \* by caller, HalpSizeBar in progress or ended

pciVars == <<config, latch, call, sizing>>

Devices == DOMAIN Present

\* A device answers the probe and decodes the highest bits of its base address,
\* so that what it decodes is a power of two; a bit below them reads as zero,
\* the flags' apart.  An access past the end, or of nothing, moves nothing.
PciAssumption ==
  /\ Devices \subseteq Slots /\ Present \in [Devices -> [0 .. ConfigBytes - 1 -> 0 .. 1]]
  /\ \A d \in Devices :
       /\ ~(Present[d][0] = 1 /\ Present[d][1] = 1)
       /\ BarBits[d] \in {{3}, {2, 3}, {1, 2, 3}}
       /\ \A n \in 1 .. 3 : n \in BarBits[d] \/ Present[d][BarAt + n] = 0
       /\ InterruptLine[d] \in 0 .. 1
  /\ Spans \subseteq (0 .. ConfigBytes - 1) \X (Nat \ {0})

Ended(got) == [at |-> "ended", write |-> FALSE, slot |-> 0, offset |-> 0, length |-> 0, done |-> 0, buffer |-> got]
NotSizing == [stage |-> 0, slot |-> 0, orig |-> <<>>, length |-> 0]

Init ==
  /\ config = Present
  /\ latch = <<CHOOSE s \in Slots : TRUE, 0>>
  /\ call = [c \in Callers |-> Ended(<<>>)]
  /\ sizing = [c \in Callers |-> NotSizing]

\* A device takes a written bit where it has one; the base address only where
\* it decodes it.  An empty slot reads as ones.
ByteAt(slot, n) == IF slot \in Devices THEN config[slot][n] ELSE 1
Taken(slot, n, v) ==
  IF n < BarAt \/ (n \in BarAt .. BarAt + 3 /\ n - BarAt \notin BarBits[slot]) THEN config[slot][n] ELSE v

Clipped(offset, length) == IF offset + length > ConfigBytes THEN ConfigBytes - offset ELSE length

Access(c, write, slot, offset, length, bytes) ==
  call' = [call EXCEPT ![c] =
             [at |-> "probe", write |-> write, slot |-> slot, offset |-> offset,
              length |-> Clipped(offset, length), done |-> 0, buffer |-> bytes]]

Ports(c, at) == call[c].at = at /\ UNCHANGED sizing

\* The vendor id is read first: all ones is an empty slot.
ProbeAddress(c) ==
  /\ Ports(c, "probe")
  /\ latch' = <<call[c].slot, 0>>
  /\ call' = [call EXCEPT ![c].at = "vendor"]
  /\ UNCHANGED config

ProbeData(c) ==
  /\ Ports(c, "vendor")
  /\ LET b == call[c]
         absent == ByteAt(latch[1], 0) = 1 /\ ByteAt(latch[1], 1) = 1
     IN  call' = [call EXCEPT ![c] =
                    IF ~absent THEN [b EXCEPT !.at = "address"]
                    ELSE Ended(IF ~b.write /\ b.offset = 0 /\ b.length >= 2 THEN <<1, 1>> ELSE <<>>)]
  /\ UNCHANGED <<config, latch>>

AccessAddress(c) ==
  /\ Ports(c, "address")
  /\ latch' = <<call[c].slot, (call[c].offset + call[c].done) \div 4>>
  /\ call' = [call EXCEPT ![c].at = "data"]
  /\ UNCHANGED config

\* Mutant: halves are moved wherever they begin.
SizeUnaligned(at, left) == IF at % 4 = 0 /\ left >= 4 THEN 4 ELSE IF left >= 2 THEN 2 ELSE 1

\* As much as alignment and what is left allow.
SizeOf(at, left) ==
  IF at % 4 = 0 /\ left >= 4 THEN 4 ELSE IF at % 2 = 0 /\ left >= 2 THEN 2 ELSE 1

\* What is reported in place of what the device says: its interrupt line, and
\* the id of the controller that the SCSI miniport knows.
Reported(b, bytes) ==
  [k \in 1 .. Len(bytes) |->
     LET n == b.offset + k - 1
     IN  IF n = LineAt THEN InterruptLine[b.slot]
         ELSE IF b.slot \in Patched /\ n \in {2, 3} /\ b.offset <= 2 /\ b.offset + Len(bytes) > 3
           THEN IF n = 2 THEN 1 ELSE 0
         ELSE bytes[k]]

\* The data port: the register is the latched one, the lane is the caller's.
AccessData(c) ==
  /\ Ports(c, "data")
  /\ LET b    == call[c]
         at   == b.offset + b.done
         size == SizeOf(at, b.length - b.done)
         lane(k) == latch[2] * 4 + ((at + k) % 4)
         slot == latch[1]
         read == b.buffer \o [k \in 1 .. size |-> ByteAt(slot, lane(k - 1))]
         now  == [b EXCEPT !.at = "address", !.done = @ + size, !.buffer = IF b.write THEN @ ELSE read]
     IN  /\ config' = IF b.write /\ slot \in Devices
                        THEN [config EXCEPT ![slot] =
                                [n \in 0 .. ConfigBytes - 1 |->
                                   IF \E k \in 0 .. size - 1 : lane(k) = n
                                     THEN Taken(slot, n, b.buffer[1 + b.done + (CHOOSE k \in 0 .. size - 1 : lane(k) = n)])
                                     ELSE @[n]]]
                        ELSE config
         /\ call' = [call EXCEPT ![c] =
                       IF now.done < b.length THEN now
                       ELSE [now EXCEPT !.at = "ended", !.buffer = IF b.write THEN @ ELSE Reported(b, @)]]
  /\ UNCHANGED latch

Free(c) == call[c].at = "ended"

\* Drivers read anything, and write beyond the base addresses.
HalGetBusDataByOffset(c) ==
  /\ Free(c) /\ sizing[c].stage = 0
  /\ \E slot \in Slots, span \in Spans : Access(c, FALSE, slot, span[1], span[2], <<>>)
  /\ UNCHANGED <<config, latch, sizing>>

HalSetBusDataByOffset(c) ==
  /\ Free(c) /\ sizing[c].stage = 0
  /\ \E slot \in Slots, v \in 0 .. 1 : Access(c, TRUE, slot, LineAt + 1, 2, <<v, 1 - v>>)
  /\ UNCHANGED <<config, latch, sizing>>

-----------------------------------------------------------------------------
(* HalpSizeBar: read, write ones, read, write back. *)

Number(b) == b[1] + 2 * b[2] + 4 * b[3] + 8 * b[4]

\* Mutant: the flag bits are taken for size.
SpanWithFlags(b) == (16 - Number(b)) % 16

\* The lowest bit stands for the flags.
Span(b) == (16 - Number([b EXCEPT ![1] = 0])) % 16

SizeBar(c) ==
  /\ Free(c) /\ sizing[c].stage = 0
  /\ \E slot \in Devices :
       /\ sizing' = [sizing EXCEPT ![c] = [NotSizing EXCEPT !.stage = 1, !.slot = slot]]
       /\ Access(c, FALSE, slot, BarAt, 4, <<>>)
  /\ UNCHANGED <<config, latch>>

\* What a read leaves in HalpSizeBar's buffer: nothing new where the slot seemed
\* empty, and the buffer begins uninitialized.
FirstRead(c)  == IF Len(call[c].buffer) = 4 THEN {call[c].buffer} ELSE [1 .. 4 -> 0 .. 1]
SecondRead(c) == IF Len(call[c].buffer) = 4 THEN call[c].buffer ELSE sizing[c].orig

\* Mutant: what the device answered is written back.
WrittenBackSized(c) == SecondRead(c)
WrittenBack(c) == sizing[c].orig

Stage(c, n) == Free(c) /\ sizing[c].stage = n /\ UNCHANGED <<config, latch>>
ToStage(c, n, s) == sizing' = [sizing EXCEPT ![c] = [s EXCEPT !.stage = n]]

\* A base address of zero is not there.
SizeOnes(c) ==
  /\ Stage(c, 1)
  /\ \E orig \in FirstRead(c) :
       IF Number(orig) = 0 THEN ToStage(c, 0, sizing[c]) /\ UNCHANGED call
       ELSE /\ ToStage(c, 2, [sizing[c] EXCEPT !.orig = orig])
            /\ Access(c, TRUE, sizing[c].slot, BarAt, 4, <<1, 1, 1, 1>>)

SizeRead(c) ==
  /\ Stage(c, 2) /\ ToStage(c, 3, sizing[c])
  /\ Access(c, FALSE, sizing[c].slot, BarAt, 4, <<>>)

SizeRestore(c) ==
  /\ Stage(c, 3) /\ ToStage(c, 4, [sizing[c] EXCEPT !.length = Span(SecondRead(c))])
  /\ Access(c, TRUE, sizing[c].slot, BarAt, 4, WrittenBack(c))

SizeDone(c) == Stage(c, 4) /\ ToStage(c, 0, sizing[c]) /\ UNCHANGED call

Next ==
  \E c \in Callers :
    \/ ProbeAddress(c) \/ ProbeData(c) \/ AccessAddress(c) \/ AccessData(c)
    \/ HalGetBusDataByOffset(c) \/ HalSetBusDataByOffset(c)
    \/ SizeBar(c) \/ SizeOnes(c) \/ SizeRead(c) \/ SizeRestore(c) \/ SizeDone(c)

-----------------------------------------------------------------------------
(* Properties. *)

\* What a caller is given is what the device it named holds at the place it
\* named, apart from what is reported in its stead and from a base address
\* that is being sized: "copy Length bytes of config space at Offset" (pci.c:52).
ReadsItsRegister ==
  \A c \in Callers :
    LET b == call[c]
        held(n) == IF b.slot \in Devices THEN Present[b.slot][n] ELSE 1
        told(n) == \/ n >= LineAt
                   \/ b.slot \in Patched /\ n \in {2, 3}
                   \/ n >= BarAt /\ \E d \in Callers : sizing[d].stage > 0
    IN  b.at = "ended" /\ ~b.write /\ b.length > 0 =>
          /\ Len(b.buffer) = b.length
          /\ \A k \in 1 .. b.length : told(b.offset + k - 1) \/ b.buffer[k] = held(b.offset + k - 1)

\* A device is found where it was: outside the sizing of a base address, no
\* base address is other than the firmware assigned it.
BarsAreKept ==
  (\A c \in Callers : sizing[c].stage = 0) =>
    \A d \in Devices, n \in BarAt .. BarAt + 3 : config[d][n] = Present[d][n]

\* What the bits of a base address are worth, the flags' apart.
Weight == <<2, 4, 8>>

\* The length found is that of the bits the device does not decode.
LengthIsDecoded ==
  \A c \in Callers : sizing[c].stage = 4 =>
    LET bits == BarBits[sizing[c].slot]
    IN  sizing[c].length = Weight[CHOOSE n \in bits : \A m \in bits : n <= m]

\* A caller that is alone reads what it named, sizes what the device decodes,
\* and leaves every device where it was (pci.c:52-98 and 210-226).
ConfigIsFaithful == ReadsItsRegister /\ BarsAreKept /\ LengthIsDecoded
=============================================================================
