--------------------------- MODULE RamDiskProofs ----------------------------
(***************************************************************************)
(* Theorems about RamDisk for an image and a block of any size, and every   *)
(* offset and length a ULONG can hold.                                      *)
(***************************************************************************)
EXTENDS RamDisk, TLAPS

\* What is a sector of the geometry lies in the image.
SectorsAreThere == \A sector \in 0 .. Cylinders * Track - 1 : ~Refuses(sector * Block, Block, 0)

\* A geometry is answered as it was computed.
Answered == status = "geometry" => count = Cylinders

\* Division rounds down.
LEMMA DivDown ==
  ASSUME NEW a \in Nat, NEW b \in Nat \ {0}
  PROVE  a \div b \in Nat /\ (a \div b) * b <= a
<1>1. a = (a \div b) * b + (a % b)
  OBVIOUS
<1>2. a % b >= 0 /\ a \div b \in Nat /\ a % b \in Int
  OBVIOUS
<1>3. (a \div b) * b \in Int
  BY <1>2
<1> QED
  BY <1>1, <1>2, <1>3

\* Whole multiples are aligned.
LEMMA Aligned ==
  ASSUME NEW a \in Nat, NEW b \in Nat \ {0}
  PROVE  (a * b) % b = 0
OBVIOUS

\* A product grows with its factor.
LEMMA LessTimes ==
  ASSUME NEW a \in Nat, NEW c \in Nat, NEW b \in Nat, a <= c
  PROVE  a * b <= c * b
OBVIOUS

(* The geometry that is reported lies inside the image: cylinders are
   counted down, not up (ramdisk.c:35). *)
LEMMA GeometryFits == RamDiskAssumption => SectorsAreThere
<1> SUFFICES ASSUME RamDiskAssumption, NEW sector \in 0 .. Cylinders * Track - 1
             PROVE  ~Refuses(sector * Block, Block, 0)
  BY DEF SectorsAreThere
<1> DEFINE blocks == ImageBytes \div Block
<1>1. Word \in Nat /\ Block \in Nat \ {0} /\ Track \in Nat \ {0} /\ ImageBytes \in Nat /\ 1 <= ImageBytes /\ ImageBytes < Word
  BY DEF RamDiskAssumption
<1>2. blocks \in Nat /\ blocks * Block <= ImageBytes
  BY <1>1, DivDown
<1>3. Cylinders \in Nat /\ Cylinders * Track <= blocks
  BY <1>1, <1>2, DivDown DEF Cylinders
<1> HIDE DEF blocks
<1>4. sector \in Nat /\ sector + 1 <= blocks
  <2>1. Cylinders * Track \in Int
    BY <1>1, <1>3
  <2> QED
    BY <1>2, <1>3, <2>1
<1>5. (sector + 1) * Block <= blocks * Block
  BY <1>1, <1>2, <1>4, LessTimes
<1>6. (sector + 1) * Block = sector * Block + Block /\ sector * Block \in Nat /\ blocks * Block \in Nat
  BY <1>1, <1>2, <1>4
<1>7. sector * Block + Block <= ImageBytes
  BY <1>1, <1>2, <1>5, <1>6
<1>8. (ImageBytes - sector * Block) % Word = ImageBytes - sector * Block
  BY <1>1, <1>6, <1>7
<1>9. (sector * Block) % Block = 0 /\ Block % Block = 0
  <2>1. Block % Block = 0
    BY <1>1
  <2> QED
    BY <1>1, <1>4, <2>1, Aligned
<1> QED
  BY <1>1, <1>6, <1>7, <1>8, <1>9 DEF Refuses

\* A transfer that is not refused ends inside the image: the check at
\* ramdisk.c:49-50 does not wrap.
LEMMA TransfersFit ==
  ASSUME RamDiskAssumption, NEW offset \in ULong, NEW length \in ULong, NEW high, ~Refuses(offset, length, high)
  PROVE  offset + length <= ImageBytes
<1>1. Word \in Nat /\ ImageBytes \in Nat /\ ImageBytes < Word /\ offset \in Nat /\ length \in Nat
  BY DEF RamDiskAssumption, ULong
<1>2. offset <= ImageBytes /\ length <= (ImageBytes - offset) % Word
  BY <1>1 DEF Refuses
<1>3. (ImageBytes - offset) % Word = ImageBytes - offset
  BY <1>1, <1>2
<1> QED
  BY <1>1, <1>2, <1>3

IInv == FenceIntact /\ Answered

(* The device begins with the invariant. *)
LEMMA InitIInv == RamDiskAssumption /\ DiskInit => IInv
BY DEF DiskInit, IInv, FenceIntact, Answered, RamDiskAssumption

(* Every transfer and every control call keeps it. *)
LEMMA NextIInv == RamDiskAssumption /\ IInv /\ [DiskNext]_diskVars => IInv'
<1> SUFFICES ASSUME RamDiskAssumption, IInv, [DiskNext]_diskVars PROVE IInv'
  OBVIOUS
<1>1. CASE UNCHANGED diskVars
  BY <1>1 DEF diskVars, IInv, FenceIntact, Answered
<1>2. CASE AdbDiskControl
  BY <1>2 DEF AdbDiskControl, Complete, IInv, FenceIntact, Answered
<1>3. ASSUME NEW write \in BOOLEAN, NEW hasMdl \in BOOLEAN, NEW mapped \in BOOLEAN,
             NEW offset \in ULong, NEW length \in ULong, NEW high \in {0, 1},
             AdbDiskReadWrite(write, offset, length, high, hasMdl, mapped)
      PROVE  IInv'
  <2>1. Answered'
    BY <1>3 DEF AdbDiskReadWrite, Complete, Answered
  <2>2. FenceIntact'
    <3>1. CASE UNCHANGED memory
      BY <3>1 DEF IInv, FenceIntact
    <3>2. CASE /\ ~Refuses(offset, length, high)
               /\ memory' = [a \in DOMAIN memory |-> IF a \in offset .. offset + length - 1 THEN "request" ELSE memory[a]]
      <4>1. offset + length <= ImageBytes
        BY <3>2, TransfersFit
      <4>2. offset \in Int /\ length \in Int /\ ImageBytes \in Int
        BY DEF ULong, RamDiskAssumption
      <4>3. ASSUME NEW a \in DOMAIN memory, a >= ImageBytes PROVE a \notin offset .. offset + length - 1
        BY <4>1, <4>2, <4>3
      <4> QED
        BY <3>2, <4>3 DEF IInv, FenceIntact
    <3> QED
      BY <1>3, <3>1, <3>2 DEF AdbDiskReadWrite
  <2> QED
    BY <2>1, <2>2 DEF IInv
<1> QED
  BY <1>1, <1>2, <1>3 DEF DiskNext

\* Whatever is asked of it, the disk writes nothing beyond its image, and
\* every sector of the geometry it tells can be transferred
\* (ramdisk.c:35-50).
THEOREM DiskIsItsImage == ASSUME RamDiskAssumption PROVE DiskSpec => []DiskStaysInside
<1>1. DiskInit => IInv
  BY InitIInv
<1>2. IInv /\ [DiskNext]_diskVars => IInv'
  BY NextIInv
<1>3. IInv => DiskStaysInside
  BY GeometryFits DEF IInv, Answered, SectorsAreThere, DiskStaysInside, GeometryIsReadable
<1> QED
  BY <1>1, <1>2, <1>3, PTL DEF DiskSpec
=============================================================================
