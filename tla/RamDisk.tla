------------------------------- MODULE RamDisk -------------------------------
(***************************************************************************)
(* src/drivers/adbport/ramdisk.c: \Device\Floppy0, the OEM disk image in    *)
(* RAM.  Offsets and lengths are ULONGs: Word is 2^32 in the driver.        *)
(***************************************************************************)
EXTENDS Integers

CONSTANTS
  Word,        \* the range of a ULONG
  Block,       \* OEMDISK_BLOCK
  ImageBytes,  \* what HalAnsOemDiskQuery reports
  Track        \* sectors of a cylinder, 2 * 18

RamDiskAssumption ==
  /\ Word \in Nat /\ Block \in Nat \ {0} /\ Track \in Nat \ {0}
  /\ ImageBytes \in 1 .. Word - 1

ULong == 0 .. Word - 1

VARIABLES
  memory,  \* by address from the image on: who wrote it last
  status,  \* how the last request was completed
  count    \* IoStatus.Information of the last request

diskVars == <<memory, status, count>>

DiskInit ==
  /\ memory = [a \in 0 .. 2 * Word - 1 |-> IF a < ImageBytes THEN "image" ELSE "others"]
  /\ status = "none" /\ count = 0

Complete(st, n) == status' = st /\ count' = n

\* Mutant: the end of the transfer is computed first, and wraps.
RefusesSum(offset, length, high) ==
  \/ high # 0
  \/ (offset + length) % Word > ImageBytes
  \/ offset % Block # 0 \/ length % Block # 0

\* The request is out of range or not aligned.
Refuses(offset, length, high) ==
  \/ high # 0
  \/ offset > ImageBytes
  \/ length > (ImageBytes - offset) % Word
  \/ offset % Block # 0 \/ length % Block # 0

\* hasMdl: the IRP has an MDL; mapped: MmGetSystemAddressForMdl maps it.
AdbDiskReadWrite(write, offset, length, high, hasMdl, mapped) ==
  \/ /\ Refuses(offset, length, high) \/ (length # 0 /\ ~hasMdl)
     /\ Complete("invalid", 0)
     /\ UNCHANGED memory
  \/ /\ ~Refuses(offset, length, high) /\ length = 0
     /\ Complete("success", 0)
     /\ UNCHANGED memory
  \/ /\ ~Refuses(offset, length, high) /\ length # 0 /\ hasMdl
     /\ IF ~mapped THEN Complete("resources", 0) /\ UNCHANGED memory
        ELSE /\ memory' = IF write
                            THEN [a \in DOMAIN memory |->
                                    IF a \in offset .. offset + length - 1 THEN "request" ELSE memory[a]]
                            ELSE memory
             /\ Complete("success", length)

\* Mutant: a last, partial cylinder is counted.
CylindersUp == (ImageBytes \div Block + Track - 1) \div Track

\* AdbDiskGeometry's cylinders, each of Track blocks.
Cylinders == (ImageBytes \div Block) \div Track

\* IOCTL_DISK_GET_DRIVE_GEOMETRY.
AdbDiskControl ==
  /\ Complete("geometry", Cylinders)
  /\ UNCHANGED memory

DiskNext ==
  \/ \E write, hasMdl, mapped \in BOOLEAN, offset, length \in ULong, high \in {0, 1} :
       AdbDiskReadWrite(write, offset, length, high, hasMdl, mapped)
  \/ AdbDiskControl

DiskSpec == DiskInit /\ [][DiskNext]_diskVars

-----------------------------------------------------------------------------
(* Properties. *)

\* Nothing beyond the image is ever written, for any offset and length a
\* ULONG can hold (the check at ramdisk.c:49-50 must not wrap).
FenceIntact == \A a \in DOMAIN memory : a >= ImageBytes => memory[a] = "others"

\* Every sector of the geometry a caller was given can be transferred
\* (ramdisk.c:35-43 against 49-50).
GeometryIsReadable ==
  status = "geometry" => \A sector \in 0 .. count * Track - 1 : ~Refuses(sector * Block, Block, 0)

\* The disk is its image: transfers do not leave it, and the geometry
\* names nothing beyond it.
DiskStaysInside == FenceIntact /\ GeometryIsReadable
=============================================================================
