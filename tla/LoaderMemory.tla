---------------------------- MODULE LoaderMemory ----------------------------
(***************************************************************************)
(* What the HAL does in phase 0 to the memory descriptors the loader left:  *)
(* init.c takes the VGA aperture out of free memory, and oemdisk.c the OEM  *)
(* disk image, for which it later answers the floppy driver.                *)
(***************************************************************************)
EXTENDS Integers, Sequences, FiniteSets

CONSTANTS
  FrameBytes,           \* bytes of a page
  ApertureLo, ApertureHi, \* the pages of the aperture
  DiskLo,               \* the page of the OEM disk's header; the image follows
  DiskBytes,            \* sizes of the image
  Lists                 \* the descriptor lists: sequences of [type, base, count]

VARIABLES
  given,    \* the list as the loader left it
  list,     \* MemoryDescriptorListHead
  header,   \* what the header page holds: [state, bytes]
  present,  \* HalpOemDiskPresent
  stage

loaderVars == <<given, list, header, present, stage>>

\* Free and temporary memory, the types the HAL gives, and all the others.
Types == {"free", "temporary", "special", "permanent", "code"}
Descriptors == [type : Types, base : Nat, count : Nat \ {0}]

PagesOf(d) == d.base .. d.base + d.count - 1

\* No page is in two descriptors.
IsList(l) ==
  /\ l \in Seq(Descriptors)
  /\ \A j, k \in 1 .. Len(l) : j < k => PagesOf(l[j]) \cap PagesOf(l[k]) = {}

\* The aperture is in the first megabyte, the disk far above it.
LoaderAssumption ==
  /\ FrameBytes \in Nat \ {0} /\ ApertureLo \in Nat /\ ApertureHi \in Nat /\ ApertureLo < ApertureHi
  /\ DiskLo \in Nat /\ ApertureHi <= DiskLo /\ DiskBytes \subseteq Nat \ {0}
  /\ \A l \in Lists : IsList(l)

Init ==
  /\ given \in Lists /\ list = given
  /\ header \in [state : {"absent", "rejected", "notFat"}, bytes : {1}] \cup [state : {"valid"}, bytes : DiskBytes]
  /\ present = FALSE /\ stage = "aperture"

Covers(d, lo, hi) == d.base <= lo /\ hi <= d.base + d.count
Covering(lo, hi) == {k \in 1 .. Len(list) : Covers(list[k], lo, hi)}

\* Mutant: any type of memory is taken.
MayTakeAny(d, movable) == TRUE

MayTake(d, movable) == d.type \in movable

\* Mutant: the part above the range is given up.
AboveLost(d, hi) == <<>>

\* What is left of a descriptor above the range.
Above(d, hi) ==
  IF d.base + d.count > hi THEN <<[type |-> d.type, base |-> hi, count |-> d.base + d.count - hi]>> ELSE <<>>

\* The pages lo .. hi - 1 are cut out of the first descriptor that covers them,
\* if its type allows it; what is above and below keeps that type.
Reserve(lo, hi, movable, type) ==
  IF Covering(lo, hi) = {} THEN list
  ELSE LET k == CHOOSE k \in Covering(lo, hi) : \A j \in Covering(lo, hi) : k <= j
           d == list[k]
       IN  IF ~MayTake(d, movable) THEN list
           ELSE SubSeq(list, 1, k - 1)
                \o (IF d.base < lo THEN <<[d EXCEPT !.count = lo - d.base]>> ELSE <<>>)
                \o <<[type |-> type, base |-> lo, count |-> hi - lo]>>
                \o Above(d, hi)
                \o SubSeq(list, k + 1, Len(list))

HalpReserveVgaAperture ==
  /\ stage = "aperture" /\ stage' = "disk"
  /\ list' = Reserve(ApertureLo, ApertureHi, {"free"}, "special")
  /\ UNCHANGED <<given, header, present>>

\* Mutant: the image's last page is left out when it is only partly used.
DiskHiDown == DiskLo + 1 + header.bytes \div FrameBytes

\* The first page after header and image.
DiskHi == DiskLo + 1 + (header.bytes + FrameBytes - 1) \div FrameBytes

\* The header is believed when it is right and the image begins like a FAT
\* disk; the disk is then there even where its pages could not be reserved.
HalpOemDiskInitialize ==
  /\ stage = "disk" /\ stage' = "done"
  /\ IF header.state # "valid" THEN UNCHANGED <<list, present>>
     ELSE /\ list' = Reserve(DiskLo, DiskHi, {"free", "temporary"}, "permanent")
          /\ present' = TRUE
  /\ UNCHANGED <<given, header>>

Next == HalpReserveVgaAperture \/ HalpOemDiskInitialize

-----------------------------------------------------------------------------
(* Properties. *)

Memory(l) == UNION {PagesOf(l[k]) : k \in 1 .. Len(l)}
TypeAt(l, p) == l[CHOOSE k \in 1 .. Len(l) : p \in PagesOf(l[k])].type

\* Cutting a range out neither loses a page nor lists one twice.
PagesAreKept ==
  /\ Memory(list) = Memory(given)
  /\ \A p \in Memory(given) : Cardinality({k \in 1 .. Len(list) : p \in PagesOf(list[k])}) = 1

\* Memory the loader has put something in is left alone, and so is all that is
\* in neither range.
LoadedIsLeftAlone ==
  \A p \in Memory(given) :
    \/ TypeAt(list, p) = TypeAt(given, p)
    \/ TypeAt(given, p) = "free" /\ p \in ApertureLo .. ApertureHi - 1
    \/ TypeAt(given, p) \in {"free", "temporary"} /\ p * FrameBytes < (DiskLo + 1) * FrameBytes + header.bytes /\ p >= DiskLo

\* The kernel frees temporary memory once it is up: where the driver will be
\* told of the disk, no page of its image is left free or temporary, unless
\* the loader's own descriptors divide it (which oemdisk.c:153 reports).
DiskIsProtected ==
  present =>
    LET bytes == DiskLo * FrameBytes .. (DiskLo + 1) * FrameBytes + header.bytes - 1
        pages == {b \div FrameBytes : b \in bytes}
    IN  \/ \A p \in pages : p \in Memory(list) => TypeAt(list, p) \notin {"free", "temporary"}
        \/ ~\E k \in 1 .. Len(given) : pages \subseteq PagesOf(given[k])

\* What is reserved is the aperture and the disk, all of the disk, and nothing
\* that was anybody else's (init.c:99-149, oemdisk.c:40-79).
ReservesItsOwn == PagesAreKept /\ LoadedIsLeftAlone /\ DiskIsProtected
=============================================================================
