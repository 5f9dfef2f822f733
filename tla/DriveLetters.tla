---------------------------- MODULE DriveLetters ----------------------------
(***************************************************************************)
(* src/src/misc.c: IoAssignDriveLetters.  Each disk is scanned for its      *)
(* recognised partitions, in the order IoReadPartitionTable numbers them;   *)
(* then letters are handed out in NT's order.                               *)
(***************************************************************************)
EXTENDS Integers, Sequences, FiniteSets, SequencesExt

CONSTANTS
  PrimarySlots,  \* 4: the slots of the MBR come first in a layout
  MaxParts,      \* HALP_MAX_PARTS
  MaxDisks,      \* HALP_MAX_DISKS
  Letters,       \* how many there are from C: to Z:
  Setups         \* machines: [floppies, disks: sequences of layouts, cds, boot]

(* A layout is a sequence of BOOLEANs, an entry recognised or not, and the   *)
(* empty one a disk that could not be read.                                  *)

VARIABLES
  installed, \* the machine
  scanned,   \* by disk, HalpDiskParts: its partitions, [number, primary]
  letters,   \* the devices from C: on
  floppies,  \* the devices A: and B:
  bootLetter \* <<>>, or the device whose letter the system path got

letterVars == <<installed, scanned, letters, floppies, bootLetter>>

Floppy(i) == <<"Floppy", i>>
Partition(d, n) == <<"Harddisk", d, n>>
CdRom(i) == <<"CdRom", i>>

Disks == installed.disks
Scannable == IF Len(Disks) < MaxDisks THEN Len(Disks) ELSE MaxDisks

Init ==
  /\ installed \in Setups
  /\ scanned = <<>> /\ letters = <<>> /\ floppies = <<>> /\ bootLetter = <<>>

Truncate(s, n) == IF Len(s) <= n THEN s ELSE SubSeq(s, 1, n)

\* A recognised partition's number: it is counted in the order of the layout.
Numbered(layout) ==
  [k \in 1 .. Len(layout) |-> [number |-> IF layout[k] THEN Cardinality({j \in 1 .. k : layout[j]}) ELSE 0,
                               primary |-> k <= PrimarySlots]]

HalpScanDisk ==
  /\ Len(scanned) < Scannable
  /\ scanned' = Append(scanned, Truncate(SelectSeq(Numbered(Disks[Len(scanned) + 1]), LAMBDA p : p.number # 0), MaxParts))
  /\ UNCHANGED <<installed, letters, floppies, bootLetter>>

\* The first of a disk's primary partitions, 0 if it has none.
FirstPrimary(parts) ==
  IF \E k \in 1 .. Len(parts) : parts[k].primary
    THEN CHOOSE k \in 1 .. Len(parts) : parts[k].primary /\ \A j \in 1 .. k - 1 : ~parts[j].primary
    ELSE 0

\* Mutant: the last pass takes up the first primary again.
InPassAgain(pass, parts, k) ==
  CASE pass = 0 -> k = FirstPrimary(parts)
    [] pass = 1 -> ~parts[k].primary
    [] pass = 2 -> parts[k].primary

\* Mutant: the logical drives wait until all the primaries have letters.
InPassSwapped(pass, parts, k) ==
  CASE pass = 0 -> k = FirstPrimary(parts)
    [] pass = 2 -> ~parts[k].primary
    [] pass = 1 -> parts[k].primary /\ k # FirstPrimary(parts)

InPass(pass, parts, k) ==
  CASE pass = 0 -> k = FirstPrimary(parts)
    [] pass = 1 -> ~parts[k].primary
    [] pass = 2 -> parts[k].primary /\ k # FirstPrimary(parts)

\* The devices of disk d that a pass gives letters to: Partition1 when the scan
\* brought nothing.
PassDevices(pass, d) ==
  LET parts == scanned[d]
      here  == SelectSeq([k \in 1 .. Len(parts) |-> k], LAMBDA k : InPass(pass, parts, k))
  IN  IF parts = <<>> THEN IF pass = 0 THEN <<Partition(d, 1)>> ELSE <<>>
      ELSE [j \in 1 .. Len(here) |-> Partition(d, parts[here[j]].number)]

AllDevices ==
  FlattenSeq([m \in 1 .. 3 * Scannable |->
                PassDevices((m - 1) \div Scannable, 1 + ((m - 1) % Scannable))])
  \o [i \in 1 .. installed.cds |-> CdRom(i)]

BootDevice(boot, fl, ls) == IF boot \in ToSet(fl) \cup ToSet(ls) THEN boot ELSE <<>>

\* The letters; the system path gets the one of the boot device, if it has any.
AssignLetters ==
  /\ Len(scanned) = Scannable /\ letters = <<>>
  /\ floppies' = [i \in 1 .. IF installed.floppies < 2 THEN installed.floppies ELSE 2 |-> Floppy(i)]
  /\ letters' = Truncate(AllDevices, Letters)
  /\ bootLetter' = BootDevice(installed.boot, floppies', letters')
  /\ UNCHANGED <<installed, scanned>>

Next == HalpScanDisk \/ AssignLetters

-----------------------------------------------------------------------------
(* Properties. *)

Assigned == letters # <<>>

\* The recognised partitions of the disks that could be scanned.
Volumes == {Partition(d, n) : d \in 1 .. Scannable, n \in 1 .. MaxParts} \cap
           UNION {{Partition(d, Numbered(Disks[d])[k].number) : k \in 1 .. Len(Disks[d])} : d \in 1 .. Scannable}

\* Every volume has exactly one letter while letters last, so that no file
\* system is out of Setup's reach and none is reached under two names.
OneLetterEach ==
  Assigned =>
    /\ \A j, k \in 1 .. Len(letters) : letters[j] = letters[k] => j = k
    /\ Len(letters) < Letters => Volumes \subseteq ToSet(letters)

\* NT's order: the first primary of every disk, the logical drives, the other
\* primaries, the CD-ROMs.
Rank(device) ==
  IF device[1] = "CdRom" THEN 3
  ELSE LET layout == Disks[device[2]]
           at == {k \in 1 .. Len(layout) : layout[k] /\ Numbered(layout)[k].number = device[3]}
           k == CHOOSE k \in at : TRUE
       IN  IF at = {} THEN 0
           ELSE IF k > PrimarySlots THEN 1
           ELSE IF \E j \in 1 .. k - 1 : layout[j] THEN 2
           ELSE 0

InNtOrder ==
  \A j, k \in 1 .. Len(letters) : j < k =>
    \/ Rank(letters[j]) < Rank(letters[k])
    \/ /\ Rank(letters[j]) = Rank(letters[k])
       /\ \/ letters[j][2] < letters[k][2]
          \/ letters[j][2] = letters[k][2] /\ letters[j][3] < letters[k][3]

\* Each volume has its letter, and they are given out as NT gives them out
\* (misc.c:341-397).
LettersFollowNt == OneLetterEach /\ InNtOrder
=============================================================================
