--------------------------- MODULE PartitionTable ---------------------------
(***************************************************************************)
(* src/src/disk.c: IoReadPartitionTable, HalpFindPartition with             *)
(* IoSetPartitionInformation, and IoWritePartitionTable, over a disk whose  *)
(* reads and writes may fail.  One step is one sector read or written       *)
(* (HalpDiskIo).  The CHS fields and the boot flag are left out.            *)
(***************************************************************************)
EXTENDS Integers, Sequences

CONSTANTS
  Lbas,          \* the sectors of the disk that may hold tables
  Slots,         \* entries in a table (four on disk)
  PartitionMax,  \* PARTITION_MAX
  Disks,         \* the disks a behaviour may start with
  Layouts,       \* the layouts callers pass to IoWritePartitionTable
  ReadModes,     \* ReturnRecognizedPartitions, as callers pass it
  MaxFaults,     \* bound on failing transfers
  MaxCalls       \* bound on calls

Recognized == {"fat"}
Types == {"unused", "fat", "extended", "other"}

Entry == [type : Types, rel : Nat, len : Nat]
Blank == [type |-> "unused", rel |-> 0, len |-> 0]

\* A sector: its magic, its boot code (or zeros), and its table.
Sector == [magic : BOOLEAN, code : {"code", "zeros"}, table : [1 .. Slots -> Entry]]
Zeroed == [magic |-> FALSE, code |-> "zeros", table |-> [i \in 1 .. Slots |-> Blank]]

VARIABLES
  disk,    \* the sectors
  call,    \* the call in progress
  layout,  \* what the caller holds from its last read, as long as it is current
  written, \* the layout last written without a fault, as long as it is current
  faults, calls

vars == <<disk, call, layout, written, faults, calls>>

NoCall   == [op |-> "none"]
Nothing  == [known |-> FALSE, mode |-> FALSE, entries |-> <<>>]
Readable(lba) == lba \in Lbas

-----------------------------------------------------------------------------
(* One table: what the loops over the slots of a sector compute. *)

\* Mutant: the layout may overflow.
HasRoomAlways(s) == TRUE

HasRoom(s) == Len(s.out) < PartitionMax

\* IoReadPartitionTable on one slot.
ReadSlot(s, e) ==
  LET isExt    == e.type = "extended"
      absolute == IF isExt /\ ~s.first THEN s.origin + e.rel ELSE s.base + e.rel
      skipped  == s.mode /\ (isExt \/ e.type = "unused" \/ e.len = 0)
      num      == IF e.type \in Recognized /\ ~skipped THEN s.number + 1 ELSE s.number
  IN  IF ~HasRoom(s) THEN s ELSE
      [s EXCEPT !.origin = IF isExt /\ s.first THEN e.rel ELSE @,
                !.next   = IF isExt THEN absolute ELSE @,
                !.saw    = @ \/ isExt,
                !.number = num,
                !.out    = IF skipped THEN @
                           ELSE Append(@, [start |-> absolute, len |-> e.len, type |-> e.type,
                                           number |-> IF e.type \in Recognized THEN num ELSE 0])]

\* All slots of a sector, one after the other.
ReadTable(s, table) ==
  LET after[i \in 0 .. Slots] == IF i = 0 THEN s ELSE ReadSlot(after[i - 1], table[i])
  IN  after

\* Mutant: every entry in use is counted, recognised or not.
IsCountedInUse(e) == e.type \notin {"extended", "unused"}

IsCounted(e) == e.type \in Recognized

\* HalpFindPartition on one slot; slot is 0 until the entry is found.
FindSlot(s, i) ==
  LET e     == s.table[i]
      isExt == e.type = "extended"
      hit   == IsCounted(e) /\ s.number + 1 = s.want
  IN  IF s.slot # 0 THEN s ELSE
      [s EXCEPT !.origin = IF isExt /\ s.first THEN e.rel ELSE @,
                !.next   = IF ~isExt THEN @ ELSE IF s.first THEN e.rel ELSE s.origin + e.rel,
                !.saw    = @ \/ isExt,
                !.number = IF IsCounted(e) THEN @ + 1 ELSE @,
                !.slot   = IF hit THEN i ELSE @]

FindTable(s) ==
  LET after[i \in 0 .. Slots] == IF i = 0 THEN s ELSE FindSlot(after[i - 1], i)
  IN  after

\* IoWritePartitionTable on the entries of one group.
GroupOf(entries, g) ==
  SubSeq(entries, g * Slots + 1, IF (g + 1) * Slots <= Len(entries) THEN (g + 1) * Slots ELSE Len(entries))
Groups(entries) == (Len(entries) + Slots - 1) \div Slots
Kept(e) == e.type # "unused" /\ e.len # 0
IsLink(e) == Kept(e) /\ e.type = "extended"

\* Mutant: links are stored like entries, relative to their own table.
StoredRelChained(e, g, lba, origin) == IF e.type = "extended" /\ g = 0 THEN e.start ELSE e.start - lba

StoredRel(e, g, lba, origin) ==
  IF e.type # "extended" THEN e.start - lba
  ELSE IF g = 0 THEN e.start ELSE e.start - origin

TableFor(group, g, lba, origin) ==
  [i \in 1 .. Slots |->
     IF i <= Len(group) /\ Kept(group[i])
       THEN [type |-> group[i].type, rel |-> StoredRel(group[i], g, lba, origin), len |-> group[i].len]
       ELSE Blank]

\* The start of the last link of a group, 0 without one.
LinkOf(group) ==
  LET links == {i \in 1 .. Len(group) : IsLink(group[i])}
  IN  IF links = {} THEN 0 ELSE group[CHOOSE i \in links : \A j \in links : j <= i].start

\* The sector of a group: that of the first is 0, the one before says the others'.
TableAt(entries, g) == IF g = 0 THEN 0 ELSE LinkOf(GroupOf(entries, g - 1))

\* What a caller's layout is made of: one entry at least, and no more in use
\* than a read returns; a partition lies behind its table, a link behind the
\* first one; a link leads to a group, and no two groups share a sector.
Wanted == [start : Nat, len : Nat, type : Types]

IsEntry(entries, k) ==
  LET g == (k - 1) \div Slots
  IN  /\ k <= PartitionMax
      /\ entries[k].start >= TableAt(entries, IF IsLink(entries[k]) /\ g # 0 THEN 1 ELSE g)
      /\ IsLink(entries[k]) => g + 1 < Groups(entries)

IsLayout(entries) ==
  /\ entries \in Seq(Wanted) \ {<<>>}
  /\ \A k \in DOMAIN entries : Kept(entries[k]) => IsEntry(entries, k)
  /\ \A h \in 1 .. Groups(entries) - 1, g \in 0 .. Groups(entries) - 1 :
       g < h /\ TableAt(entries, h) # 0 => TableAt(entries, g) # TableAt(entries, h)

ASSUME PartitionTableAssumption ==
  /\ 0 \in Lbas /\ Lbas \subseteq Nat
  /\ Slots \in Nat \ {0} /\ PartitionMax \in Nat \ {0}
  /\ ReadModes \subseteq BOOLEAN
  /\ MaxFaults \in Nat /\ MaxCalls \in Nat
  /\ \A d \in Disks : d \in [Lbas -> Sector]
  /\ \A entries \in Layouts : IsLayout(entries)

-----------------------------------------------------------------------------
Init ==
  /\ disk \in Disks
  /\ call = NoCall
  /\ layout = Nothing /\ written = Nothing
  /\ faults = 0 /\ calls = 0

Begin(c) ==
  /\ call = NoCall
  /\ calls < MaxCalls
  /\ calls' = calls + 1
  /\ call' = c
  /\ UNCHANGED <<disk, written, faults>>

BeginRead(mode) ==
  /\ Begin([op |-> "read", mode |-> mode, base |-> 0, first |-> TRUE, origin |-> 0, next |-> 0,
            saw |-> FALSE, passes |-> 0, number |-> 0, out |-> <<>>])
  /\ UNCHANGED layout

BeginSet(number, type) ==
  /\ Begin([op |-> "find", want |-> number, type |-> type, base |-> 0, first |-> TRUE, origin |-> 0,
            next |-> 0, saw |-> FALSE, passes |-> 0, number |-> 0, slot |-> 0,
            table |-> [i \in 1 .. Slots |-> Blank]])
  /\ UNCHANGED layout

BeginWrite(entries) ==
  /\ Begin([op |-> "write", entries |-> entries, group |-> 0, lba |-> 0, origin |-> 0, ok |-> TRUE])
  /\ layout' = Nothing

\* The call returns; `rec' is what the caller now holds of the disk.
ReturnRead(rec) == call' = NoCall /\ layout' = rec

Fail == faults < MaxFaults /\ faults' = faults + 1

\* The outcomes of the transfers of one step: off the disk all of them fail,
\* on it a failure is one of the MaxFaults.
Transfers(lba, readOk, writeOk) ==
  LET failed == (IF readOk THEN 0 ELSE 1) + (IF writeOk THEN 0 ELSE 1)
  IN  IF Readable(lba) THEN faults + failed <= MaxFaults /\ faults' = faults + failed
      ELSE failed = 2 /\ UNCHANGED faults

\* The read fails, or there is no table: what was found so far is returned,
\* and nothing at all if it was the first sector that failed.
ReadStops ==
  /\ call.op = "read"
  /\ \/ /\ Fail \/ (~Readable(call.base) /\ UNCHANGED faults)
        /\ ReturnRead(IF call.first THEN Nothing
                      ELSE [known |-> FALSE, mode |-> call.mode, entries |-> call.out])
     \/ /\ Readable(call.base) /\ ~disk[call.base].magic
        /\ ReturnRead([known |-> TRUE, mode |-> call.mode, entries |-> call.out])
        /\ UNCHANGED faults
  /\ UNCHANGED <<disk, written, calls>>

\* Mutant: the tables followed are not counted.
NextPassUncounted(s) == s.passes

NextPass(s) == s.passes + 1

\* One table is read and its slots walked; then on to the next of the chain.
ReadPass ==
  /\ call.op = "read" /\ Readable(call.base) /\ disk[call.base].magic
  /\ LET s == ReadTable([call EXCEPT !.saw = FALSE, !.next = call.base], disk[call.base].table)[Slots]
         over == ~s.saw \/ s.next = s.base \/ Len(s.out) >= PartitionMax \/ NextPass(s) > PartitionMax
     IN  IF over
           THEN ReturnRead([known |-> TRUE, mode |-> s.mode, entries |-> s.out])
           ELSE /\ call' = [s EXCEPT !.base = s.next, !.first = FALSE, !.passes = NextPass(s)]
                /\ UNCHANGED layout
  /\ UNCHANGED <<disk, written, faults, calls>>

\* The search fails: an unreadable sector, or one without a table.
FindStops ==
  /\ call.op = "find"
  /\ \/ Fail
     \/ (Readable(call.base) => ~disk[call.base].magic) /\ UNCHANGED faults
  /\ call' = NoCall
  /\ UNCHANGED <<disk, layout, written, calls>>

FindPass ==
  /\ call.op = "find" /\ Readable(call.base) /\ disk[call.base].magic
  /\ LET s == FindTable([call EXCEPT !.saw = FALSE, !.next = call.base, !.table = disk[call.base].table])[Slots]
         over == ~s.saw \/ s.next = s.base \/ NextPass(s) > PartitionMax
     IN  call' = IF s.slot # 0 THEN [s EXCEPT !.op = "stamp"]
                 ELSE IF over THEN NoCall
                 ELSE [s EXCEPT !.base = s.next, !.first = FALSE, !.passes = @ + 1]
  /\ UNCHANGED <<disk, layout, written, faults, calls>>

\* IoSetPartitionInformation writes the type back into the sector it found.
SetPartitionType ==
  /\ call.op = "stamp"
  /\ \/ /\ disk' = [disk EXCEPT ![call.base].table[call.slot].type = call.type]
        /\ layout' = Nothing /\ written' = Nothing
        /\ UNCHANGED faults
     \/ Fail /\ UNCHANGED <<disk, layout, written>>
  /\ call' = NoCall
  /\ UNCHANGED calls

\* One group: read the sector to keep what surrounds the table (zeros if the
\* read fails), replace the table, write.  A failed write is remembered and
\* the groups after it are still written; no link to the next group ends the
\* call, whatever is left of the layout.
WriteGroup ==
  /\ call.op = "write"
  /\ \E readOk, writeOk \in BOOLEAN :
       LET group  == GroupOf(call.entries, call.group)
           link   == LinkOf(group)
           origin == IF call.group = 0 THEN link ELSE call.origin
           last   == call.group + 1 >= Groups(call.entries)
           ok     == call.ok /\ writeOk
           Laid(old) == [old EXCEPT !.magic = TRUE, !.table = TableFor(group, call.group, call.lba, origin)]
       IN  /\ Transfers(call.lba, readOk, writeOk)
           /\ disk' = IF ~writeOk THEN disk
                      ELSE [disk EXCEPT ![call.lba] = Laid(IF readOk THEN @ ELSE Zeroed)]
           /\ written' = IF last /\ ok THEN [known |-> TRUE, mode |-> FALSE, entries |-> call.entries]
                         ELSE Nothing
           /\ call' = IF last \/ link = 0 THEN NoCall
                      ELSE [call EXCEPT !.group = @ + 1, !.lba = link, !.origin = origin, !.ok = ok]
  /\ UNCHANGED <<layout, calls>>

Next ==
  \/ \E mode \in ReadModes : BeginRead(mode)
  \/ \E n \in 1 .. PartitionMax : BeginSet(n, "other")
  \/ \E entries \in Layouts : BeginWrite(entries)
  \/ ReadStops
  \/ ReadPass
  \/ FindStops
  \/ FindPass
  \/ SetPartitionType
  \/ WriteGroup

Spec == Init /\ [][Next]_vars

\* A call is not abandoned half-way: the disk driver answers every request.
Working == ReadStops \/ ReadPass \/ FindStops \/ FindPass \/ SetPartitionType \/ WriteGroup
FairSpec == Spec /\ WF_vars(Working)

-----------------------------------------------------------------------------
(* Properties. *)

Reported == [start : Nat, len : Nat, type : Types, number : Nat]

TypeOK ==
  /\ disk \in [Lbas -> Sector]
  /\ layout.known \in BOOLEAN /\ layout.entries \in Seq(Reported)
  /\ Len(layout.entries) <= PartitionMax
  /\ faults \in 0 .. MaxFaults /\ calls \in 0 .. MaxCalls

\* The partition IoSetPartitionInformation stamps is the one that the caller's
\* last IoReadPartitionTable gave that number: the two walks of the chain
\* number alike (the comment at disk.c:226), as long as the read listed every
\* entry.  With ReturnRecognizedPartitions it skips a recognised entry of no
\* length, which the search counts (disk.c:193-195).
StampsWhatWasListed ==
  [][disk' # disk /\ call.op = "stamp" /\ layout.known /\ ~layout.mode =>
       \A k \in 1 .. Len(layout.entries) :
         layout.entries[k].number = call.want
           => layout.entries[k].start = call.base + call.table[call.slot].rel]_vars

\* And the search never gives up on a number such a read has listed, unless
\* a transfer fails.
FindsWhatWasListed ==
  [][call.op = "find" /\ call' = NoCall /\ faults' = faults /\ layout.known /\ ~layout.mode =>
       \A k \in 1 .. Len(layout.entries) : layout.entries[k].number # call.want]_vars

\* The entry in use at place k of a layout.
Place(entries, k) ==
  IF k \in DOMAIN entries /\ Kept(entries[k])
    THEN [start |-> entries[k].start, len |-> entries[k].len, type |-> entries[k].type]
    ELSE Blank

\* What was written is what is read back: every entry in use, in its slot, at
\* its place, the logical drives and the links included (disk.c:290-300).
RoundTrip ==
  layout.known /\ ~layout.mode /\ written.known =>
    \A k \in DOMAIN layout.entries \cup DOMAIN written.entries :
      Place(layout.entries, k) = Place(written.entries, k)

\* Rewriting the table keeps the boot code around it (disk.c:335-336).
BootCodeKept == [][disk'[0].code = disk[0].code]_vars

\* Every call returns, even on a chain that loops back on itself.
CallsReturn == []<>(call = NoCall)

\* The two walks of the chain agree on every number (disk.c:226).
WalksAgree == StampsWhatWasListed /\ FindsWhatWasListed
=============================================================================
