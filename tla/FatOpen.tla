------------------------------- MODULE FatOpen -------------------------------
(***************************************************************************)
(* src/src/arcfw/fat.c: fat_open and fat_open_raw up to the partition's     *)
(* first sector, through the one-sector cache that part_sector keeps; and   *)
(* the numbering of partitions, beside the one the HAL uses once NT runs.   *)
(***************************************************************************)
EXTENDS Integers, Sequences, FiniteSets

CONSTANTS
  Tables,   \* the partition tables of the disks: sequences of [type, lba]
  Parts     \* the partition numbers of ARC paths

\* Partition types: what HalpRecognized accepts, and what find_partition skips.
Recognized == {"fat"}
Skipped == {"unused", "extended"}

FatOpenAssumption == \A t \in Tables : \A k \in DOMAIN t : t[k].lba \in Nat

VARIABLES
  table,     \* the table in sector 0, or <<>>: sector 0 is a BPB itself
  readable,  \* the device's reads succeed
  at,        \* where the open is
  part,      \* the number asked for
  partLba,   \* ff->part_lba
  cacheSec,  \* ff->cache_sec, -1 when the cache is invalid
  cacheLba,  \* the sector of the disk the cache was read from
  bpbLba     \* the sector the BPB was taken from, -1 before

openVars == <<table, readable, at, part, partLba, cacheSec, cacheLba, bpbLba>>

Init ==
  /\ table \in Tables /\ readable \in BOOLEAN
  /\ at = "closed" /\ part = 0
  /\ partLba = 0 /\ cacheSec = -1 /\ cacheLba = -1 /\ bpbLba = -1

\* part_sector: the cached sector, or another one read into the cache.
part_sector(sec) ==
  IF cacheSec = sec THEN UNCHANGED <<cacheSec, cacheLba>>
  ELSE IF readable THEN cacheSec' = sec /\ cacheLba' = partLba + sec
  ELSE cacheSec' = -1 /\ UNCHANGED cacheLba

Fail == at' = "closed" /\ UNCHANGED <<partLba, bpbLba>>

\* The part-th entry that is neither empty nor an extended container.
Counts(e) == e.type \notin Skipped
NumberOf(k) == Cardinality({i \in 1 .. k : Counts(table[i])})
EntryOf(n) ==
  LET entry == {k \in DOMAIN table : Counts(table[k]) /\ NumberOf(k) = n}
  IN  IF entry = {} THEN [type |-> "none", lba |-> 0] ELSE table[CHOOSE k \in entry : TRUE]

\* find_partition, the first sector of the device.
Open(n) ==
  /\ at = "closed"
  /\ at' = "found" /\ part' = n
  /\ partLba' = 0 /\ bpbLba' = -1
  /\ IF readable THEN cacheSec' = 0 /\ cacheLba' = 0 ELSE cacheSec' = -1 /\ UNCHANGED cacheLba
  /\ UNCHANGED <<table, readable>>

\* Mutant: sector 0 of the disk stays in the cache as sector 0 of the partition.
SectorAfterMountKept == cacheSec

SectorAfterMount == -1

\* find_partition, once sector 0 is there: the whole disk, a disk without a
\* table, or an entry, whose own sectors the cache does not hold yet.  Whether
\* sector 0 ends with the mark 55AA is left open.
FindPartition ==
  /\ at = "found"
  /\ \E marked \in BOOLEAN :
     IF cacheSec = -1 \/ (part > 0 /\ ~marked) \/ (table = <<>> /\ part > 1) THEN Fail /\ UNCHANGED <<cacheSec, cacheLba>>
     ELSE IF part = 0 \/ table = <<>> THEN at' = "bpb" /\ UNCHANGED <<partLba, cacheSec, cacheLba, bpbLba>>
     ELSE IF EntryOf(part).type = "none" THEN Fail /\ UNCHANGED <<cacheSec, cacheLba>>
     ELSE /\ partLba' = EntryOf(part).lba
          /\ cacheSec' = SectorAfterMount /\ UNCHANGED cacheLba
          /\ at' = "bpb" /\ UNCHANGED bpbLba
  /\ UNCHANGED <<table, readable, part>>

\* fat_open takes the BPB from sector 0 of the partition, and turns down one with
\* other sectors than 512 bytes or without a FAT.
ReadBpb ==
  /\ at = "bpb"
  /\ part_sector(0)
  /\ \/ Fail
     \/ cacheSec' # -1 /\ at' = "open" /\ bpbLba' = cacheLba' /\ UNCHANGED partLba
  /\ UNCHANGED <<table, readable, part>>

Close ==
  /\ at = "open" /\ at' = "closed"
  /\ UNCHANGED <<table, readable, part, partLba, cacheSec, cacheLba, bpbLba>>

Next == (\E n \in Parts : Open(n)) \/ FindPartition \/ ReadBpb \/ Close

Spec == Init /\ [][Next]_openVars

-----------------------------------------------------------------------------
(* Properties. *)

\* The BPB a file is looked up with is that of the partition the path names,
\* not a sector that was in the cache for another reason (fat.c:145-160).
BpbOfPartition == at = "open" => bpbLba = partLba

\* NT's number for an entry: IoReadPartitionTable counts recognised types
\* (disk.c:58-67, 197-199).
NtEntry(n) ==
  LET counted == SelectSeq(table, LAMBDA e : e.type \in Recognized)
  IN  IF n <= Len(counted) THEN counted[n] ELSE [type |-> "none", lba |-> 0]

\* A partition has the same number for the firmware and for NT (fat.c:18-19).
NumbersAsNt == at = "open" /\ part > 0 /\ table # <<>> => partLba = NtEntry(part).lba
=============================================================================
