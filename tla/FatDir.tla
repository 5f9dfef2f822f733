-------------------------------- MODULE FatDir --------------------------------
(***************************************************************************)
(* src/src/arcfw/fat.c: how fat_open finds a file.  A directory is the fixed *)
(* root or a chain of clusters; it is read sector by sector, and every name  *)
(* of the path is looked up in the directory the one before it led to.       *)
(***************************************************************************)
EXTENDS Integers, Sequences, FiniteSetsExt

CONSTANTS
  RootSecs,     \* sectors of the fixed root; 0 where the root is a chain (FAT32)
  RootClus,     \* the root's first cluster, 0 where it is fixed
  Spc,          \* sectors per cluster
  DirClusters,  \* clusters that hold directories
  Disks,        \* [secs, next]: by sector its entries, by cluster the one after it, 0 at
                \* the end; no chain loops, or the search would not end either
  Paths         \* sequences of names

\* The clusters from d on, as far as n links of a chain lead.
Links(next, d) ==
  LET chain[n \in 0 .. Cardinality(DirClusters)] ==
        IF n = 0 THEN <<d>>
        ELSE LET c == chain[n - 1] IN IF next[c[Len(c)]] = 0 THEN c ELSE Append(c, next[c[Len(c)]])
  IN  chain
Chain(next, d) == Links(next, d)[Cardinality(DirClusters)]

\* Every directory of a disk has its sectors there and a chain that ends, and the
\* names of paths lead to clusters: ".." alone, which name83 refuses, may have cluster 0.
FatDirAssumption ==
  /\ RootSecs \in Nat /\ Spc \in Nat /\ RootClus \in DirClusters \cup {0}
  /\ DirClusters \subseteq Nat \ {0, 1} /\ IsFiniteSet(DirClusters)
  /\ \A d \in Disks :
       /\ \A c \in DirClusters : d.next[c] \in DirClusters \cup {0} /\ d.next[Chain(d.next, c)[Len(Chain(d.next, c))]] = 0
       /\ \A s \in DOMAIN d.secs : \A k \in DOMAIN d.secs[s] :
            /\ k \in Nat /\ d.secs[s][k].kind \in {"file", "dir", "deleted", "label", "end"}
            /\ d.secs[s][k].kind = "dir" => d.secs[s][k].clus \in DirClusters
       /\ 1 .. RootSecs \subseteq DOMAIN d.secs
       /\ \A c \in DirClusters : RootSecs + (c - 2) * Spc + 1 .. RootSecs + (c - 1) * Spc \subseteq DOMAIN d.secs

VARIABLES
  disk,
  path,      \* the names still to be looked up
  dir,       \* where the directory searched begins: the `dir` of fat_open
  found,     \* the entry the last lookup ended at: [clus, is_dir]
  search,    \* dir_lookup: [on, clus, sec, left]
  status     \* what fat_open returned, or "busy"

dirVars == <<disk, path, dir, found, search, status>>

NotFound == [clus |-> 0, is_dir |-> TRUE]
Idle == [on |-> FALSE, clus |-> 0, sec |-> 0, left |-> 0]
FirstName == path[1]

\* The sectors of the fixed root come first, then those of the clusters.
cluster_sector(c) == RootSecs + (c - 2) * Spc + 1

Init ==
  /\ disk \in Disks /\ path \in Paths
  /\ dir = RootClus /\ found = NotFound /\ search = Idle /\ status = "busy"

Return(s) == status' = s /\ search' = Idle /\ UNCHANGED <<disk, path, dir, found>>

\* Mutant: what the path ends at is not looked at.
EndingAny == "ESUCCESS"
Ending == IF found.is_dir THEN "EISDIR" ELSE "ESUCCESS"

\* A path that goes on behind a file, or that ends at a directory.
NextName ==
  /\ status = "busy" /\ ~search.on
  /\ IF path = <<>> THEN Return(Ending)
     ELSE IF ~found.is_dir THEN Return("ENOTDIR")
     ELSE /\ search' = IF dir # 0 THEN [on |-> TRUE, clus |-> dir, sec |-> cluster_sector(dir), left |-> Spc]
                       ELSE [on |-> TRUE, clus |-> 0, sec |-> 1, left |-> RootSecs]
          /\ UNCHANGED <<disk, path, dir, found, status>>

\* Deleted entries, labels and long names are passed over.
Live(e) == e.kind \notin {"deleted", "label"}

\* Within one sector, the first entry that ends the search, if any: the end of
\* the directory, or the name.
Stops(es) == {k \in DOMAIN es : es[k].kind = "end" \/ (Live(es[k]) /\ es[k].name = FirstName)}

\* One sector of the directory.
ReadSector ==
  /\ status = "busy" /\ search.on /\ search.left > 0
  /\ LET stops == Stops(disk.secs[search.sec])
     IN  IF stops = {} THEN search' = [search EXCEPT !.sec = @ + 1, !.left = @ - 1] /\ UNCHANGED <<disk, path, dir, found, status>>
         ELSE LET e == disk.secs[search.sec][Min(stops)]
              IN  IF e.kind = "end" THEN Return("ENOENT")
                  ELSE /\ found' = [clus |-> e.clus, is_dir |-> e.kind = "dir"]
                       /\ path' = Tail(path) /\ dir' = e.clus /\ search' = Idle
                       /\ UNCHANGED <<disk, status>>

\* Mutant: the search of a chain ends with its first cluster.
NextClusterNone(c) == 0
NextCluster(c) == disk.next[c]

\* The sectors in hand are through: the fixed root ends there, a chain goes on.
NextSectors ==
  /\ status = "busy" /\ search.on /\ search.left = 0
  /\ IF search.clus = 0 \/ NextCluster(search.clus) = 0 THEN Return("ENOENT")
     ELSE LET c == NextCluster(search.clus)
          IN  /\ search' = [on |-> TRUE, clus |-> c, sec |-> cluster_sector(c), left |-> Spc]
              /\ UNCHANGED <<disk, path, dir, found, status>>

\* A sector, of the directory or of the FAT, that cannot be read.
Fail == status = "busy" /\ search.on /\ Return("EIO")

Next == NextName \/ ReadSector \/ NextSectors \/ Fail

-----------------------------------------------------------------------------
(* Properties. *)

\* The entries of a directory in order, as far as its end mark: the reference
\* the search is held against.
Sectors(d) ==
  IF d = 0 THEN [k \in 1 .. RootSecs |-> k]
  ELSE LET whole == Chain(disk.next, d)
       IN  [k \in 1 .. Len(whole) * Spc |-> cluster_sector(whole[((k - 1) \div Spc) + 1]) + ((k - 1) % Spc)]

Places(d) == UNION {{s} \X DOMAIN disk.secs[Sectors(d)[s]] : s \in DOMAIN Sectors(d)}
EntryAt(d, p) == disk.secs[Sectors(d)[p[1]]][p[2]]
Before(p, q) == p[1] < q[1] \/ (p[1] = q[1] /\ p[2] < q[2])
Named(d, name) ==
  {p \in Places(d) : /\ EntryAt(d, p).kind \in {"file", "dir"} /\ EntryAt(d, p).name = name
                     /\ \A q \in Places(d) : Before(q, p) => EntryAt(d, q).kind # "end"}

\* A lookup that succeeds has found the first entry of that name in the whole
\* directory, and one that says there is none is right.
FindsTheFirst ==
  [][LET named == Named(dir, FirstName)
     IN  /\ path' # path =>
              \E p \in named : found'.clus = EntryAt(dir, p).clus /\ \A q \in named : q = p \/ Before(p, q)
         /\ status' # status /\ status' = "ENOENT" => named = {}]_dirVars

\* Opening succeeds at a file only, and never by way of one.
EndsAtFile ==
  /\ status = "ESUCCESS" => path = <<>> /\ ~found.is_dir
  /\ search.on => found.is_dir /\ dir = (IF found = NotFound THEN RootClus ELSE found.clus)
=============================================================================
