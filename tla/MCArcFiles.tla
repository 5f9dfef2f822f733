----------------------------- MODULE MCArcFiles -----------------------------
(* The layers of the firmware's files and its keyboard, each on its own: a   *)
(* behaviour runs one of them, and the others stay where they began.        *)
EXTENDS ArcIo

CONSTANTS
  Clusters, ClusterBytes, Fats, Sizes, Positions, Lengths, MaxReads, Tables, Parts,
  RootSecs, RootClus, Spc, DirClusters, Disks, Paths,
  Discs, Roots, CdFiles,
  Machines, Targets, Digits, BootNames,
  Programs, PageBytes, MaxSections, MaxLoads

VARIABLES
  layer,
  fat, first, size, curIdx, curClus, read, result, reads,
  table, readable, at, part, partLba, cacheSec, cacheLba, bpbLba,
  disk, path, dir, found, search, status,
  disc, names, extent, ahead, verdict,
  of, boot, asked, tree, adapters, loop, step,
  call, fileBase, isOpen, ram, dirty, claimed, noted, described, loaded, running, loadStatus, loads

cursorVars == <<fat, first, size, curIdx, curClus, read, result, reads>>
mountVars  == <<table, readable, at, part, partLba, cacheSec, cacheLba, bpbLba>>
dirVars    == <<disk, path, dir, found, search, status>>
isoVars    == <<disc, names, extent, ahead, verdict>>
treeVars   == <<of, boot, asked, tree, adapters, loop, step>>
loadVars   == <<call, fileBase, isOpen, ram, dirty, claimed, noted, described, loaded, running, loadStatus, loads>>

File  == INSTANCE FatFile
Mount == INSTANCE FatOpen
Dir   == INSTANCE FatDir
Cd    == INSTANCE IsoDir
Config == INSTANCE ConfigTree
Loader == INSTANCE ArcLoad WITH status <- loadStatus

ASSUME LayersAssumption == File!FatFileAssumption /\ Mount!FatOpenAssumption /\ Dir!FatDirAssumption /\ Cd!IsoDirAssumption /\ Loader!ArcLoadAssumption

SmallHandles == {1, 2, 3}
ThreeClusters == 2 .. 4
\* Every FAT of three clusters: end marks and entries outside the data area,
\* loops and shared tails among them.
SmallFats == [ThreeClusters -> {0, 2, 3, 4, 9}]
SmallSizes == {0, 3, 4, 6}
Entries == {[type |-> "fat", lba |-> 4], [type |-> "fat", lba |-> 8], [type |-> "other", lba |-> 6],
            [type |-> "unused", lba |-> 0], [type |-> "extended", lba |-> 9]}
SmallTables == {<<>>} \cup [1 .. 3 -> Entries]

Entry(name, kind, clus) == [name |-> name, kind |-> kind, clus |-> clus]
InRoot == {Entry("A", "file", 9), Entry("A", "deleted", 5), Entry("D", "dir", 2), Entry("D", "label", 0), Entry("-", "end", 0)}
InDir  == {Entry("A", "file", 7), Entry("A", "deleted", 5), Entry("-", "end", 0)}
\* The root has a sector of two entries, a directory two clusters or one.
SmallDisks ==
  {[secs |-> <<r, a, b>>, next |-> [c \in {2, 3} |-> IF c = 2 THEN n ELSE 0]] : r \in InRoot \X InRoot, a, b \in InDir \X InDir, n \in {0, 3}}
SmallPaths == {<<"A">>, <<"D">>, <<"D", "A">>, <<"A", "A">>}

Rec(name, long, isDir, lba, n) == [name |-> name, long |-> long, dir |-> isDir, lba |-> lba, sectors |-> n]
Self == Rec("self", FALSE, TRUE, 1, 2)
OnRoot == {Rec("A", TRUE, FALSE, 8, 1), Rec("D", TRUE, TRUE, 3, 2), Rec("A", TRUE, FALSE, 9, 1)}
OnDir(r) == {<<>>, <<Self, r>>, <<Rec("B", TRUE, FALSE, 5, 1), r>>}
\* A sector is full, or it ends with padding.
SmallDiscs ==
  LET sectors == {<<>>} \cup {<<Self, r>> : r \in OnRoot} \cup (OnRoot \X OnRoot)
  IN  {<<a, b, c, d>> : a, b \in sectors, c, d \in OnDir(Rec("A", TRUE, FALSE, 6, 1))}
SmallRoots == {[lba |-> 1, sectors |-> 1], [lba |-> 1, sectors |-> 2]}

\* An on-board controller, or a card in a slot; the kind of its registers differs.
\* One of them has memory of its own too, which Open Firmware lists first.
Window(sort, at0, n) == [space |-> sort, start |-> at0, size |-> n]
IoFirst == <<Window("io", 4, 256), Window("memory", 5, 256), Window("memory", 8, 4096)>>
MemoryFirst == <<Window("memory", 6, 256), Window("io", 7, 256)>>
Scsi(n, where, chip, can, ini, t) ==
  [kind |-> "scsi", number |-> n, at |-> where, ncr |-> chip # "other", bars |-> IF chip = "io" THEN IoFirst ELSE MemoryFirst,
   assigned |-> IF chip = "io" THEN <<IoFirst[3], IoFirst[1], IoFirst[2]>> ELSE MemoryFirst,
   line |-> CASE where = 17 -> 22 [] where = 18 -> 26 [] OTHER -> 23, opens |-> can, initiator |-> ini, targets |-> t]
Mixed == [t \in 0 .. 2 |-> IF t = 1 THEN "cdrom" ELSE "disk"]
Odd   == [t \in 0 .. 2 |-> IF t = 0 THEN "scanner" ELSE IF t = 1 THEN "tape" ELSE "absent"]
Disk3 == [t \in 0 .. 2 |-> "disk"]
Gc(n) == [kind |-> "gc",
       devices |-> <<[kind |-> "channel"], [kind |-> "channel"], [kind |-> "network"], Scsi(n, 0, "other", TRUE, 7, Disk3),
                     [kind |-> "swim3"], [kind |-> "keyboard"], [kind |-> "mouse"], [kind |-> "other"]>>]
Video == [kind |-> "display"]
\* Two bridges, of which the first has Grand Central, as in the Network Server;
\* a slot of the first bridge may hold a card, and the second one another.
SmallMachines ==
  [root : {<<"pci", "cpu", "memory", "pci">>},
   bandits : {<<<<Gc(0), Scsi(1, 17, x, o, i, t), Scsi(2, 18, y, TRUE, 7, u), Video>>, <<Video, Scsi(3, 13, "other", TRUE, 7, t)>>>> :
                o \in BOOLEAN, i \in {1, 7}, t \in {Mixed, Odd}, u \in {Disk3, Odd}, x \in {"io", "memory"}, y \in {"io"}}
             \cup {<<<<Scsi(0, 13, c, TRUE, 7, Disk3), Gc(1), Scsi(2, 17, "io", TRUE, 7, Mixed)>>, <<>>>> : c \in {"io", "other"}}]
SmallBootNames == {{}, {<<1, 2>>}, {<<2, 1>>, <<1, 0>>}, {<<3, 2>>}}

\* Images of which sections are shorter or longer in the file than in memory,
\* out of order, without a size, or too many; two of them lie across one another.
Sec(va, vsize, rsize, roff) == [va |-> va, vsize |-> vsize, rsize |-> rsize, roff |-> roff]
Image(name, cd, head, base, bytes, secs) ==
  [name |-> name, cd |-> cd, start |-> 3, length |-> 8, header |-> head, base |-> base, size |-> bytes, sections |-> secs]
SomeSections == {<<Sec(4, 1, 2, 6), Sec(0, 3, 2, 4)>>, <<Sec(0, 2, 3, 4), Sec(5, 0, 1, 7), Sec(3, 2, 0, 0)>>,
                 <<Sec(3, 0, 4, 4)>>, <<Sec(0, 3, 3, 6)>>}
SmallPrograms ==
  {Image("OSLOADER", cd, "coff", 0, 6, s) : cd \in BOOLEAN, s \in SomeSections}
  \cup {Image("SETUPLDR", cd, h, b, 5, <<Sec(0, 5, 4, 4)>>) : cd \in BOOLEAN, h \in {"pe", "alien"}, b \in {4, 8}}
  \cup {Image("MANY", FALSE, "coff", 0, 6, [k \in 1 .. 4 |-> Sec(k - 1, 1, 1, 4)])}

AnyOf(S) == CHOOSE s \in S : TRUE

LayersInit ==
  /\ layer \in {"ids", "keys", "file", "mount", "dir", "cd", "config", "load"}
  /\ layer = "file" \/ (fat = [c \in Clusters |-> 0] /\ first = 2 /\ size = 0)
  /\ layer = "mount" \/ (table = <<>> /\ readable = TRUE)
  /\ layer = "dir" \/ (disk = AnyOf(Disks) /\ path = AnyOf(Paths))
  /\ layer = "cd" \/ (disc = AnyOf(Discs) /\ names = AnyOf(CdFiles))
  /\ layer = "config" \/ (of = AnyOf(Machines) /\ boot = {} /\ asked = {})
  /\ Init /\ Loader!LoadInit
  /\ \/ layer = "dir"    /\ Cd!Init /\ Config!Init /\ File!Init /\ Mount!Init /\ Dir!Init
     \/ layer = "cd"     /\ Config!Init /\ File!Init /\ Mount!Init /\ Dir!Init /\ Cd!Init
     \/ layer \notin {"dir", "cd"} /\ File!Init /\ Mount!Init /\ Dir!Init /\ Cd!Init /\ Config!Init

LayersNext ==
  /\ UNCHANGED layer
  /\ \/ layer = "ids"   /\ (Files \/ Loading) /\ UNCHANGED <<cursorVars, mountVars, dirVars, isoVars, treeVars, loadVars>>
     \/ layer = "keys"  /\ Keyboard   /\ UNCHANGED <<cursorVars, mountVars, dirVars, isoVars, treeVars, loadVars>>
     \/ layer = "file"  /\ File!Next  /\ UNCHANGED <<ioVars, mountVars, dirVars, isoVars, treeVars, loadVars>>
     \/ layer = "mount" /\ Mount!Next /\ UNCHANGED <<ioVars, cursorVars, dirVars, isoVars, treeVars, loadVars>>
     \/ layer = "dir"   /\ Dir!Next   /\ UNCHANGED <<ioVars, cursorVars, mountVars, isoVars, treeVars, loadVars>>
     \/ layer = "cd"    /\ Cd!Next    /\ UNCHANGED <<ioVars, cursorVars, mountVars, dirVars, treeVars, loadVars>>
     \/ layer = "config" /\ Config!Next /\ UNCHANGED <<ioVars, cursorVars, mountVars, dirVars, isoVars, loadVars>>
     \/ layer = "load"  /\ Loader!LoadNext /\ UNCHANGED <<ioVars, cursorVars, mountVars, dirVars, isoVars, treeVars>>

LayersSpec == LayersInit /\ [][LayersNext]_<<layer, ioVars, cursorVars, mountVars, dirVars, isoVars, treeVars, loadVars>>

\* Every layer keeps its types.
LayersTypeOK == TypeOK /\ File!TypeOK /\ Config!TypeOK /\ Loader!LoadTypeOK

\* The layers' properties, where they are stated.
ReadsTheFile     == File!ReadsTheFile
LoadsPrograms    == Loader!LoadsPrograms
NumbersAsNt      == Mount!NumbersAsNt
TreeIsNavigable  == Config!TreeIsNavigable

\* What is read is what was sought: an instance stands where SeekTo was told
\* to go, and a FAT file gives its own bytes (io.c:127-209, fat.c:236-276).
ReadsAreFaithful == SeeksArrive /\ File!ReadsAreFaithful

\* fat_open takes the parameters of the partition asked for, and succeeds at
\* a file only (fat.c:184-230).
OpensTheVolume == Mount!BpbOfPartition /\ Dir!EndsAtFile

\* A name leads to the first entry that bears it, in a FAT directory as on a
\* CD (fat.c:109-138, io.c:263-283).
NamesLeadToTheFirst == Dir!FindsTheFirst /\ Cd!LeadsToTheFirst
=============================================================================
