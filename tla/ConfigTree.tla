------------------------------ MODULE ConfigTree ------------------------------
(***************************************************************************)
(* src/src/arcfw/config.c: the ARC configuration tree, built from Open       *)
(* Firmware's device tree, and the lookup of a path in it; src/src/arc.c:    *)
(* the HAL's repair of its SCSI adapters.  A node is known by its place in   *)
(* the order in which the nodes were made; node 1 is the root, and a node's  *)
(* children and peers are those made under its parent.                       *)
(***************************************************************************)
EXTENDS Integers, SequencesExt, FiniteSetsExt

CONSTANTS
  Machines,   \* [root, bandits]: see config_build; bandits are sequences of devices
  Targets,    \* SCSI targets: 0 .. n
  Digits,     \* the targets one digit can name
  BootNames   \* what the boot variables may name: sets of <<adapter key, target>>

VARIABLES
  of,       \* the machine's device tree
  boot,     \* the boot variables' scsi(k)disk(t)
  asked,    \* ARCFW-SCSI-TARGETS: the digits in it; "all" is every target
  tree,     \* the nodes: [parent, type, key, unit, ident, list], unit -1 where there is none
  adapters, \* scsi_adapters
  loop, step   \* which of config_build's loops is where; the HAL comes last

treeVars == <<of, boot, asked, tree, adapters, loop, step>>

Root == 1
NoList == [mem |-> -1, port |-> -1, line |-> -1]
Node(parent, type, key, unit) ==
  [parent |-> parent, type |-> type, key |-> key, unit |-> unit, ident |-> "other", list |-> NoList]

\* Where a node was made last; a device's peripheral hangs under it.
Here(s) == Len(s.tree)
Under(s, parent, type, key) == [s EXCEPT !.tree = Append(@, Node(parent, type, key, -1))]

Init ==
  /\ of \in Machines /\ boot \in BootNames /\ asked \in {Targets} \cup SUBSET Digits
  /\ tree = <<Node(0, "arc", 0, -1)>> /\ adapters = 0
  /\ loop = "cpu" /\ step = 1

-----------------------------------------------------------------------------
(* SCSI. *)

\* Mutant: the boot variables are not looked at.
WantedAsked(key) == {0} \cup asked

\* wanted_targets: the first, those the boot variables name on this adapter, and
\* those asked for, whatever the adapter.
wanted_targets(key) == {0} \cup asked \cup {t \in Targets : <<key, t>> \in boot}

\* scsi_type_name, by what INQUIRY says: the controller and its peripheral.
TypeNames == [disk |-> <<"disk", "rdisk">>, optical |-> <<"disk", "fdisk">>, cdrom |-> <<"cdrom", "fdisk">>,
              tape |-> <<"tape", "tape">>, worm |-> <<"worm", "rdisk">>]

\* What answers at a target: the initiator is not asked, and a processor or a
\* scanner is nothing NT has a name for.
Answers(dev, t) == t # dev.initiator /\ dev.targets[t] \in DOMAIN TypeNames

\* One target: a controller whose key is the target, and its peripheral.
AddTarget(s, adapter, dev, t) ==
  [s EXCEPT !.tree = @ \o <<Node(adapter, TypeNames[dev.targets[t]][1], t, t),
                            Node(Here(s) + 1, TypeNames[dev.targets[t]][2], 0, t)>>]

\* probe_scsi: nothing is found on an adapter that Open Firmware cannot open.
probe_scsi(s, adapter, dev) ==
  IF ~dev.opens THEN s
  ELSE LET found == {t \in wanted_targets(s.tree[adapter].key) : Answers(dev, t)}
       IN  FoldLeft(LAMBDA acc, t : AddTarget(acc, adapter, dev, t), s, SetToSortSeq(found, <))

\* The address of the first of some of the windows that Open Firmware has assigned.
FirstOf(dev, windows) == IF windows = {} THEN 0 ELSE dev.assigned[Min(windows)].start

\* Mutant: the chip's own memory, of four kilobytes, is taken for its registers.
RegistersAnyMemory(dev) == {k \in DOMAIN dev.assigned : dev.assigned[k].space = "memory"}

\* A chip's registers in memory are 256 bytes.
RegistersOf(dev) == {k \in DOMAIN dev.assigned : dev.assigned[k].space = "memory" /\ dev.assigned[k].size = 256}
PortsOf(dev)     == {k \in DOMAIN dev.assigned : dev.assigned[k].space = "io"}

Listed(dev) == [mem |-> FirstOf(dev, RegistersOf(dev)), port |-> FirstOf(dev, PortsOf(dev)), line |-> dev.line]

\* Adapters are numbered through the machine, in the order they are found; one
\* on PCI has its registers and its line, and is probed.
add_scsi_adapter(s, pci, dev, probed) ==
  LET u == [Under(s, pci, "scsi", s.adapters) EXCEPT !.adapters = @ + 1]
      a == [u EXCEPT !.tree[Here(u)] = [@ EXCEPT !.ident = IF dev.ncr THEN "NCRC810" ELSE "UNKNOWN SCSI",
                                                 !.list = IF probed THEN Listed(dev) ELSE NoList]]
  IN  IF probed THEN probe_scsi(a, Here(a), dev) ELSE a

-----------------------------------------------------------------------------
(* The rest of a bridge. *)

WithPeripheral(s, pci, type, key, peripheral) ==
  LET c == Under(s, pci, type, key) IN Under(c, Here(c), peripheral, key)

\* The serial channels of one Grand Central are numbered.
NextSerial(s, pci) == Cardinality({n \in DOMAIN s.tree : s.tree[n].parent = pci /\ s.tree[n].type = "serial"})

\* One device of Grand Central, flattened into its bridge.
add_gc_device(s, pci, dev) ==
  CASE dev.kind = "scsi"     -> add_scsi_adapter(s, pci, dev, FALSE)
    [] dev.kind = "network"  -> WithPeripheral(s, pci, "net", 0, "network")
    [] dev.kind = "channel"  -> WithPeripheral(s, pci, "serial", NextSerial(s, pci), "line")
    [] dev.kind = "swim3"    -> WithPeripheral(s, pci, "disk", 0, "fdisk")
    [] dev.kind = "keyboard" -> WithPeripheral(s, pci, "key", 0, "keyboard")
    [] dev.kind = "mouse"    -> WithPeripheral(s, pci, "point", 0, "pointer")
    [] OTHER                 -> s

add_device(s, pci, dev) ==
  CASE dev.kind = "scsi"    -> add_scsi_adapter(s, pci, dev, TRUE)
    [] dev.kind = "gc"      -> FoldLeft(LAMBDA acc, d : add_gc_device(acc, pci, d), s, dev.devices)
    [] dev.kind = "display" -> WithPeripheral(s, pci, "video", 0, "monitor")
    [] OTHER                -> s

\* The bridge itself is multi(key).
add_bandit(s, key, devices) ==
  LET b == Under(s, Root, "multi", key)
  IN  FoldLeft(LAMBDA acc, d : add_device(acc, Here(b), d), b, devices)

Becomes(s) == tree' = s.tree /\ adapters' = s.adapters
Now == [tree |-> tree, adapters |-> adapters]
Stays == UNCHANGED <<of, boot, asked>>

\* config_build's loops over the root's children: the processor, with its caches,
\* and memory first,
add_cpu ==
  /\ loop = "cpu" /\ Stays
  /\ IF step > Len(of.root) THEN loop' = "bandits" /\ step' = 1 /\ UNCHANGED <<tree, adapters>>
     ELSE /\ step' = step + 1 /\ UNCHANGED loop
          /\ LET cpu == Under(Now, Root, "cpu", 0)
             IN  Becomes(CASE of.root[step] = "cpu" -> Under(Under(Under(cpu, Here(cpu), "pic", 1), Here(cpu), "pdc", 1), Root, "sc", 1)
                           [] of.root[step] = "memory" -> Under(Now, Root, "memory", 0)
                           [] OTHER -> Now)

\* then the bridges,
AddBandit ==
  /\ loop = "bandits" /\ Stays
  /\ IF step > Len(of.bandits) THEN loop' = "bridges" /\ step' = 1 /\ UNCHANGED <<tree, adapters>>
     ELSE step' = step + 1 /\ UNCHANGED loop /\ Becomes(add_bandit(Now, step - 1, of.bandits[step]))

\* Mutant: the bridges' own device nodes are numbered from the start.
BridgeKeyFromStart(n) == n
BridgeKey(n) == 2 + n

\* and last the bridges' own nodes, which are numbered after them.
AddBridge ==
  /\ loop = "bridges" /\ Stays
  /\ IF step > Len(of.bandits) THEN loop' = "built" /\ UNCHANGED <<step, tree, adapters>>
     ELSE step' = step + 1 /\ UNCHANGED loop /\ Becomes(Under(Now, Root, "multi", BridgeKey(step - 1)))

-----------------------------------------------------------------------------
(* The HAL's repair, in phase 0. *)

HalpScsiDevice == <<17, 18>>
HalpScsiIrq == <<22, 26>>

\* What HalGetBusData finds there on bus 0: 53C825As and 53C810s.
Chips(at) == {k \in DOMAIN of.bandits[1] : of.bandits[1][k].kind = "scsi" /\ of.bandits[1][k].at = at /\ of.bandits[1][k].ncr}

\* Mutant: the first register is taken for the memory one.
RegistersAsTheyCome(bars) == <<bars[1].start, bars[2].start>>

\* The registers in memory and in I/O space, whichever the chip has first.
Registers(bars) ==
  IF bars[2].space = "io" THEN <<bars[1].start, bars[2].start>> ELSE <<bars[2].start, bars[1].start>>

\* HalpFixScsiAdapter: the adapter found index-th is one of the two on the board.
HalpFixScsiAdapter(node, index) ==
  IF index > Len(HalpScsiDevice) \/ Chips(HalpScsiDevice[index]) = {} THEN node
  ELSE LET chip == of.bandits[1][Min(Chips(HalpScsiDevice[index]))]
           r    == Registers(chip.bars)
       IN  [node EXCEPT !.list = [mem |-> r[1], port |-> r[2], line |-> HalpScsiIrq[index]]]

\* Mutant: every SCSI adapter is counted.
IsTheBoardsAny(n) == tree[n].type = "scsi"

IsTheBoards(n) == tree[n].type = "scsi" /\ tree[n].ident = "NCRC810"

\* HalpWalk meets the nodes in the order they were made: a node's children
\* were made before its next peer.
HalpFixConfigTree ==
  /\ loop = "built" /\ loop' = "repaired"
  /\ tree' = [n \in DOMAIN tree |->
                IF IsTheBoards(n) THEN HalpFixScsiAdapter(tree[n], Cardinality({m \in 1 .. n : IsTheBoards(m)})) ELSE tree[n]]
  /\ Stays /\ UNCHANGED <<adapters, step>>

Next == add_cpu \/ AddBandit \/ AddBridge \/ HalpFixConfigTree

-----------------------------------------------------------------------------
(* Lookup. *)

\* The first child of that type and key, as a set.
Child(n, name) ==
  LET same == {m \in DOMAIN tree : tree[m].parent = n /\ <<tree[m].type, tree[m].key>> = name}
  IN  IF same = {} THEN {} ELSE {Min(same)}

\* config_lookup: as far down as the path has nodes; <<node, components left>>,
\* node 0 if not even the first is known.
config_lookup(path) ==
  LET at[k \in 0 .. Len(path)] ==
        IF k = 0 THEN {Root}
        ELSE IF path[k][1] = "partition" THEN {} ELSE UNION {Child(n, path[k]) : n \in at[k - 1]}
      deep == Max({k \in 0 .. Len(path) : at[k] # {}})
  IN  <<IF deep = 0 THEN 0 ELSE Min(at[deep]), Len(path) - deep>>

\* config_node_path: the root has no name.
config_node_path(node) ==
  LET up[n \in 1 .. node] == IF n = Root THEN <<>> ELSE Append(up[tree[n].parent], <<tree[n].type, tree[n].key>>)
  IN  up[node]

-----------------------------------------------------------------------------
(* Properties. *)

\* Types and parents: a node hangs under one made before it.
TypeOK ==
  /\ loop \in {"cpu", "bandits", "bridges", "built", "repaired"} /\ adapters \in 0 .. Len(tree)
  /\ \A n \in DOMAIN tree : tree[n].parent \in 0 .. n - 1 /\ (tree[n].parent = 0 => n = Root)

\* Kinds of which a bridge may carry two under one key: see the README.
Twins == {"video", "monitor", "net", "network"}

\* The path of a node (config.c:396-402) leads back to that node, and what
\* follows it, a partition, is left over for the caller (config.c:369-394).
PathsLeadBack ==
  \A n \in DOMAIN tree \ {Root} :
    tree[n].type \notin Twins =>
      /\ config_lookup(config_node_path(n)) = <<n, 0>>
      /\ config_lookup(Append(config_node_path(n), <<"partition", 1>>)) = <<n, 1>>

\* Once the tree is built, the disk that a boot variable names is where its
\* path says, if it answers: "target 0, plus whatever the boot variables name as
\* scsi(this)disk(N)" (config.c:115-116).
BootDiskIsThere ==
  loop \in {"built", "repaired"} =>
    \A b \in DOMAIN of.bandits :
      \A k \in DOMAIN of.bandits[b] :
        LET dev == of.bandits[b][k]
            path(t) == <<<<"multi", b - 1>>, <<"scsi", dev.number>>, <<"disk", t>>, <<"rdisk", 0>>>>
        IN  dev.kind = "scsi" /\ dev.opens =>
              \A t \in Targets \ {dev.initiator} :
                <<dev.number, t>> \in boot /\ dev.targets[t] = "disk" =>
                  LET at == config_lookup(path(t)) IN at[2] = 0 /\ tree[at[1]].unit = t

\* The NCR chips on PCI, as <<bridge, device>>.
NcrChips == {c \in (DOMAIN of.bandits) \X (1 .. 8) :
               /\ c[2] \in DOMAIN of.bandits[c[1]]
               /\ of.bandits[c[1]][c[2]].kind = "scsi" /\ of.bandits[c[1]][c[2]].ncr}

\* The repair leaves each adapter the registers and the line of its own chip,
\* as long as no NCR card in a slot comes before those on the board: "give every
\* ScsiAdapter under the PCI adapter a list built from the device's real
\* configuration space" (src/src/arc.c:12-13).
AdaptersHaveTheirChips ==
  loop = "repaired" /\ (\A c \in NcrChips : c[1] = 1 /\ of.bandits[1][c[2]].at \in {17, 18}) =>
    \A c \in NcrChips :
      LET chip == of.bandits[c[1]][c[2]]
      IN  \E n \in DOMAIN tree : tree[n].type = "scsi" /\ tree[n].key = chip.number /\ tree[n].list = Listed(chip)

\* The tree can be found one's way about in: by the path of a node, to the
\* disk the machine boots from, and to the chip behind an adapter
\* (config.c:369-402, src/src/arc.c:24-67).
TreeIsNavigable == PathsLeadBack /\ BootDiskIsThere /\ AdaptersHaveTheirChips
=============================================================================
