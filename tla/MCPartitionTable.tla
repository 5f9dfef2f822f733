-------------------------- MODULE MCPartitionTable --------------------------
(* Instances of PartitionTable for TLC: five sectors, tables of two slots. *)
EXTENDS PartitionTable

E(type, rel, len) == [type |-> type, rel |-> rel, len |-> len]
S(magic, a, b) == [magic |-> magic, code |-> "code", table |-> <<a, b>>]

\* Tables of two of these entries.  The first sector's link is the origin the
\* links of the others count from: with 0, 1 and 2 there are chains that end,
\* that loop through one sector or two, that meet a sector without a magic
\* and that leave the disk.
Link(rel) == E("extended", rel, 2)
MbrTables == {S(TRUE, a, b) : a, b \in {Link(1), Link(2), E("fat", 1, 1), E("fat", 2, 0), E("other", 1, 2)}}
EbrTables == {S(TRUE, E("fat", 1, 1), b) : b \in {Link(0), Link(1), E("unused", 0, 0)}}
             \cup {S(TRUE, E("fat", 2, 0), b) : b \in {Link(0), Link(1)}}
NoTable == S(FALSE, E("fat", 1, 1), E("unused", 0, 0))
WalkDisks ==
  {d \in [0 .. 2 -> MbrTables \cup EbrTables] : d[0] \in MbrTables /\ {d[1], d[2]} \subseteq EbrTables}

\* The disks IoWritePartitionTable is tried on: blank ones, and ones with
\* other tables in the way.
WriteTables == {S(TRUE, E("unused", 0, 0), E("unused", 0, 0)), S(TRUE, E("fat", 1, 1), E("extended", 1, 1))}
WriteDisks == [0 .. 4 -> WriteTables]

MCDisks == {[l \in 0 .. 4 |-> IF l \in 0 .. 2 THEN d[l] ELSE NoTable] : d \in WalkDisks} \cup WriteDisks

L(start, len, type) == [start |-> start, len |-> len, type |-> type]
None == L(0, 0, "unused")

\* Layouts as Setup passes them: one group for each table, every group but the last
\* with the link to the next; and one that lacks a link.
MCLayouts ==
  { <<L(1, 1, "fat")>>,
    <<L(1, 1, "fat"), None, L(3, 1, "fat"), None>>,
    <<L(1, 1, "fat"), L(2, 1, "other")>>,
    <<L(1, 1, "fat"), L(2, 3, "extended"), L(3, 1, "fat"), None>>,
    <<L(2, 4, "extended"), L(1, 1, "fat"), L(3, 1, "fat"), L(4, 2, "extended"), L(5, 1, "other"), None>>,
    <<None, L(1, 4, "extended"), None, L(2, 3, "extended"), None, L(3, 2, "extended"), L(4, 1, "fat"), None>>,
    <<L(1, 1, "fat"), L(7, 1, "extended"), L(8, 1, "fat"), None>> }

OneLayout == {<<L(1, 1, "fat"), None>>}
=============================================================================
