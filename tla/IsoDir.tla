-------------------------------- MODULE IsoDir --------------------------------
(***************************************************************************)
(* src/src/arcfw/io.c: how io_open_iso_file finds a file on a CD.  A         *)
(* directory is a run of sectors; its records follow one another within a    *)
(* sector and none crosses into the next: what is left is padding.           *)
(***************************************************************************)
EXTENDS Integers, Sequences, FiniteSetsExt

CONSTANTS
  Discs,   \* by sector, its records: [name, long, dir, lba, sectors]
  Roots,   \* root directories: [lba, sectors]
  CdFiles  \* paths looked for: sequences of names

\* The directories lie on the disc.
IsoDirAssumption ==
  \A d \in Discs :
    LET OnDisc(e) == e.lba \in Nat /\ e.sectors \in Nat /\ e.lba .. e.lba + e.sectors - 1 \subseteq DOMAIN d
    IN  /\ \A e \in Roots : OnDisc(e)
        /\ \A s \in DOMAIN d : \A k \in DOMAIN d[s] : k \in Nat /\ (d[s][k].dir => OnDisc(d[s][k]))

VARIABLES
  disc,
  names,   \* still to be looked up
  extent,  \* lba, sz and dir
  ahead,   \* the sectors of the directory still to be read, or what else is next
  verdict  \* what io_open_iso_file returned, or "busy"

isoVars == <<disc, names, extent, ahead, verdict>>

AtVolume == -2
AtName == -1
Unknown == [dir |-> TRUE, lba |-> 0, sectors |-> 0]

Init ==
  /\ disc \in Discs /\ names \in CdFiles
  /\ extent = Unknown /\ ahead = AtVolume /\ verdict = "busy"

Give(s) == verdict' = s /\ UNCHANGED <<disc, names, extent, ahead>>

\* The primary volume descriptor names the root.
ReadVolume ==
  /\ verdict = "busy" /\ ahead = AtVolume
  /\ \/ Give("EIO")
     \/ /\ \E root \in Roots : extent' = [dir |-> TRUE, lba |-> root.lba, sectors |-> root.sectors]
        /\ ahead' = AtName /\ UNCHANGED <<disc, names, verdict>>

NextName ==
  /\ verdict = "busy" /\ ahead = AtName
  /\ IF names = <<>> THEN Give(IF extent.dir THEN "EISDIR" ELSE "ESUCCESS")
     ELSE IF ~extent.dir THEN Give("ENOTDIR")
     ELSE ahead' = extent.sectors /\ UNCHANGED <<disc, names, extent, verdict>>

\* The name with its version or without.  The records of the directory itself
\* and of the one above it have names of one byte, and are passed over.
iso_name_is(r, name) == r.long /\ r.name = name

\* Mutant: padding ends the directory as it ends the sector.
AheadAtPadding(n) == 0
AheadOf(n) == n - 1

\* iso_lookup, one sector; one that cannot be read ends the search as if the
\* name were not there.
ReadSector ==
  /\ verdict = "busy" /\ ahead > 0
  /\ \/ Give("ENOENT")
     \/ LET records == disc[extent.lba + extent.sectors - ahead]
            hits    == {k \in DOMAIN records : iso_name_is(records[k], names[1])}
        IN  IF hits = {} THEN ahead' = AheadOf(ahead) /\ UNCHANGED <<disc, names, extent, verdict>>
            ELSE LET r == records[Min(hits)]
                 IN  /\ extent' = [dir |-> r.dir, lba |-> r.lba, sectors |-> r.sectors]
                     /\ names' = Tail(names) /\ ahead' = AtName
                     /\ UNCHANGED <<disc, verdict>>

NotOnTheCd == verdict = "busy" /\ ahead = 0 /\ Give("ENOENT")

Next == ReadVolume \/ NextName \/ ReadSector \/ NotOnTheCd

-----------------------------------------------------------------------------
(* Properties. *)

Places(e) == UNION {{s} \X DOMAIN disc[s] : s \in e.lba .. e.lba + e.sectors - 1}
At(p) == disc[p[1]][p[2]]
Named(e, name) == {p \in Places(e) : At(p).name = name}
Before(p, q) == p[1] < q[1] \/ (p[1] = q[1] /\ p[2] < q[2])

\* A lookup that succeeds leads to the extent of the first record of that name
\* in the whole directory, and no directory is read to its end with the name in
\* it: padding ends a sector, not a directory (io.c:272).  That is so for names
\* that a record holds in more than one byte; a directory of which the name is one
\* letter is not found (io.c:274).
LeadsToTheFirst ==
  [][LET named == IF names = <<>> THEN {} ELSE Named(extent, names[1])
         long == \A p \in named : At(p).long
     IN  /\ names' # names /\ long =>
              \E p \in named : /\ extent' = [dir |-> At(p).dir, lba |-> At(p).lba, sectors |-> At(p).sectors]
                               /\ \A q \in named : q = p \/ Before(p, q)
         /\ ahead' = 0 /\ ahead # 0 /\ long => named = {}]_isoVars
=============================================================================
