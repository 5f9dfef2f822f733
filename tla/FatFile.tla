------------------------------- MODULE FatFile -------------------------------
(***************************************************************************)
(* src/src/arcfw/fat.c: fat_read on an open file, over a FAT that names the *)
(* file's clusters and a device whose reads may fail.  One step is one turn *)
(* of fat_read's loops.                                                     *)
(*                                                                         *)
(* The cursor (cur_idx, cur_clus) outlives the call: the next read goes on  *)
(* from where this one, completed or not, has left it.                      *)
(***************************************************************************)
EXTENDS Integers, Sequences

CONSTANTS
  Clusters,      \* the data clusters, 2 .. ff->nclus - 1
  ClusterBytes,  \* spc * bps
  Fats,          \* the FATs of the disks a behaviour may start with
  Sizes,         \* the sizes directory entries may give
  Positions, Lengths, \* what reads are asked for
  MaxReads       \* bound on the calls

\* Entry 0 of a FAT is the media byte, and no cluster.
FatFileAssumption ==
  /\ Clusters \subseteq Nat \ {0} /\ ClusterBytes \in Nat \ {0}
  /\ Fats \subseteq [Clusters -> Nat] /\ Sizes \subseteq Nat
  /\ Positions \subseteq Nat /\ Lengths \subseteq Nat /\ MaxReads \in Nat

VARIABLES
  fat,      \* the FAT: by cluster the next one, or any other number
  first,    \* ff->first
  size,     \* ff->size
  curIdx,   \* ff->cur_idx
  curClus,  \* ff->cur_clus
  read,     \* the call in progress
  result,   \* what the last call returned
  reads

fileVars == <<fat, first, size>>
fatVars  == <<fileVars, curIdx, curClus, read, result, reads>>

Idle == [at |-> "idle"]
NoResult == [status |-> "none", pos |-> 0, asked |-> 0, out |-> <<>>]

Init ==
  /\ fat \in Fats /\ first \in Clusters /\ size \in Sizes
  /\ curIdx = 0 /\ curClus = first
  /\ read = Idle /\ result = NoResult /\ reads = 0

\* Mutant: the bounds of the data area are not checked.
fat_nextUnchecked(clus) == IF clus \in Clusters THEN fat[clus] ELSE 0

\* The cluster after clus, 0 at the end and where the chain is damaged.  Entry
\* 0 of a FAT is the media byte, an end mark.
fat_next(clus) == IF clus \in Clusters /\ fat[clus] \in Clusters THEN fat[clus] ELSE 0

\* The byte at offset off of a cluster, named by its place; fat_read reads
\* cluster 0, were it asked to, two clusters before the data area.
ByteAt(clus, off) == <<clus + off \div ClusterBytes, off % ClusterBytes>>

Return(status, call) ==
  /\ result' = [status |-> status, pos |-> call.start, asked |-> call.asked, out |-> call.out]
  /\ read' = Idle
  /\ UNCHANGED <<fileVars, reads>>

Call(pos, asked, n) == [at |-> "seek", start |-> pos, asked |-> asked, pos |-> pos, n |-> n, out |-> <<>>,
                        run |-> 0, avail |-> 0]

\* Mutant: the length is cut to the size of the file, wherever the read starts.
WantedToSize(pos, n) == IF pos >= size THEN 0 ELSE IF n > size THEN size ELSE n

Wanted(pos, n) == IF pos >= size THEN 0 ELSE IF n > size - pos THEN size - pos ELSE n

\* fat_read is called: beyond the end there is nothing to read, at the end the
\* read is short.
Begin(pos, n) ==
  /\ read.at = "idle" /\ reads < MaxReads
  /\ reads' = reads + 1
  /\ LET want == Wanted(pos, n)
     IN  IF want = 0 THEN result' = [NoResult EXCEPT !.status = "success", !.pos = pos, !.asked = n] /\ UNCHANGED read
         ELSE read' = Call(pos, n, want) /\ result' = NoResult
  /\ UNCHANGED <<fileVars, curIdx, curClus>>

\* Mutant: the walk back to the first cluster does not reset the index.
RewindClusterOnly ==
  /\ read.at = "seek" /\ read.pos \div ClusterBytes < curIdx
  /\ curClus' = first
  /\ curIdx' = read.pos \div ClusterBytes
  /\ UNCHANGED <<fileVars, read, result, reads>>

\* The position is before the cursor: start over from the first cluster.
Rewind ==
  /\ read.at = "seek" /\ read.pos \div ClusterBytes < curIdx
  /\ curIdx' = 0 /\ curClus' = first
  /\ UNCHANGED <<fileVars, read, result, reads>>

\* One cluster further; a chain shorter than the size is an error.
Walk ==
  /\ read.at = "seek" /\ read.pos \div ClusterBytes > curIdx
  /\ curClus' = fat_next(curClus)
  /\ IF curClus' = 0 THEN Return("EIO", read) /\ UNCHANGED curIdx
     ELSE curIdx' = curIdx + 1 /\ UNCHANGED <<fileVars, read, result, reads>>

Arrive ==
  /\ read.at = "seek" /\ read.pos \div ClusterBytes = curIdx
  /\ read' = [read EXCEPT !.at = "extend", !.run = curClus,
                          !.avail = ClusterBytes - (read.pos % ClusterBytes)]
  /\ UNCHANGED <<fileVars, curIdx, curClus, result, reads>>

\* The run grows by the next cluster while it is contiguous and needed.
Extend ==
  /\ read.at = "extend" /\ read.avail < read.n
  /\ IF fat_next(curClus) = curClus + 1
       THEN /\ curClus' = curClus + 1 /\ curIdx' = curIdx + 1
            /\ read' = [read EXCEPT !.avail = @ + ClusterBytes]
       ELSE read' = [read EXCEPT !.at = "transfer"] /\ UNCHANGED <<curIdx, curClus>>
  /\ UNCHANGED <<fileVars, result, reads>>

\* The run is read in one call, and the loop goes on or is done.
Transfer ==
  /\ read.at = "transfer" \/ (read.at = "extend" /\ read.avail >= read.n)
  /\ LET chunk == IF read.avail < read.n THEN read.avail ELSE read.n
         off   == read.pos % ClusterBytes
         now   == [read EXCEPT !.at = "seek", !.pos = @ + chunk, !.n = @ - chunk,
                               !.out = @ \o [k \in 1 .. chunk |-> ByteAt(read.run, off + k - 1)]]
     IN  IF now.n > 0
           THEN read' = now /\ UNCHANGED <<fileVars, result, reads>>
           ELSE Return("success", now)
  /\ UNCHANGED <<curIdx, curClus>>

\* A read of the FAT or of the data fails: the call returns what it has.
Fault ==
  /\ \/ read.at = "seek" /\ read.pos \div ClusterBytes > curIdx
     \/ read.at \in {"extend", "transfer"}
  /\ Return("EIO", read)
  /\ UNCHANGED <<curIdx, curClus>>

Next ==
  \/ \E pos \in Positions, n \in Lengths : Begin(pos, n)
  \/ Rewind \/ Walk \/ Arrive \/ Extend \/ Transfer \/ Fault

Spec == Init /\ [][Next]_fatVars

-----------------------------------------------------------------------------
(* Properties. *)

\* The cluster of index i of the chain, 0 beyond its end.
ClusterOf[i \in Nat] == IF i = 0 THEN first ELSE fat_next(ClusterOf[i - 1])

\* The chain covers the size, as it does in a file system that is not damaged.
Sound == size = 0 \/ ClusterOf[(size - 1) \div ClusterBytes] # 0

TypeOK ==
  /\ fat \in [Clusters -> Nat] /\ first \in Clusters /\ size \in Sizes
  /\ curIdx \in Nat /\ curClus \in Clusters \cup {0}
  /\ read.at \in {"idle", "seek", "extend", "transfer"}
  /\ result.status \in {"none", "success", "EIO"}
  /\ reads \in 0 .. MaxReads

\* The cursor is where the chain says, whatever read moved it and however
\* that read ended.
CursorOnChain == Sound => curClus = ClusterOf[curIdx] /\ curClus # 0

\* What a read returned are the bytes of the file at the position asked for,
\* also when it went wrong half-way (fat.c:238).
ReadsTheFile ==
  \A k \in 1 .. Len(result.out) :
    LET p == result.pos + k - 1
    IN  result.out[k] = <<ClusterOf[p \div ClusterBytes], p % ClusterBytes>>

SoundReadsTheFile == Sound => ReadsTheFile

\* A read that succeeds has read all it was asked for, or up to the end.
ReadsEnough ==
  result.status = "success" =>
    Len(result.out) = IF result.pos >= size THEN 0
                      ELSE IF result.asked <= size - result.pos THEN result.asked ELSE size - result.pos

\* Reads of a sound file: the cursor stays on its chain, the bytes are the
\* file's own, and none of those asked for are missing (fat.c:238-278).
ReadsAreFaithful == CursorOnChain /\ SoundReadsTheFile /\ ReadsEnough
=============================================================================
