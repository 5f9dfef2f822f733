-------------------------------- MODULE ArcIo --------------------------------
(***************************************************************************)
(* src/src/arcfw/io.c: the file ids of the ARC firmware over Open Firmware  *)
(* instances, and load.c's use of them.  The caller is the boot loader: one *)
(* call at a time, each of them one step.  Open Firmware may refuse or cut  *)
(* short anything it is asked.                                              *)
(***************************************************************************)
EXTENDS Integers, FiniteSets, FiniteSetsExt, Sequences

CONSTANTS
  MaxFd,      \* MAX_FD; ids 0 and 1 are the console
  Handles,    \* Open Firmware's instance handles
  Word,       \* the range of one half of a position
  DeviceEnd,  \* no device is longer
  MaxKeys,    \* bound on the keys typed
  MaxOpens    \* bound on the calls of Open

\* What of_path_for makes of a path.
Kinds == {"nodev", "console", "disk", "diskfile", "cd", "cdfile"}
IsFile(kind) == kind \in {"diskfile", "cdfile"}
IsCdrom(kind) == kind \in {"cd", "cdfile"}

ASSUME ArcIoAssumption ==
  /\ MaxFd \in Nat /\ MaxFd > 2
  /\ IsFiniteSet(Handles) /\ Handles \subseteq Nat \ {0}
  /\ Word \in Nat /\ Word > 1 /\ MaxKeys \in Nat /\ MaxOpens \in Nat
  /\ DeviceEnd \in Nat /\ DeviceEnd < Word * Word

VARIABLES
  fds,        \* the table
  instances,  \* Open Firmware: by handle, -1 closed, or the instance's position
  typed,      \* keys Open Firmware has handed over
  taken,      \* keys Read has returned, in order
  pending,    \* fds[0].pending, 0 without has_pending
  last,       \* the last call: operation, id, status, and what Seek was given
  loader,     \* load_image: the id it has open, or 0
  opens

ioVars == <<fds, instances, typed, taken, pending, last, loader, opens>>

Ids == 0 .. MaxFd - 1
Users == 2 .. MaxFd - 1
Closed == [open |-> FALSE, kind |-> "nodev", fat |-> FALSE, ih |-> 0, hi |-> 0, lo |-> 0]
Console == [Closed EXCEPT !.open = TRUE, !.kind = "console"]

Init ==
  /\ fds = [f \in Ids |-> IF f < 2 THEN Console ELSE Closed]
  /\ instances = [h \in Handles |-> -1]
  /\ typed = 0 /\ taken = <<>> /\ pending = 0
  /\ last = [op |-> "none", fd |-> 0, status |-> "ESUCCESS", off |-> 0]
  /\ loader = 0 /\ opens = 0

Ends(op, fd, status) == last' = [op |-> op, fd |-> fd, status |-> status, off |-> 0]
Pos(f) == f.hi * Word + f.lo
At(f, pos) == [f EXCEPT !.hi = pos \div Word, !.lo = pos % Word]

-----------------------------------------------------------------------------
(* Open Firmware, and fat.c's two ways to open the whole disk. *)

Opened(inst) ==
  LET free == {h \in Handles : inst[h] = -1}
  IN  {[inst |-> inst, ih |-> 0]}
      \cup {[inst |-> [inst EXCEPT ![h] = 0], ih |-> h] : h \in IF free = {} THEN {} ELSE {Min(free)}}

Released(inst, h) == [inst EXCEPT ![h] = -1]

\* Mutant: an open that finds no partition or file keeps the instance.
FatOpenedKept(inst) ==
  Opened(inst) \cup {[inst |-> o.inst, ih |-> 0] : o \in Opened(inst)}

\* fat_open, fat_open_raw: one that finds no partition or file closes again.
FatOpened(inst) ==
  Opened(inst)
  \cup {[inst |-> Released(o.inst, o.ih), ih |-> 0] : o \in {o \in Opened(inst) : o.ih # 0}}

\* On "dev:0", and if that fails on the bare device.
FatTries(inst) ==
  UNION {IF o.ih # 0 THEN {o} ELSE FatOpened(o.inst) : o \in FatOpened(inst)}

-----------------------------------------------------------------------------
(* The calls. *)

FreeIds == {f \in Users : ~fds[f].open}

\* io_open: the outcomes, with the id in fd and 0 for none.  A disk or a file
\* on one is read through fat.c when it is only to be read, and through Open
\* Firmware's own packages when that fails.
OpenOutcomes(kind, readOnly) ==
  LET f == Min(FreeIds)
      viaFat == kind \in {"disk", "diskfile"} /\ readOnly
      fat == IF viaFat THEN FatTries(instances) ELSE {[inst |-> instances, ih |-> 0]}
      Result(o, isFat) == [inst |-> o.inst, fd |-> f, status |-> "ESUCCESS",
                           file |-> [Closed EXCEPT !.open = TRUE, !.kind = kind, !.fat = isFat, !.ih = o.ih]]
      Failure(o) == [inst |-> o.inst, fd |-> 0, status |-> "ENOENT", file |-> Closed]
  IN  {Result(o, TRUE) : o \in {o \in fat : o.ih # 0}}
      \cup UNION {{IF o.ih = 0 THEN Failure(o) ELSE Result(o, FALSE) : o \in Opened(p.inst)} : p \in {p \in fat : p.ih = 0}}

Open(kind, readOnly) ==
  /\ loader = 0 /\ opens < MaxOpens /\ opens' = opens + 1
  /\ IF FreeIds = {} THEN Ends("open", 0, "EMFILE") /\ UNCHANGED <<fds, instances>>
     ELSE IF kind = "nodev" THEN Ends("open", 0, "ENODEV") /\ UNCHANGED <<fds, instances>>
     ELSE \E o \in OpenOutcomes(kind, readOnly) :
            /\ instances' = o.inst
            /\ fds' = IF o.fd = 0 THEN fds ELSE [fds EXCEPT ![o.fd] = o.file]
            /\ Ends("open", o.fd, o.status)
  /\ UNCHANGED <<typed, taken, pending, loader>>

\* io_close, on an open id of 2 and up.
ClosedInst(fd) == Released(instances, fds[fd].ih)

Close(fd) ==
  /\ loader = 0
  /\ IF ~fds[fd].open THEN Ends("close", fd, "EBADF") /\ UNCHANGED <<fds, instances>>
     ELSE IF fd < 2 THEN Ends("close", fd, "ESUCCESS") /\ UNCHANGED <<fds, instances>>
     ELSE /\ instances' = ClosedInst(fd)
          /\ fds' = [fds EXCEPT ![fd].open = FALSE]
          /\ Ends("close", fd, "ESUCCESS")
  /\ UNCHANGED <<typed, taken, pending, loader, opens>>

\* Read of n bytes, or Write, on an id that is not the console.  fat_read gives
\* what there is, and Open Firmware any part of it.
Transfer(op, fd, n) ==
  /\ fds[fd].open /\ fds[fd].kind # "console"
  /\ \/ /\ fds[fd].fat /\ op = "write"
        /\ Ends(op, fd, "EROFS") /\ UNCHANGED <<fds, instances>>
     \/ Ends(op, fd, "EIO") /\ UNCHANGED <<fds, instances>>
     \/ /\ fds[fd].fat => op = "read"
        /\ \E r \in 0 .. n :
             /\ Pos(fds[fd]) + r <= DeviceEnd \/ r = 0
             /\ fds' = [fds EXCEPT ![fd] = At(@, Pos(@) + r)]
             /\ instances' = IF fds[fd].fat THEN instances ELSE [instances EXCEPT ![fds[fd].ih] = @ + r]
        /\ Ends(op, fd, "ESUCCESS")

Read(fd, n)  == loader = 0 /\ Transfer("read", fd, n) /\ UNCHANGED <<typed, taken, pending, loader, opens>>
Write(fd, n) == loader = 0 /\ Transfer("write", fd, n) /\ UNCHANGED <<typed, taken, pending, loader, opens>>

\* io_seek's target, in the two halves of a LARGE_INTEGER.
\* Mutant: the carry of the low half is lost.
TargetNoCarry(f, hi, lo, relative) ==
  IF ~relative THEN hi * Word + lo
  ELSE ((hi + f.hi) % Word) * Word + ((f.lo + lo) % Word)

Target(f, hi, lo, relative) ==
  IF ~relative THEN hi * Word + lo
  ELSE LET nlo == (f.lo + lo) % Word
           nhi == (hi + f.hi + (IF nlo < lo THEN 1 ELSE 0)) % Word
       IN  nhi * Word + nlo

\* A file whose package has no seek is read forward to the target, reopened
\* first when the target lies behind.  A reopen that fails closes the id, and
\* reading may end early.
ReadForward(fd, to, asked) ==
  LET behind == to < fds[fd].lo \/ fds[fd].hi # 0
      from == IF behind THEN 0 ELSE fds[fd].lo
  IN  \E o \in IF behind THEN Opened(ClosedInst(fd)) ELSE {[inst |-> instances, ih |-> fds[fd].ih]} :
        \/ /\ o.ih = 0
           /\ instances' = o.inst
           /\ fds' = [fds EXCEPT ![fd].open = FALSE, ![fd].ih = 0]
           /\ last' = [op |-> "seek", fd |-> fd, status |-> "EIO", off |-> asked]
        \/ /\ o.ih # 0
           /\ \E reached \in from .. to :
                /\ reached <= DeviceEnd
                /\ instances' = [o.inst EXCEPT ![o.ih] = reached]
                /\ fds' = [fds EXCEPT ![fd] = [At(@, reached) EXCEPT !.ih = o.ih]]
                /\ last' = [op |-> "seek", fd |-> fd, off |-> asked,
                            status |-> IF reached = to THEN "ESUCCESS" ELSE "EIO"]

SeekTo(fd, to, asked) ==
  LET f == fds[fd]
      Sought(status) == last' = [op |-> "seek", fd |-> fd, status |-> status, off |-> asked]
  IN  IF f.fat
        THEN IF to >= Word THEN Sought("EIO") /\ UNCHANGED <<fds, instances>>
             ELSE fds' = [fds EXCEPT ![fd] = At(@, to)] /\ Sought("ESUCCESS") /\ UNCHANGED instances
        ELSE \/ /\ f.kind # "cdfile" /\ to <= DeviceEnd
                /\ instances' = [instances EXCEPT ![f.ih] = to]
                /\ fds' = [fds EXCEPT ![fd] = At(@, to)]
                /\ Sought("ESUCCESS")
             \/ /\ ~IsFile(f.kind) \/ to >= Word
                /\ Sought("EIO") /\ UNCHANGED <<fds, instances>>
             \/ IsFile(f.kind) /\ to < Word /\ ReadForward(fd, to, asked)

Seek(fd, hi, lo, relative) ==
  /\ loader = 0
  /\ fds[fd].open /\ fds[fd].kind # "console"
  /\ SeekTo(fd, Target(fds[fd], hi, lo, relative),
            ((IF relative THEN Pos(fds[fd]) ELSE 0) + hi * Word + lo) % (Word * Word))
  /\ UNCHANGED <<typed, taken, pending, loader, opens>>

-----------------------------------------------------------------------------
(* The console. *)

\* Mutant: the pending key is forgotten when Read finds another one.
ReadKeyFresh ==
  /\ typed < MaxKeys /\ typed' = typed + 1
  /\ taken' = Append(taken, typed + 1) /\ pending' = 0
  /\ Ends("read", 0, "ESUCCESS")
  /\ UNCHANGED <<fds, instances, loader, opens>>

\* Read of one key and more: the pending one, and then at most one that Open
\* Firmware has already; without either it waits.
ReadKey ==
  /\ \E fresh \in IF pending = 0 THEN {1} ELSE {0, 1} :
       /\ typed + fresh <= MaxKeys /\ typed' = typed + fresh
       /\ taken' = taken \o (IF pending = 0 THEN <<>> ELSE <<pending>>)
                         \o (IF fresh = 0 THEN <<>> ELSE <<typed + 1>>)
  /\ pending' = 0
  /\ Ends("read", 0, "ESUCCESS")
  /\ UNCHANGED <<fds, instances, loader, opens>>

\* GetReadStatus: asks Open Firmware for a key and keeps it.
GetReadStatus ==
  /\ \/ pending # 0 /\ Ends("status", 0, "ESUCCESS") /\ UNCHANGED <<typed, pending>>
     \/ /\ pending = 0 /\ typed < MaxKeys
        /\ typed' = typed + 1 /\ pending' = typed + 1
        /\ Ends("status", 0, "ESUCCESS")
     \/ pending = 0 /\ Ends("status", 0, "EAGAIN") /\ UNCHANGED <<typed, pending>>
  /\ UNCHANGED <<fds, instances, taken, loader, opens>>

-----------------------------------------------------------------------------
(* load_image: open, then reads at places the headers give, then close,      *)
(* whatever went wrong.                                                      *)

LoadOpen(kind) ==
  /\ loader = 0 /\ opens < MaxOpens /\ opens' = opens + 1
  /\ FreeIds # {}
  /\ \E o \in OpenOutcomes(kind, TRUE) :
       /\ instances' = o.inst
       /\ fds' = IF o.fd = 0 THEN fds ELSE [fds EXCEPT ![o.fd] = o.file]
       /\ loader' = o.fd
       /\ Ends("load", o.fd, o.status)
  /\ UNCHANGED <<typed, taken, pending>>

\* read_at: a seek, and the read when the seek succeeded.
LoadSeek ==
  /\ loader # 0 /\ last.op \in {"load", "read"} /\ last.status = "ESUCCESS"
  /\ \E to \in 0 .. Word - 1 : SeekTo(loader, to, to)
  /\ UNCHANGED <<typed, taken, pending, loader, opens>>

LoadRead ==
  /\ loader # 0 /\ last.op = "seek" /\ last.status = "ESUCCESS"
  /\ Transfer("read", loader, 1)
  /\ UNCHANGED <<typed, taken, pending, loader, opens>>

\* An error, a header that does not fit, or the end; the id may be closed
\* already when a seek could not reopen the file.
LoadClose ==
  /\ loader # 0
  /\ IF fds[loader].open THEN instances' = ClosedInst(loader) /\ fds' = [fds EXCEPT ![loader].open = FALSE]
     ELSE UNCHANGED <<fds, instances>>
  /\ loader' = 0
  /\ Ends("loaded", 0, "ESUCCESS")
  /\ UNCHANGED <<typed, taken, pending, opens>>

Files ==
  \/ \E kind \in Kinds, readOnly \in BOOLEAN : Open(kind, readOnly)
  \/ \E fd \in Ids : Close(fd)
  \/ \E fd \in Users, n \in 1 .. 2 : Read(fd, n) \/ Write(fd, n)
  \/ \E fd \in Users, hi, lo \in 0 .. Word - 1, relative \in BOOLEAN : Seek(fd, hi, lo, relative)

Keyboard == loader = 0 /\ (ReadKey \/ GetReadStatus)

Loading ==
  \/ \E kind \in {"cd", "diskfile"} : LoadOpen(kind)
  \/ LoadSeek \/ LoadRead \/ LoadClose

Next == Files \/ Keyboard \/ Loading

Spec == Init /\ [][Next]_ioVars

-----------------------------------------------------------------------------
(* Properties. *)

OpenUsers == {f \in Users : fds[f].open}

TypeOK ==
  /\ fds \in [Ids -> [open : BOOLEAN, kind : Kinds, fat : BOOLEAN, ih : Handles \cup {0},
                      hi : 0 .. Word - 1, lo : 0 .. Word - 1]]
  /\ instances \in [Handles -> -1 .. DeviceEnd]
  /\ typed \in 0 .. MaxKeys /\ pending \in 0 .. MaxKeys
  /\ loader \in {0} \cup Users /\ last.fd \in Ids

\* Every Open Firmware instance that is open belongs to exactly one open id,
\* and every open id has one: no call leaks an instance, or reads through one
\* that was closed, whichever step of it failed.
InstancesAreOwned ==
  /\ {fds[f].ih : f \in OpenUsers} = {h \in Handles : instances[h] # -1}
  /\ \A f, g \in OpenUsers : fds[f].ih = fds[g].ih => f = g

\* The position the firmware keeps is the instance's own (it is what Read and
\* relative seeks go by), also after a seek that was read forward.
PositionsAgree == \A f \in OpenUsers : ~fds[f].fat => instances[fds[f].ih] = Pos(fds[f])

\* A seek that succeeds arrives at the offset asked for, counted from where
\* the file was when the seek is relative.
SeekArrives == last.op = "seek" /\ last.status = "ESUCCESS" => Pos(fds[last.fd]) = last.off

\* Keys reach the caller in the order they were typed, none lost and none
\* twice, however GetReadStatus and Read alternate.
KeysInOrder ==
  /\ \A k \in 1 .. Len(taken) : taken[k] = k
  /\ typed = Len(taken) + (IF pending = 0 THEN 0 ELSE 1)
  /\ pending # 0 => pending = typed

\* The firmware and Open Firmware agree on where every file is, and a seek
\* that succeeds has got there (io.c:178-209).
SeeksArrive == PositionsAgree /\ SeekArrives
=============================================================================
