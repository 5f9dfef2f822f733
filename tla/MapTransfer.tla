----------------------------- MODULE MapTransfer -----------------------------
(***************************************************************************)
(* src/src/dma.c: the adapter object of a bus master, and IoMapTransfer as a *)
(* driver calls it: for what is left of a buffer, over and over, each answer *)
(* a physically contiguous run.                                             *)
(***************************************************************************)
EXTENDS Integers, Sequences, FiniteSets

CONSTANTS
  PageSize,      \* 4096
  AddressSpace,  \* 2^32
  MaxRegisters,  \* MapRegistersPerChannel, 64
  Maxima,        \* the longest transfers drivers say they make
  Buffers        \* [pages, offset, count, start, system]: MDLs; system 0 if not mapped

\* Buffers lie in the address space, and where they are mapped twice the two
\* do not overlap; the list of pages is as long as the buffer spans.
MapTransferAssumption ==
  /\ PageSize \in Nat \ {0} /\ AddressSpace \in Nat \ {0} /\ MaxRegisters \in Nat \ {0}
  /\ Maxima \subseteq Nat
  /\ \A m \in Buffers :
       LET limit == m.offset + m.count
       IN  /\ m.offset \in 0 .. PageSize - 1 /\ m.count \in Nat \ {0} /\ m.start \in Nat /\ m.system \in Nat
           /\ m.pages \in Seq(Nat) /\ Len(m.pages) = (limit + PageSize - 1) \div PageSize
           /\ m.start + limit < AddressSpace /\ m.system + limit < AddressSpace
           /\ m.system = 0 \/ m.start + limit < m.system \/ m.system + limit < m.start

VARIABLES
  maximum,   \* DEVICE_DESCRIPTION.MaximumLength
  mdl,
  currentVa, \* CurrentVa
  left,      \* what is left of the transfer
  runs,      \* the answers: [at, length, phys], at relative to the first page
  swept,     \* the buffer's pages whose instruction cache lines were swept
  outcome

mapVars == <<maximum, mdl, currentVa, left, runs, swept, outcome>>

\* HalGetAdapter: the map registers a driver may count on.
Granted == LET r == (maximum + PageSize - 1) \div PageSize + 1
           IN  IF r > MaxRegisters THEN MaxRegisters ELSE r

Spanned == (mdl.offset + mdl.count + PageSize - 1) \div PageSize

\* A driver splits what it is asked to move by the registers it was granted.
Init ==
  /\ maximum \in Maxima /\ mdl \in Buffers
  /\ mdl.count <= maximum
  /\ maximum > (MaxRegisters - 1) * PageSize => mdl.count <= (MaxRegisters - 1) * PageSize
  /\ currentVa \in {mdl.start + mdl.offset} \cup (IF mdl.system = 0 THEN {} ELSE {mdl.system + mdl.offset})
  /\ left = mdl.count /\ runs = {} /\ swept = {} /\ outcome = "asked"

\* HalAllocateAdapterChannel grants at once or not at all.  The driver asks for
\* as many registers as the buffer spans, and checks them against its grant.
HalAllocateAdapterChannel ==
  /\ outcome = "asked"
  /\ outcome' = IF Spanned > Granted \/ Spanned > MaxRegisters THEN "no registers" ELSE "mapping"
  /\ UNCHANGED <<maximum, mdl, currentVa, left, runs, swept>>

Limit == mdl.offset + mdl.count
Beyond(base) == (currentVa - base) % AddressSpace

\* Mutant: addresses are always taken to be relative to StartVa.
OffsetOfStart == Beyond(mdl.start)

\* The place in the buffer, by whichever base puts it there.
Offset ==
  IF Beyond(mdl.start) > Limit /\ mdl.system # 0 /\ Beyond(mdl.system) <= Limit
    THEN Beyond(mdl.system)
    ELSE Beyond(mdl.start)

\* Mutant: the page a run grows into is counted from the run's own start
\* (dma.c:108-116 tells what that did).
GrowsIntoBehind(run, inpage) == run \div PageSize

\* The page, relative to the run's first, that a run of so many bytes grows into.
GrowsInto(run, inpage) == (run + inpage) \div PageSize

\* The run may not grow: it is long enough, or the next page does not follow.
Stops(run, offset) ==
  LET page == offset \div PageSize
      next == GrowsInto(run, offset % PageSize)
  IN  \/ run >= left \/ run >= Limit - offset
      \/ page + next >= (Limit + PageSize - 1) \div PageSize
      \/ mdl.pages[page + next + 1] # mdl.pages[page + 1] + next

RunAt(offset) ==
  LET first == PageSize - (offset % PageSize)
      grown == {first + n * PageSize : n \in 0 .. Len(mdl.pages)}
      run   == CHOOSE r \in grown : Stops(r, offset) /\ \A q \in grown : q < r => ~Stops(q, offset)
      total == Limit - offset
      asked == IF run > left THEN left ELSE run
  IN  IF asked > total THEN total ELSE asked

IoMapTransfer ==
  /\ outcome = "mapping" /\ left > 0
  /\ IF Offset > Limit THEN outcome' = "refused" /\ UNCHANGED <<currentVa, left, runs>>
     ELSE LET length == RunAt(Offset)
              phys == mdl.pages[Offset \div PageSize + 1] * PageSize + (Offset % PageSize)
          IN  /\ runs' = runs \cup {[at |-> Offset, length |-> length, phys |-> phys]}
              /\ currentVa' = (currentVa + length) % AddressSpace
              /\ left' = left - length
              /\ outcome' = IF length = 0 THEN "stuck" ELSE IF left' = 0 THEN "moved" ELSE "mapping"
  /\ UNCHANGED <<maximum, mdl, swept>>

\* Mutant: the offset into the first page is forgotten.
FlushedByCount == (mdl.count + PageSize - 1) \div PageSize

Flushed == Spanned

\* HalFlushIoBuffers, after a transfer: only pages read in may hold instructions.
HalFlushIoBuffers ==
  /\ outcome = "moved"
  /\ \/ outcome' = "paged in" /\ swept' = {mdl.pages[k] : k \in 1 .. Flushed}
     \/ outcome' = "done" /\ UNCHANGED swept
  /\ UNCHANGED <<maximum, mdl, currentVa, left, runs>>

Next == HalAllocateAdapterChannel \/ IoMapTransfer \/ HalFlushIoBuffers

-----------------------------------------------------------------------------
(* Properties. *)

PhysicalOf(o) == mdl.pages[o \div PageSize + 1] * PageSize + (o % PageSize)

\* Every byte of every run is the buffer's own: the device is never sent to a
\* page that only happens to lie behind one of the buffer's.
MapsTheBuffer == \A r \in runs : \A k \in 0 .. r.length - 1 : r.phys + k = PhysicalOf(r.at + k)

\* A transfer of a length the driver announced is granted, and mapped to its
\* end, whichever of the buffer's two addresses the driver counts in.
TransferIsMapped ==
  /\ outcome \notin {"no registers", "refused", "stuck"}
  /\ outcome = "moved" => {o \in mdl.offset .. Limit - 1 : \E r \in runs : o \in r.at .. r.at + r.length - 1}
                          = mdl.offset .. Limit - 1

\* No page that a read brought in is left with stale instructions.
PagesAreSwept == outcome = "paged in" => {PhysicalOf(o) \div PageSize : o \in mdl.offset .. Limit - 1} \subseteq swept

\* A device is sent through the whole of the buffer and nowhere else, and the
\* buffer can be run (dma.c:73-129, 165-180).
BufferIsMapped == MapsTheBuffer /\ TransferIsMapped /\ PagesAreSwept
=============================================================================
