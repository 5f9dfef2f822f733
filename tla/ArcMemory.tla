------------------------------ MODULE ArcMemory ------------------------------
(***************************************************************************)
(* src/src/arcfw/memory.c: the ARC memory descriptors, made out of Open     *)
(* Firmware's /memory node once the loader has been placed.  One step is one *)
(* turn of memory_init's inner loop or of type_range's.                     *)
(***************************************************************************)
EXTENDS Integers, Sequences, FiniteSets

CONSTANTS
  PageBytes,  \* 0x1000
  Permanent,  \* pages below it hold the vectors and the system parameter block
  Kseg0,      \* ARC_KSEG0_PAGES
  MaxDesc,    \* MAX_DESC
  Machines    \* [reg, available: sequences of byte ranges <<start, length>>; program: <<page, pages>>]

\* "Available ranges, assumed sorted ascending as Open Firmware keeps them"
\* (memory.c:85), and the banks of /memory the same; the program is linked in
\* KSEG0 (load.c:6).
Ascend(ranges) ==
  \A j, k \in DOMAIN ranges : j < k => ranges[j][1] + ranges[j][2] <= ranges[k][1]
ArcMemoryAssumption ==
  /\ PageBytes \in Nat \ {0} /\ Permanent \in Nat /\ Kseg0 \in Nat /\ MaxDesc \in Nat
  /\ \A m \in Machines :
       /\ m.reg \in Seq(Nat \X Nat) /\ m.reg # <<>> /\ Ascend(m.reg)
       /\ m.available \in Seq(Nat \X Nat) /\ Ascend(m.available)
       /\ m.program \in Nat \X Nat /\ m.program[1] + m.program[2] <= Kseg0

VARIABLES
  machine,
  descs,
  bank, slot,  \* the indices of memory_init's two loops
  walked,      \* at: the page up to which the bank is typed
  todo,        \* the ranges handed to type_range, what is left of them
  halted       \* fatal()

memoryVars == <<machine, descs, bank, slot, walked, todo, halted>>

Page(byte) == byte \div PageBytes
PageUp(byte) == (byte + PageBytes - 1) \div PageBytes
First(n) == Page(machine.reg[n][1])
End(n)   == Page(machine.reg[n][1] + machine.reg[n][2])

Init ==
  /\ machine \in Machines
  /\ descs = <<>> /\ bank = 1 /\ slot = 1
  /\ walked = First(1) /\ todo = <<>> /\ halted = FALSE

\* Mutant: neighbours of one type stay apart.
addApart(list, type, base, count) == Append(list, [type |-> type, base |-> base, count |-> count])

\* add: a range that continues the last descriptor in type and place joins it.
add(list, type, base, count) ==
  LET last == list[Len(list)]
  IN  IF list # <<>> /\ last.type = type /\ last.base + last.count = base
        THEN [list EXCEPT ![Len(list)].count = @ + count]
        ELSE Append(list, [type |-> type, base |-> base, count |-> count])

\* Mutant: the program is only seen when a range begins inside it.
UpToProgramStart(base, end) == end

UpToProgram(base, end) ==
  IF base < machine.program[1] /\ machine.program[1] < end THEN machine.program[1] ELSE end

\* The type of the page base in a range of that type up to end, and the page at
\* which it may change.
Cut(base, end, type) ==
  LET from == machine.program[1]
      to   == from + machine.program[2]
      free == IF type = "free" /\ end > Kseg0 THEN Kseg0 ELSE end
  IN  IF base < Permanent THEN [type |-> "permanent", at |-> IF Permanent < end THEN Permanent ELSE end]
      ELSE IF type = "free" /\ base >= Kseg0 THEN [type |-> "temporary", at |-> end]
      ELSE IF base \in from .. to - 1 THEN [type |-> "program", at |-> IF to < free THEN to ELSE free]
      ELSE [type |-> type, at |-> UpToProgram(base, free)]

type_range ==
  /\ todo # <<>> /\ ~halted
  /\ LET r   == Head(todo)
         cut == Cut(r.base, r.end, r.type)
         new == add(descs, cut.type, r.base, cut.at - r.base)
     IN  IF Len(new) > MaxDesc THEN halted' = TRUE /\ UNCHANGED <<descs, todo>>
         ELSE /\ descs' = new
              /\ todo' = IF cut.at < r.end THEN <<[r EXCEPT !.base = cut.at]>> \o Tail(todo) ELSE Tail(todo)
              /\ UNCHANGED halted
  /\ UNCHANGED <<machine, bank, slot, walked>>

Range(type, base, end) == IF base < end THEN <<[type |-> type, base |-> base, end |-> end]>> ELSE <<>>

Walking == todo = <<>> /\ ~halted /\ bank <= Len(machine.reg)

\* Mutant: an available range that begins in the page typed last is typed whole.
BeginsOverlap(a) == Page(a[1])

Begins(a) == IF Page(a[1]) < walked THEN walked ELSE Page(a[1])

\* The available ranges of a bank are free, what lies between them is not.
NextAvailable ==
  /\ Walking /\ slot <= Len(machine.available)
  /\ LET a    == machine.available[slot]
         base == Begins(a)
         end  == PageUp(a[1] + a[2])
         stop == IF end > End(bank) THEN End(bank) ELSE end
     IN  IF end <= walked \/ base >= End(bank) THEN UNCHANGED <<todo, walked>>
         ELSE /\ todo' = Range("temporary", walked, base) \o Range("free", base, stop)
              /\ walked' = stop
  /\ slot' = slot + 1
  /\ UNCHANGED <<machine, descs, bank, halted>>

EndBank ==
  /\ Walking /\ slot > Len(machine.available)
  /\ todo' = Range("temporary", walked, End(bank))
  /\ bank' = bank + 1 /\ slot' = 1
  /\ walked' = IF bank < Len(machine.reg) THEN First(bank + 1) ELSE walked
  /\ UNCHANGED <<machine, descs, halted>>

Next == type_range \/ NextAvailable \/ EndBank

-----------------------------------------------------------------------------
(* Properties. *)

Done == bank > Len(machine.reg) /\ todo = <<>> /\ ~halted
Pages(d) == d.base .. d.base + d.count - 1
Installed == UNION {First(n) .. End(n) - 1 : n \in 1 .. Len(machine.reg)}

\* Every installed page is in one descriptor, and no other page is in any: the
\* loader neither loses memory nor hands a page out twice.
EveryPageOnce ==
  Done => /\ \A p \in Installed : Cardinality({k \in 1 .. Len(descs) : p \in Pages(descs[k])}) = 1
          /\ \A k \in 1 .. Len(descs) : Pages(descs[k]) \subseteq Installed

\* The descriptors ascend, and two that touch differ in type, so that the
\* table of MAX_DESC entries goes as far as it can.
AscendAndMerge ==
  \A k \in 1 .. Len(descs) - 1 :
    LET d == descs[k]
        e == descs[k + 1]
    IN  d.base + d.count <= e.base /\ (d.base + d.count = e.base => d.type # e.type)

\* What each page is for, said page by page.
UseOf(p) ==
  IF p < Permanent THEN "permanent"
  ELSE IF p \in machine.program[1] .. machine.program[1] + machine.program[2] - 1 THEN "program"
  ELSE IF p < Kseg0 /\ \E n \in 1 .. Len(machine.available) :
            LET a == machine.available[n]
            IN  a[1] < (p + 1) * PageBytes /\ p * PageBytes < a[1] + a[2]
    THEN "free"
  ELSE "temporary"

\* A page has the type of its use, however the ranges cut across one another:
\* the loader's own pages are never handed out as free ones.
TypedByUse == \A k \in 1 .. Len(descs) : \A p \in Pages(descs[k]) : descs[k].type = UseOf(p)

\* The descriptors say of every page once what it is for (memory.c:70-96).
DescribesMemory == EveryPageOnce /\ AscendAndMerge /\ TypedByUse
=============================================================================
