-------------------------- MODULE PartitionProofs ---------------------------
(***************************************************************************)
(* Theorems about PartitionTable for every size of the tables, every limit  *)
(* of the listing, every disk, every number of faults and of calls: its     *)
(* types, that the two walks of the chain agree on every number, and that   *)
(* what is written is what is read back.                                    *)
(***************************************************************************)
EXTENDS PartitionTable, LeastElement, SequenceTheorems

\* What a read may return, and the calls in progress.
Listings == {w \in Seq(Reported) : Len(w) <= PartitionMax}

ReadCalls ==
  [op : {"read"}, mode : BOOLEAN, base : Nat, first : BOOLEAN, origin : Nat, next : Nat, saw : BOOLEAN,
   passes : 0 .. PartitionMax, number : Nat, out : Listings]

FindCalls ==
  [op : {"find", "stamp"}, want : 1 .. PartitionMax, type : Types, base : Nat, first : BOOLEAN, origin : Nat,
   next : Nat, saw : BOOLEAN, passes : 0 .. PartitionMax, number : Nat, slot : 0 .. Slots,
   table : [1 .. Slots -> Entry]]

WriteCalls == [op : {"write"}, entries : Layouts, group : Nat, lba : Nat, origin : Nat, ok : BOOLEAN]

CallTypes ==
  /\ call \in {NoCall} \cup ReadCalls \cup FindCalls \cup WriteCalls
  /\ layout \in [known : BOOLEAN, mode : BOOLEAN, entries : Listings]

-----------------------------------------------------------------------------
(* The walk both of them take: what each has in hand at a table, without    *)
(* the limit of the listing and without a number looked for.  `on' as long  *)
(* as the chain goes on.                                                    *)

Walks ==
  [base : Nat, first : BOOLEAN, origin : Nat, next : Nat, saw : BOOLEAN, number : Nat, on : BOOLEAN]

Start ==
  [base |-> 0, first |-> TRUE, origin |-> 0, next |-> 0, saw |-> FALSE, number |-> 0, on |-> TRUE]

WalkSlot(w, e) ==
  LET isExt == e.type = "extended"
  IN  [w EXCEPT !.origin = IF isExt /\ w.first THEN e.rel ELSE @,
                !.next   = IF ~isExt THEN @ ELSE IF w.first THEN e.rel ELSE w.origin + e.rel,
                !.saw    = @ \/ isExt,
                !.number = IF e.type \in Recognized THEN @ + 1 ELSE @]

WalkTable(w, table) ==
  LET after[i \in 0 .. Slots] == IF i = 0 THEN w ELSE WalkSlot(after[i - 1], table[i])
  IN  after

\* The slots of the table w has come to, one after the other.
Opened(w) == [w EXCEPT !.saw = FALSE, !.next = w.base]
SlotsOf(d, w) == WalkTable(Opened(w), d[w.base].table)
Trodden(d, w) == w.on /\ w.base \in Lbas /\ d[w.base].magic

NextTable(d, w) ==
  LET s == SlotsOf(d, w)[Slots]
  IN  IF Trodden(d, w) /\ s.saw /\ s.next # w.base
        THEN [s EXCEPT !.base = s.next, !.first = FALSE]
        ELSE [w EXCEPT !.on = FALSE]

Walk(d) ==
  LET at[p \in 0 .. PartitionMax] == IF p = 0 THEN Start ELSE NextTable(d, at[p - 1])
  IN  at

-----------------------------------------------------------------------------
(* What the recursive definitions compute. *)

LEMMA WalkSlotType ==
  ASSUME NEW w \in Walks, NEW e \in Entry
  PROVE  WalkSlot(w, e) \in Walks
<1> DEFINE isExt  == e.type = "extended"
           origin == IF isExt /\ w.first THEN e.rel ELSE w.origin
           next   == IF ~isExt THEN w.next ELSE IF w.first THEN e.rel ELSE w.origin + e.rel
           saw    == w.saw \/ isExt
           number == IF e.type \in Recognized THEN w.number + 1 ELSE w.number
<1>1. origin \in Nat /\ next \in Nat /\ number \in Nat
  BY DEF Walks, Entry
<1>2. saw \in BOOLEAN
  BY DEF Walks
<1>3. WalkSlot(w, e) = [w EXCEPT !.origin = origin, !.next = next, !.saw = saw, !.number = number]
  BY Zenon DEF WalkSlot
<1> HIDE DEF origin, next, saw, number
<1> QED
  BY <1>1, <1>2, <1>3 DEF Walks

\* A table, slot by slot.
LEMMA WalkTableIs ==
  ASSUME NEW v0 \in Walks, NEW table \in [1 .. Slots -> Entry]
  PROVE  /\ WalkTable(v0, table) \in [0 .. Slots -> Walks] /\ WalkTable(v0, table)[0] = v0
         /\ \A i \in 1 .. Slots : WalkTable(v0, table)[i] = WalkSlot(WalkTable(v0, table)[i - 1], table[i])
<1> DEFINE D == Walks
           first == v0
           step == [i \in 1 .. Slots |-> [v \in D |-> WalkSlot(v, table[i])]]
           w == WalkTable(v0, table)
           Is(g) == g = [i \in 0 .. Slots |-> IF i = 0 THEN v0 ELSE WalkSlot(g[i - 1], table[i])]
<1>1. Slots \in Nat
  BY PartitionTableAssumption DEF PartitionTableAssumption
<1>2. first \in D
  OBVIOUS
<1>3. \A i \in 1 .. Slots, v \in D : WalkSlot(v, table[i]) \in D
  BY WalkSlotType
<1>4. StayIn(D, step, Slots)
  <2> HIDE DEF D
  <2> QED
    BY <1>3, Zenon DEF StayIn
<1>5. PICK f : Takes(f, D, first, step, Slots)
  <2> HIDE DEF D, first, step
  <2> QED
    BY <1>1, <1>2, <1>4, RecursionExists, Zenon
<1> HIDE DEF D
<1>6. \A i \in 1 .. Slots : f[i] = WalkSlot(f[i - 1], table[i])
  <2>1. \A i \in 1 .. Slots : f[i - 1] \in D
    BY <1>1, <1>5 DEF Takes
  <2> QED
    BY <1>5, <2>1 DEF Takes
<1>7. Is(f)
  <2>1. \A i \in 0 .. Slots : i = 0 \/ i \in 1 .. Slots
    BY <1>1
  <2>2. f = [i \in 0 .. Slots |-> f[i]] /\ f[0] = first
    BY <1>5 DEF Takes
  <2> QED
    BY <1>6, <2>1, <2>2, Zenon
<1>8. w = CHOOSE g : Is(g)
  BY Zenon DEF WalkTable
<1>9. Is(w)
  <2> HIDE DEF w, Is
  <2> QED
    BY <1>7, <1>8, Zenon
<1> HIDE DEF w
<1>10. /\ w = [i \in 0 .. Slots |-> w[i]] /\ w[0] = first
       /\ \A i \in 1 .. Slots : w[i] = WalkSlot(w[i - 1], table[i])
  <2>1. 0 \in 0 .. Slots /\ \A i \in 1 .. Slots : i \in 0 .. Slots /\ i # 0
    BY <1>1
  <2> QED
    BY <1>9, <2>1, Zenon
<1> HIDE DEF Is
<1>11. \A i \in 0 .. Slots : w[i] \in D
  <2> DEFINE S == {i \in 0 .. Slots : w[i] \in D}
  <2>1. 0 \in S
    BY <1>1, <1>2, <1>10
  <2>2. ASSUME NEW i \in 1 .. Slots, i - 1 \in S PROVE i \in S
    <3>1. w[i - 1] \in D /\ i \in 0 .. Slots
      BY <1>1, <2>2
    <3>2. w[i] \in D
      BY <1>3, <1>10, <3>1, Zenon
    <3> QED
      BY <3>1, <3>2
  <2> HIDE DEF S
  <2>3. \A i \in 0 .. Slots : i \in S
    BY <1>1, <2>1, <2>2, InductionTo
  <2> QED
    BY <2>3 DEF S
<1>12. w \in [0 .. Slots -> D]
  BY <1>10, <1>11
<1> QED
  BY <1>10, <1>12 DEF D, w

LEMMA SlotsAre ==
  ASSUME NEW d \in [Lbas -> Sector], NEW v \in Walks, v.base \in Lbas
  PROVE  /\ SlotsOf(d, v) \in [0 .. Slots -> Walks] /\ SlotsOf(d, v)[0] = Opened(v)
         /\ \A i \in 1 .. Slots : SlotsOf(d, v)[i] = WalkSlot(SlotsOf(d, v)[i - 1], d[v.base].table[i])
<1>1. Opened(v) \in Walks
  BY DEF Opened, Walks
<1>2. d[v.base].table \in [1 .. Slots -> Entry]
  BY DEF Sector
<1> QED
  BY <1>1, <1>2, WalkTableIs, Zenon DEF SlotsOf

LEMMA NextTableType ==
  ASSUME NEW d \in [Lbas -> Sector], NEW v \in Walks
  PROVE  NextTable(d, v) \in Walks
<1>1. Slots \in 0 .. Slots
  BY PartitionTableAssumption DEF PartitionTableAssumption
<1>2. CASE Trodden(d, v)
  <2>1. SlotsOf(d, v)[Slots] \in Walks
    BY <1>1, <1>2, SlotsAre DEF Trodden
  <2> HIDE DEF Trodden
  <2> QED
    BY <2>1 DEF NextTable, Walks
<1>3. CASE ~Trodden(d, v)
  BY <1>3 DEF NextTable, Walks
<1> QED
  BY <1>2, <1>3

\* The walk of a disk, table by table.
LEMMA WalkIs ==
  ASSUME NEW d \in [Lbas -> Sector]
  PROVE  /\ Walk(d) \in [0 .. PartitionMax -> Walks] /\ Walk(d)[0] = Start
         /\ \A i \in 1 .. PartitionMax : Walk(d)[i] = NextTable(d, Walk(d)[i - 1])
<1> DEFINE D == Walks
           first == Start
           step == [i \in 1 .. PartitionMax |-> [v \in D |-> NextTable(d, v)]]
           w == Walk(d)
           Is(g) == g = [i \in 0 .. PartitionMax |-> IF i = 0 THEN Start ELSE NextTable(d, g[i - 1])]
<1>1. PartitionMax \in Nat
  BY PartitionTableAssumption DEF PartitionTableAssumption
<1>2. first \in D
  BY DEF Start, Walks
<1>3. \A i \in 1 .. PartitionMax, v \in D : NextTable(d, v) \in D
  BY NextTableType
<1>4. StayIn(D, step, PartitionMax)
  <2> HIDE DEF D
  <2> QED
    BY <1>3, Zenon DEF StayIn
<1>5. PICK f : Takes(f, D, first, step, PartitionMax)
  <2> HIDE DEF D, first, step
  <2> QED
    BY <1>1, <1>2, <1>4, RecursionExists, Zenon
<1> HIDE DEF D
<1>6. \A i \in 1 .. PartitionMax : f[i] = NextTable(d, f[i - 1])
  <2>1. \A i \in 1 .. PartitionMax : f[i - 1] \in D
    BY <1>1, <1>5 DEF Takes
  <2> QED
    BY <1>5, <2>1 DEF Takes
<1>7. Is(f)
  <2>1. \A i \in 0 .. PartitionMax : i = 0 \/ i \in 1 .. PartitionMax
    BY <1>1
  <2>2. f = [i \in 0 .. PartitionMax |-> f[i]] /\ f[0] = first
    BY <1>5 DEF Takes
  <2> QED
    BY <1>6, <2>1, <2>2, Zenon
<1>8. w = CHOOSE g : Is(g)
  BY Zenon DEF Walk
<1>9. Is(w)
  <2> HIDE DEF w, Is
  <2> QED
    BY <1>7, <1>8, Zenon
<1> HIDE DEF w
<1>10. /\ w = [i \in 0 .. PartitionMax |-> w[i]] /\ w[0] = first
       /\ \A i \in 1 .. PartitionMax : w[i] = NextTable(d, w[i - 1])
  <2>1. 0 \in 0 .. PartitionMax /\ \A i \in 1 .. PartitionMax : i \in 0 .. PartitionMax /\ i # 0
    BY <1>1
  <2> QED
    BY <1>9, <2>1, Zenon
<1> HIDE DEF Is
<1>11. \A i \in 0 .. PartitionMax : w[i] \in D
  <2> DEFINE S == {i \in 0 .. PartitionMax : w[i] \in D}
  <2>1. 0 \in S
    BY <1>1, <1>2, <1>10
  <2>2. ASSUME NEW i \in 1 .. PartitionMax, i - 1 \in S PROVE i \in S
    <3>1. w[i - 1] \in D /\ i \in 0 .. PartitionMax
      BY <1>1, <2>2
    <3>2. w[i] \in D
      BY <1>3, <1>10, <3>1, Zenon
    <3> QED
      BY <3>1, <3>2
  <2> HIDE DEF S
  <2>3. \A i \in 0 .. PartitionMax : i \in S
    BY <1>1, <2>1, <2>2, InductionTo
  <2> QED
    BY <2>3 DEF S
<1>12. w \in [0 .. PartitionMax -> D]
  BY <1>10, <1>11
<1> QED
  BY <1>10, <1>12 DEF D, w

\* A slot keeps a listing a listing.
LEMMA ReadSlotType ==
  ASSUME NEW s \in ReadCalls, NEW e \in Entry
  PROVE  ReadSlot(s, e) \in ReadCalls
<1>1. CASE ~HasRoom(s)
  BY <1>1 DEF ReadSlot
<1>2. CASE HasRoom(s)
  <2> DEFINE isExt    == e.type = "extended"
             absolute == IF isExt /\ ~s.first THEN s.origin + e.rel ELSE s.base + e.rel
             skipped  == s.mode /\ (isExt \/ e.type = "unused" \/ e.len = 0)
             num      == IF e.type \in Recognized /\ ~skipped THEN s.number + 1 ELSE s.number
             entry    == [start |-> absolute, len |-> e.len, type |-> e.type,
                          number |-> IF e.type \in Recognized THEN num ELSE 0]
             out      == IF skipped THEN s.out ELSE Append(s.out, entry)
  <2>1. absolute \in Nat /\ num \in Nat
    BY DEF ReadCalls, Entry
  <2>2. entry \in Reported
    BY <2>1 DEF Entry, Reported
  <2>3. s.out \in Seq(Reported) /\ Len(s.out) < PartitionMax /\ PartitionMax \in Nat
    BY <1>2, PartitionTableAssumption DEF ReadCalls, Listings, HasRoom, PartitionTableAssumption
  <2>4. out \in Listings
    <3> HIDE DEF entry
    <3>1. Append(s.out, entry) \in Seq(Reported) /\ Len(Append(s.out, entry)) = Len(s.out) + 1
      BY <2>2, <2>3
    <3> QED
      BY <2>3, <3>1 DEF Listings
  <2>5. ReadSlot(s, e) = [s EXCEPT !.origin = IF isExt /\ s.first THEN e.rel ELSE @,
                                   !.next = IF isExt THEN absolute ELSE @,
                                   !.saw = @ \/ isExt, !.number = num, !.out = out]
    BY <1>2, Zenon DEF ReadSlot
  <2> HIDE DEF out, num, absolute
  <2> QED
    BY <2>1, <2>4, <2>5 DEF ReadCalls, Entry
<1> QED
  BY <1>1, <1>2

\* IoReadPartitionTable over the slots of a sector.
LEMMA ReadTableIs ==
  ASSUME NEW s0 \in ReadCalls, NEW table \in [1 .. Slots -> Entry]
  PROVE  /\ ReadTable(s0, table) \in [0 .. Slots -> ReadCalls] /\ ReadTable(s0, table)[0] = s0
         /\ \A i \in 1 .. Slots : ReadTable(s0, table)[i] = ReadSlot(ReadTable(s0, table)[i - 1], table[i])
<1> DEFINE D == ReadCalls
           first == s0
           step == [i \in 1 .. Slots |-> [v \in D |-> ReadSlot(v, table[i])]]
           w == ReadTable(s0, table)
           Is(g) == g = [i \in 0 .. Slots |-> IF i = 0 THEN s0 ELSE ReadSlot(g[i - 1], table[i])]
<1>1. Slots \in Nat
  BY PartitionTableAssumption DEF PartitionTableAssumption
<1>2. first \in D
  OBVIOUS
<1>3. \A i \in 1 .. Slots, v \in D : ReadSlot(v, table[i]) \in D
  BY ReadSlotType
<1>4. StayIn(D, step, Slots)
  <2> HIDE DEF D
  <2> QED
    BY <1>3, Zenon DEF StayIn
<1>5. PICK f : Takes(f, D, first, step, Slots)
  <2> HIDE DEF D, first, step
  <2> QED
    BY <1>1, <1>2, <1>4, RecursionExists, Zenon
<1> HIDE DEF D
<1>6. \A i \in 1 .. Slots : f[i] = ReadSlot(f[i - 1], table[i])
  <2>1. \A i \in 1 .. Slots : f[i - 1] \in D
    BY <1>1, <1>5 DEF Takes
  <2> QED
    BY <1>5, <2>1 DEF Takes
<1>7. Is(f)
  <2>1. \A i \in 0 .. Slots : i = 0 \/ i \in 1 .. Slots
    BY <1>1
  <2>2. f = [i \in 0 .. Slots |-> f[i]] /\ f[0] = first
    BY <1>5 DEF Takes
  <2> QED
    BY <1>6, <2>1, <2>2, Zenon
<1>8. w = CHOOSE g : Is(g)
  BY Zenon DEF ReadTable
<1>9. Is(w)
  <2> HIDE DEF w, Is
  <2> QED
    BY <1>7, <1>8, Zenon
<1> HIDE DEF w
<1>10. /\ w = [i \in 0 .. Slots |-> w[i]] /\ w[0] = first
       /\ \A i \in 1 .. Slots : w[i] = ReadSlot(w[i - 1], table[i])
  <2>1. 0 \in 0 .. Slots /\ \A i \in 1 .. Slots : i \in 0 .. Slots /\ i # 0
    BY <1>1
  <2> QED
    BY <1>9, <2>1, Zenon
<1> HIDE DEF Is
<1>11. \A i \in 0 .. Slots : w[i] \in D
  <2> DEFINE S == {i \in 0 .. Slots : w[i] \in D}
  <2>1. 0 \in S
    BY <1>1, <1>2, <1>10
  <2>2. ASSUME NEW i \in 1 .. Slots, i - 1 \in S PROVE i \in S
    <3>1. w[i - 1] \in D /\ i \in 0 .. Slots
      BY <1>1, <2>2
    <3>2. w[i] \in D
      BY <1>3, <1>10, <3>1, Zenon
    <3> QED
      BY <3>1, <3>2
  <2> HIDE DEF S
  <2>3. \A i \in 0 .. Slots : i \in S
    BY <1>1, <2>1, <2>2, InductionTo
  <2> QED
    BY <2>3 DEF S
<1>12. w \in [0 .. Slots -> D]
  BY <1>10, <1>11
<1> QED
  BY <1>10, <1>12 DEF D, w

LEMMA FindSlotType ==
  ASSUME NEW s \in FindCalls, NEW i \in 1 .. Slots
  PROVE  FindSlot(s, i) \in FindCalls
<1>1. s.table[i] \in Entry /\ Slots \in Nat
  BY PartitionTableAssumption DEF FindCalls, PartitionTableAssumption
<1> DEFINE e      == s.table[i]
           isExt  == e.type = "extended"
           hit    == IsCounted(e) /\ s.number + 1 = s.want
           origin == IF isExt /\ s.first THEN e.rel ELSE s.origin
           next   == IF ~isExt THEN s.next ELSE IF s.first THEN e.rel ELSE s.origin + e.rel
           saw    == s.saw \/ isExt
           number == IF IsCounted(e) THEN s.number + 1 ELSE s.number
           slot   == IF hit THEN i ELSE s.slot
<1>2. origin \in Nat /\ next \in Nat /\ number \in Nat /\ slot \in 0 .. Slots
  <2>1. e.rel \in Nat
    BY <1>1 DEF Entry
  <2>2. s.origin \in Nat /\ s.next \in Nat /\ s.number \in Nat /\ s.slot \in 0 .. Slots
    BY DEF FindCalls
  <2> HIDE DEF e
  <2> QED
    BY <1>1, <2>1, <2>2
<1>3. saw \in BOOLEAN
  BY DEF FindCalls
<1>4. FindSlot(s, i) = IF s.slot # 0 THEN s
                       ELSE [s EXCEPT !.origin = origin, !.next = next, !.saw = saw, !.number = number, !.slot = slot]
  BY Zenon DEF FindSlot
<1> HIDE DEF origin, next, saw, number, slot
<1>5. [s EXCEPT !.origin = origin, !.next = next, !.saw = saw, !.number = number, !.slot = slot] \in FindCalls
  BY <1>2, <1>3 DEF FindCalls
<1> QED
  BY <1>4, <1>5, Zenon

\* HalpFindPartition over the slots of a sector.
LEMMA FindTableIs ==
  ASSUME NEW s0 \in FindCalls
  PROVE  /\ FindTable(s0) \in [0 .. Slots -> FindCalls] /\ FindTable(s0)[0] = s0
         /\ \A i \in 1 .. Slots : FindTable(s0)[i] = FindSlot(FindTable(s0)[i - 1], i)
<1> DEFINE D == FindCalls
           first == s0
           step == [i \in 1 .. Slots |-> [v \in D |-> FindSlot(v, i)]]
           w == FindTable(s0)
           Is(g) == g = [i \in 0 .. Slots |-> IF i = 0 THEN s0 ELSE FindSlot(g[i - 1], i)]
<1>1. Slots \in Nat
  BY PartitionTableAssumption DEF PartitionTableAssumption
<1>2. first \in D
  OBVIOUS
<1>3. \A i \in 1 .. Slots, v \in D : FindSlot(v, i) \in D
  BY FindSlotType
<1>4. StayIn(D, step, Slots)
  <2> HIDE DEF D
  <2> QED
    BY <1>3, Zenon DEF StayIn
<1>5. PICK f : Takes(f, D, first, step, Slots)
  <2> HIDE DEF D, first, step
  <2> QED
    BY <1>1, <1>2, <1>4, RecursionExists, Zenon
<1> HIDE DEF D
<1>6. \A i \in 1 .. Slots : f[i] = FindSlot(f[i - 1], i)
  <2>1. \A i \in 1 .. Slots : f[i - 1] \in D
    BY <1>1, <1>5 DEF Takes
  <2> QED
    BY <1>5, <2>1 DEF Takes
<1>7. Is(f)
  <2>1. \A i \in 0 .. Slots : i = 0 \/ i \in 1 .. Slots
    BY <1>1
  <2>2. f = [i \in 0 .. Slots |-> f[i]] /\ f[0] = first
    BY <1>5 DEF Takes
  <2> QED
    BY <1>6, <2>1, <2>2, Zenon
<1>8. w = CHOOSE g : Is(g)
  BY Zenon DEF FindTable
<1>9. Is(w)
  <2> HIDE DEF w, Is
  <2> QED
    BY <1>7, <1>8, Zenon
<1> HIDE DEF w
<1>10. /\ w = [i \in 0 .. Slots |-> w[i]] /\ w[0] = first
       /\ \A i \in 1 .. Slots : w[i] = FindSlot(w[i - 1], i)
  <2>1. 0 \in 0 .. Slots /\ \A i \in 1 .. Slots : i \in 0 .. Slots /\ i # 0
    BY <1>1
  <2> QED
    BY <1>9, <2>1, Zenon
<1> HIDE DEF Is
<1>11. \A i \in 0 .. Slots : w[i] \in D
  <2> DEFINE S == {i \in 0 .. Slots : w[i] \in D}
  <2>1. 0 \in S
    BY <1>1, <1>2, <1>10
  <2>2. ASSUME NEW i \in 1 .. Slots, i - 1 \in S PROVE i \in S
    <3>1. w[i - 1] \in D /\ i \in 0 .. Slots
      BY <1>1, <2>2
    <3>2. w[i] \in D
      BY <1>3, <1>10, <3>1, Zenon
    <3> QED
      BY <3>1, <3>2
  <2> HIDE DEF S
  <2>3. \A i \in 0 .. Slots : i \in S
    BY <1>1, <2>1, <2>2, InductionTo
  <2> QED
    BY <2>3 DEF S
<1>12. w \in [0 .. Slots -> D]
  BY <1>10, <1>11
<1> QED
  BY <1>10, <1>12 DEF D, w

-----------------------------------------------------------------------------
(* Along the walk the numbers rise, so no number is given twice. *)

\* A slot leaves the table it is in, and counts one entry at most.
LEMMA SlotCounts ==
  ASSUME NEW w \in Walks, NEW e \in Entry
  PROVE  /\ WalkSlot(w, e).base = w.base /\ WalkSlot(w, e).first = w.first /\ WalkSlot(w, e).on = w.on
         /\ WalkSlot(w, e).number = IF e.type \in Recognized THEN w.number + 1 ELSE w.number
BY DEF Walks, WalkSlot

LEMMA SlotsRise ==
  ASSUME NEW d \in [Lbas -> Sector], NEW v \in Walks, v.base \in Lbas
  PROVE  /\ SlotsOf(d, v)[0].number = v.number
         /\ \A i \in 0 .. Slots :
              /\ SlotsOf(d, v)[i].base = v.base /\ SlotsOf(d, v)[i].first = v.first /\ SlotsOf(d, v)[i].on = v.on
              /\ \A j \in 0 .. i : SlotsOf(d, v)[j].number <= SlotsOf(d, v)[i].number
<1> DEFINE w == SlotsOf(d, v)
           table == d[v.base].table
           Keeps(i) == w[i].base = v.base /\ w[i].first = v.first /\ w[i].on = v.on
           S == {i \in 0 .. Slots : Keeps(i) /\ \A j \in 0 .. i : w[j].number <= w[i].number}
<1>1. Slots \in Nat
  BY PartitionTableAssumption DEF PartitionTableAssumption
<1>2. w \in [0 .. Slots -> Walks] /\ w[0] = Opened(v) /\ \A i \in 1 .. Slots : w[i] = WalkSlot(w[i - 1], table[i])
  BY SlotsAre
<1>3. table \in [1 .. Slots -> Entry]
  BY DEF Sector
<1>4. Keeps(0) /\ w[0].number = v.number
  BY <1>2 DEF Opened, Walks
<1>5. \A i \in 0 .. Slots : w[i].number \in Nat
  BY <1>1, <1>2 DEF Walks
<1> HIDE DEF w, table
<1>6. 0 \in S
  BY <1>1, <1>4, <1>5
<1>7. ASSUME NEW i \in 1 .. Slots, i - 1 \in S PROVE i \in S
  <2>1. i \in 0 .. Slots /\ i - 1 \in 0 .. Slots /\ w[i - 1] \in Walks /\ table[i] \in Entry
    BY <1>1, <1>2, <1>3
  <2>2. Keeps(i) /\ w[i].number = IF table[i].type \in Recognized THEN w[i - 1].number + 1 ELSE w[i - 1].number
    BY <1>2, <1>7, <2>1, SlotCounts
  <2>3. w[i - 1].number <= w[i].number
    BY <1>5, <2>1, <2>2
  <2>4. ASSUME NEW j \in 0 .. i PROVE w[j].number <= w[i].number
    <3>1. CASE j = i
      BY <1>5, <2>1, <3>1
    <3>2. CASE j # i
      <4>1. j \in 0 .. i - 1 /\ j \in 0 .. Slots
        BY <1>1, <2>1, <3>2
      <4>2. w[j].number <= w[i - 1].number
        BY <1>7, <4>1
      <4> QED
        BY <1>5, <2>1, <2>3, <4>1, <4>2
    <3> QED
      BY <3>1, <3>2
  <2> HIDE DEF Keeps
  <2> QED
    BY <2>1, <2>2, <2>4
<1> HIDE DEF S
<1>8. \A i \in 0 .. Slots : i \in S
  BY <1>1, <1>6, <1>7, InductionTo
<1> QED
  BY <1>4, <1>8 DEF S, w

\* The chain goes on behind a table.
Went(d, w) == Trodden(d, w) /\ SlotsOf(d, w)[Slots].saw /\ SlotsOf(d, w)[Slots].next # w.base

\* What is on has come all the way, over tables that gave lower numbers.
LEMMA WalkRises ==
  ASSUME NEW d \in [Lbas -> Sector], NEW p0 \in 0 .. PartitionMax, Walk(d)[p0].on, NEW q0 \in 0 .. p0 - 1
  PROVE  /\ Went(d, Walk(d)[q0])
         /\ \A j \in 0 .. Slots : SlotsOf(d, Walk(d)[q0])[j].number <= Walk(d)[p0].number
<1> DEFINE at == Walk(d)
           Behind(p, q) == Went(d, at[q]) /\ \A j \in 0 .. Slots : SlotsOf(d, at[q])[j].number <= at[p].number
           S == {p \in 0 .. PartitionMax : at[p].on => \A q \in 0 .. p - 1 : Behind(p, q)}
<1>1. Slots \in Nat /\ PartitionMax \in Nat
  BY PartitionTableAssumption DEF PartitionTableAssumption
<1>2. at \in [0 .. PartitionMax -> Walks] /\ at[0] = Start /\ \A p \in 1 .. PartitionMax : at[p] = NextTable(d, at[p - 1])
  BY WalkIs
<1> HIDE DEF at
<1>3. 0 \in S
  BY <1>1
<1>4. ASSUME NEW p \in 1 .. PartitionMax, p - 1 \in S PROVE p \in S
  <2>1. p \in 0 .. PartitionMax /\ p - 1 \in 0 .. PartitionMax /\ at[p - 1] \in Walks
    BY <1>1, <1>2
  <2>2. SUFFICES ASSUME at[p].on PROVE \A q \in 0 .. p - 1 : Behind(p, q)
    BY <2>1
  <2> DEFINE v == at[p - 1]
             w == SlotsOf(d, v)
  <2>3. Went(d, v) /\ at[p].number = w[Slots].number
    <3>1. at[p] = NextTable(d, v)
      BY <1>2
    <3>2. CASE Went(d, v)
      <4>1. w[Slots] \in Walks
        BY <1>1, <2>1, <3>2, SlotsAre DEF Went, Trodden
      <4>2. at[p] = [w[Slots] EXCEPT !.base = w[Slots].next, !.first = FALSE]
        BY <3>1, <3>2, Zenon DEF NextTable, Went
      <4> HIDE DEF w
      <4> QED
        BY <3>2, <4>1, <4>2 DEF Walks
    <3>3. CASE ~Went(d, v)
      <4>1. at[p] = [v EXCEPT !.on = FALSE]
        BY <3>1, <3>3, Zenon DEF NextTable, Went
      <4> QED
        BY <2>1, <2>2, <4>1 DEF Walks
    <3> QED
      BY <3>2, <3>3
  <2>4. v.on /\ v.base \in Lbas
    BY <2>3 DEF Went, Trodden
  <2>5. /\ w \in [0 .. Slots -> Walks] /\ w[0].number = v.number
        /\ \A i \in 0 .. Slots : \A j \in 0 .. i : w[j].number <= w[i].number
    BY <2>1, <2>4, SlotsAre, SlotsRise
  <2> HIDE DEF w, S
  <2>6. \A j \in 0 .. Slots : w[j].number <= at[p].number
    BY <1>1, <2>3, <2>5
  <2>7. v.number <= at[p].number
    BY <1>1, <2>5, <2>6
  <2>8. ASSUME NEW q \in 0 .. p - 1 PROVE Behind(p, q)
    <3>1. CASE q = p - 1
      BY <2>3, <2>6, <3>1 DEF w
    <3>2. CASE q # p - 1
      <4>1. q \in 0 .. (p - 1) - 1
        BY <3>2
      <4>2. Behind(p - 1, q)
        BY <1>4, <2>4, <4>1 DEF S
      <4>3. at[q] \in Walks /\ at[q].base \in Lbas
        <5>1. q \in 0 .. PartitionMax
          BY <1>1, <2>1, <4>1
        <5>2. at[q] \in Walks
          BY <1>2, <5>1
        <5> QED
          BY <4>2, <5>2, Zenon DEF Went, Trodden
      <4>4. SlotsOf(d, at[q]) \in [0 .. Slots -> Walks]
        BY <4>3, SlotsAre
      <4>5. \A j \in 0 .. Slots : SlotsOf(d, at[q])[j].number \in Nat
        BY <4>4 DEF Walks
      <4>6. v.number \in Nat /\ at[p].number \in Nat
        BY <1>2, <2>1 DEF Walks
      <4>7. \A j \in 0 .. Slots : SlotsOf(d, at[q])[j].number <= v.number
        BY <4>2
      <4>8. ASSUME NEW j \in 0 .. Slots PROVE SlotsOf(d, at[q])[j].number <= at[p].number
        <5>1. SlotsOf(d, at[q])[j].number <= v.number /\ SlotsOf(d, at[q])[j].number \in Nat
          BY <4>5, <4>7
        <5> QED
          BY <2>7, <4>6, <5>1
      <4> QED
        BY <4>2, <4>8
    <3> QED
      BY <3>1, <3>2
  <2> QED
    BY <2>8
<1> HIDE DEF S
<1>5. \A p \in 0 .. PartitionMax : p \in S
  BY <1>1, <1>3, <1>4, InductionTo
<1> QED
  BY <1>5 DEF S, at

\* The walk gives the recognised entry in slot i of its table p the number n.
Numbered(d, p, i, n) ==
  /\ p \in 0 .. PartitionMax /\ i \in 1 .. Slots
  /\ Trodden(d, Walk(d)[p])
  /\ d[Walk(d)[p].base].table[i].type \in Recognized
  /\ SlotsOf(d, Walk(d)[p])[i].number = n

\* Up to the slot the numbers are lower.
LEMMA NumberIsNew ==
  ASSUME NEW d \in [Lbas -> Sector], NEW p, NEW i, NEW n, Numbered(d, p, i, n)
  PROVE  n \in Nat /\ \A j \in 0 .. i - 1 : SlotsOf(d, Walk(d)[p])[j].number < n
<1> DEFINE v == Walk(d)[p]
           w == SlotsOf(d, v)
<1>1. Slots \in Nat /\ PartitionMax \in Nat /\ p \in 0 .. PartitionMax /\ i \in 1 .. Slots
  BY PartitionTableAssumption DEF PartitionTableAssumption, Numbered
<1>2. v \in Walks
  BY <1>1, WalkIs
<1>3. v.base \in Lbas /\ d[v.base].table[i].type \in Recognized /\ w[i].number = n
  BY DEF Numbered, Trodden
<1>4. d[v.base].table[i] \in Entry
  BY <1>1, <1>3 DEF Sector
<1>5. w \in [0 .. Slots -> Walks] /\ w[i] = WalkSlot(w[i - 1], d[v.base].table[i])
  BY <1>1, <1>2, <1>3, SlotsAre
<1>6. \A j \in 0 .. i - 1 : w[j].number <= w[i - 1].number
  BY <1>1, <1>2, <1>3, SlotsRise
<1> HIDE DEF w, v
<1>7. i - 1 \in 0 .. Slots /\ w[i - 1] \in Walks /\ w[i - 1].number \in Nat
  BY <1>1, <1>5 DEF Walks
<1>8. n = w[i - 1].number + 1
  BY <1>3, <1>4, <1>5, <1>7, SlotCounts
<1>9. ASSUME NEW j \in 0 .. i - 1 PROVE w[j].number < n
  <2>1. j \in 0 .. Slots
    BY <1>1
  <2>2. w[j].number \in Nat
    BY <1>5, <2>1 DEF Walks
  <2> QED
    BY <1>6, <1>7, <1>8, <2>2
<1> QED
  BY <1>7, <1>8, <1>9 DEF w, v

LEMMA NoneEarlier ==
  ASSUME NEW d \in [Lbas -> Sector], NEW p, NEW i, NEW q, NEW j, NEW n,
         Numbered(d, p, i, n), Numbered(d, q, j, n), p < q \/ (p = q /\ i < j)
  PROVE  FALSE
<1>1. Slots \in Nat /\ p \in 0 .. PartitionMax /\ i \in 1 .. Slots /\ q \in 0 .. PartitionMax /\ j \in 1 .. Slots
  BY PartitionTableAssumption DEF PartitionTableAssumption, Numbered
<1>2. n \in Nat /\ \A k \in 0 .. j - 1 : SlotsOf(d, Walk(d)[q])[k].number < n
  BY NumberIsNew
<1>3. SlotsOf(d, Walk(d)[p])[i].number = n
  BY DEF Numbered
<1>4. CASE p = q /\ i < j
  <2>1. i \in 0 .. j - 1
    BY <1>1, <1>4
  <2> QED
    BY <1>2, <1>3, <1>4, <2>1
<1>5. CASE p < q
  <2>1. Walk(d)[q] \in Walks /\ Walk(d)[q].on /\ Walk(d)[q].base \in Lbas
    BY <1>1, WalkIs DEF Numbered, Trodden
  <2>2. SlotsOf(d, Walk(d)[q])[0].number = Walk(d)[q].number
    BY <2>1, SlotsRise
  <2>3. p \in 0 .. q - 1 /\ i \in 0 .. Slots
    BY <1>1, <1>5
  <2>4. SlotsOf(d, Walk(d)[p])[i].number <= Walk(d)[q].number
    BY <1>1, <2>1, <2>3, WalkRises
  <2>5. Walk(d)[q].number < n /\ Walk(d)[q].number \in Nat
    BY <1>1, <1>2, <2>1, <2>2 DEF Walks
  <2> QED
    BY <1>2, <1>3, <2>4, <2>5
<1> QED
  BY <1>4, <1>5

\* One place has a number.
LEMMA NumbersAreUnique ==
  ASSUME NEW d \in [Lbas -> Sector], NEW p, NEW i, NEW q, NEW j, NEW n,
         Numbered(d, p, i, n), Numbered(d, q, j, n)
  PROVE  p = q /\ i = j
<1>1. p \in Int /\ q \in Int /\ i \in Int /\ j \in Int
  BY PartitionTableAssumption DEF Numbered, PartitionTableAssumption
<1> QED
  BY <1>1, NoneEarlier

-----------------------------------------------------------------------------
(* The invariant. *)

\* c has come to the table w has come to; c has come to the slot w has.
Abreast(c, w) == c.base = w.base /\ c.first = w.first /\ c.origin = w.origin /\ c.number = w.number
InStep(c, w)  == Abreast(c, w) /\ c.next = w.next /\ c.saw = w.saw

\* Every number in a listing is the walk's, and the entry it stands for is there.
Here(d, p, i, entry) ==
  /\ Numbered(d, p, i, entry.number)
  /\ entry.start = Walk(d)[p].base + d[Walk(d)[p].base].table[i].rel

Lists(d, out) ==
  \A k \in 1 .. Len(out) :
    out[k].number # 0 => \E p \in 0 .. PartitionMax, i \in 1 .. Slots : Here(d, p, i, out[k])

ReadTied ==
  call.op = "read" /\ ~call.mode =>
    /\ Walk(disk)[call.passes].on /\ Abreast(call, Walk(disk)[call.passes])
    /\ call.first => call.base = 0
    /\ HasRoom(call) /\ Lists(disk, call.out)

FindTied ==
  call.op = "find" =>
    /\ Walk(disk)[call.passes].on /\ Abreast(call, Walk(disk)[call.passes])
    /\ call.slot = 0 /\ call.number < call.want

StampTied ==
  call.op = "stamp" =>
    /\ call.base = Walk(disk)[call.passes].base /\ call.table = disk[call.base].table
    /\ Numbered(disk, call.passes, call.slot, call.want)

\* A group is written where the group before it says.
WriteTied ==
  call.op = "write" =>
    /\ layout = Nothing
    /\ call.group * Slots < Len(call.entries)
    /\ call.lba = TableAt(call.entries, call.group)
    /\ call.group # 0 => call.lba # 0 /\ call.origin = TableAt(call.entries, 1)

LayoutTied == layout.known /\ ~layout.mode => Lists(disk, layout.entries)

Inv ==
  /\ disk \in [Lbas -> Sector]
  /\ faults \in 0 .. MaxFaults /\ calls \in 0 .. MaxCalls
  /\ CallTypes
  /\ ReadTied /\ FindTied /\ StampTied /\ WriteTied /\ LayoutTied

-----------------------------------------------------------------------------
(* Both loops over the slots follow the walk. *)

\* HalpFindPartition on a slot: it stops there or is in step, and below the number it wants.
LEMMA FindStep ==
  ASSUME NEW f \in FindCalls, NEW w \in Walks, NEW i \in 1 .. Slots,
         InStep(f, w), f.slot = 0, f.number < f.want
  PROVE  LET e == f.table[i]
             g == FindSlot(f, i)
             v == WalkSlot(w, e)
         IN  /\ g.slot = 0 => InStep(g, v) /\ g.number < g.want
             /\ g.slot # 0 => g.slot = i /\ e.type \in Recognized /\ v.number = f.want
<1> DEFINE e == f.table[i]
           g == FindSlot(f, i)
           v == WalkSlot(w, e)
           isExt == e.type = "extended"
           hit == IsCounted(e) /\ f.number + 1 = f.want
<1>1. e \in Entry /\ i # 0 /\ Slots \in Nat
  BY PartitionTableAssumption DEF FindCalls, PartitionTableAssumption
<1>2. g = [f EXCEPT !.origin = IF isExt /\ f.first THEN e.rel ELSE @,
                    !.next   = IF ~isExt THEN @ ELSE IF f.first THEN e.rel ELSE f.origin + e.rel,
                    !.saw    = @ \/ isExt,
                    !.number = IF IsCounted(e) THEN @ + 1 ELSE @,
                    !.slot   = IF hit THEN i ELSE @]
  BY Zenon DEF FindSlot
<1>3. v = [w EXCEPT !.origin = IF isExt /\ w.first THEN e.rel ELSE @,
                    !.next   = IF ~isExt THEN @ ELSE IF w.first THEN e.rel ELSE w.origin + e.rel,
                    !.saw    = @ \/ isExt,
                    !.number = IF e.type \in Recognized THEN @ + 1 ELSE @]
  BY Zenon DEF WalkSlot
<1>4. IsCounted(e) <=> e.type \in Recognized
  BY DEF IsCounted
<1>5. /\ f.base = w.base /\ f.first = w.first /\ f.origin = w.origin /\ f.number = w.number
      /\ f.next = w.next /\ f.saw = w.saw
  BY DEF InStep, Abreast
<1>6. /\ g.base = f.base /\ g.first = f.first /\ g.want = f.want
      /\ g.origin = (IF isExt /\ f.first THEN e.rel ELSE f.origin)
      /\ g.next = (IF ~isExt THEN f.next ELSE IF f.first THEN e.rel ELSE f.origin + e.rel)
      /\ g.number = (IF IsCounted(e) THEN f.number + 1 ELSE f.number)
      /\ g.slot = (IF hit THEN i ELSE f.slot)
  <2> HIDE DEF e, g, isExt, hit
  <2> QED
    BY <1>2 DEF FindCalls
<1>7. g.saw = (f.saw \/ isExt)
  <2> HIDE DEF e, isExt, hit
  <2> QED
    BY <1>2, Zenon DEF FindCalls
<1>8. /\ v.base = w.base /\ v.first = w.first
      /\ v.origin = (IF isExt /\ w.first THEN e.rel ELSE w.origin)
      /\ v.next = (IF ~isExt THEN w.next ELSE IF w.first THEN e.rel ELSE w.origin + e.rel)
      /\ v.number = (IF e.type \in Recognized THEN w.number + 1 ELSE w.number)
  <2> HIDE DEF e, isExt
  <2> QED
    BY <1>3 DEF Walks
<1>9. v.saw = (w.saw \/ isExt)
  <2> HIDE DEF e, isExt
  <2> QED
    BY <1>3, Zenon DEF Walks
<1>10. InStep(g, v)
  BY <1>4, <1>5, <1>6, <1>7, <1>8, <1>9, Zenon DEF InStep, Abreast
<1>11. f.number \in Nat /\ f.want \in Nat
  BY PartitionTableAssumption DEF FindCalls, PartitionTableAssumption
<1>12. CASE hit
  <2>1. g.slot = i /\ e.type \in Recognized /\ v.number = f.want
    BY <1>4, <1>5, <1>6, <1>8, <1>12
  <2> QED
    BY <1>1, <2>1, Zenon
<1>13. CASE ~hit
  <2> HIDE DEF e, v
  <2>1. g.slot = 0 /\ g.number < g.want
    BY <1>6, <1>11, <1>13
  <2> QED
    BY <1>10, <2>1 DEF e, v
<1> QED
  BY <1>12, <1>13

\* HalpFindPartition on the slots of the table it has come to.
LEMMA FindFollows ==
  ASSUME NEW d \in [Lbas -> Sector], NEW s \in FindCalls, s.passes \in 0 .. PartitionMax,
         Trodden(d, Walk(d)[s.passes]), InStep(s, Opened(Walk(d)[s.passes])),
         s.table = d[Walk(d)[s.passes].base].table, s.slot = 0, s.number < s.want
  PROVE  LET f == FindTable(s)[Slots]
             w == SlotsOf(d, Walk(d)[s.passes])[Slots]
         IN  /\ f \in FindCalls /\ w \in Walks
             /\ f.base = s.base /\ f.want = s.want /\ f.passes = s.passes /\ f.table = s.table
             /\ f.op = s.op /\ f.type = s.type
             /\ f.slot = 0 => InStep(f, w) /\ f.number < f.want
             /\ f.slot # 0 => Numbered(d, s.passes, f.slot, s.want)
<1> DEFINE v == Walk(d)[s.passes]
           w == SlotsOf(d, v)
           f == FindTable(s)
           Keeps(g) == /\ g.base = s.base /\ g.want = s.want /\ g.passes = s.passes /\ g.table = s.table
                       /\ g.op = s.op /\ g.type = s.type
           Good(i) == /\ Keeps(f[i])
                      /\ f[i].slot = 0 => InStep(f[i], w[i]) /\ f[i].number < f[i].want
                      /\ f[i].slot # 0 => Numbered(d, s.passes, f[i].slot, s.want)
           S == {i \in 0 .. Slots : Good(i)}
<1>1. Slots \in Nat
  BY PartitionTableAssumption DEF PartitionTableAssumption
<1>2. v \in Walks /\ v.base \in Lbas
  BY WalkIs DEF Trodden
<1>3. w \in [0 .. Slots -> Walks] /\ w[0] = Opened(v) /\ \A i \in 1 .. Slots : w[i] = WalkSlot(w[i - 1], s.table[i])
  BY <1>2, SlotsAre
<1>4. f \in [0 .. Slots -> FindCalls] /\ f[0] = s /\ \A i \in 1 .. Slots : f[i] = FindSlot(f[i - 1], i)
  BY FindTableIs
<1> HIDE DEF f
<1>5. 0 \in S
  <2> HIDE DEF v, w
  <2> QED
    BY <1>1, <1>3, <1>4 DEF v
<1>6. ASSUME NEW i \in 1 .. Slots, i - 1 \in S PROVE i \in S
  <2>1. i \in 0 .. Slots /\ i - 1 \in 0 .. Slots /\ f[i - 1] \in FindCalls /\ w[i - 1] \in Walks
    BY <1>1, <1>3, <1>4
  <2>2. Good(i - 1)
    BY <1>6
  <2>3. f[i] = FindSlot(f[i - 1], i) /\ w[i] = WalkSlot(w[i - 1], s.table[i])
    BY <1>3, <1>4
  <2>4. Keeps(f[i])
    <3> DEFINE g == f[i - 1]
    <3>1. Keeps(FindSlot(g, i))
      <4> HIDE DEF g
      <4>1. Keeps(g) /\ g \in FindCalls
        BY <2>1, <2>2 DEF g
      <4> QED
        BY <4>1 DEF FindSlot, FindCalls
    <3> QED
      BY <2>3, <3>1
  <2> HIDE DEF w, Keeps
  <2>5. CASE f[i - 1].slot # 0
    <3>1. f[i] = f[i - 1]
      BY <2>3, <2>5, Zenon DEF FindSlot
    <3> QED
      BY <2>1, <2>2, <2>4, <2>5, <3>1, Zenon
  <2>6. CASE f[i - 1].slot = 0
    <3>1. f[i - 1].table = s.table /\ f[i - 1].want = s.want
      BY <2>2 DEF Keeps
    <3>2. InStep(f[i - 1], w[i - 1]) /\ f[i - 1].number < f[i - 1].want
      BY <2>2, <2>6
    <3>3. /\ f[i].slot = 0 => InStep(f[i], w[i]) /\ f[i].number < f[i].want
          /\ f[i].slot # 0 => f[i].slot = i /\ s.table[i].type \in Recognized /\ w[i].number = s.want
      BY <2>1, <2>3, <2>6, <3>1, <3>2, FindStep
    <3>4. f[i].slot # 0 => Numbered(d, s.passes, f[i].slot, s.want)
      BY <3>3, Zenon DEF Numbered, w, v
    <3> QED
      BY <2>1, <2>4, <3>3, <3>4
  <2> QED
    BY <2>5, <2>6
<1> HIDE DEF S
<1>7. \A i \in 0 .. Slots : i \in S
  BY <1>1, <1>5, <1>6, InductionTo
<1>8. Slots \in 0 .. Slots
  BY <1>1
<1>9. Good(Slots) /\ f[Slots] \in FindCalls /\ w[Slots] \in Walks
  BY <1>3, <1>4, <1>7, <1>8 DEF S
<1> QED
  BY <1>9, Zenon DEF f

\* IoReadPartitionTable on a slot changes neither table nor mode.
LEMMA ReadKeeps ==
  ASSUME NEW r \in ReadCalls, NEW e \in Entry
  PROVE  LET g == ReadSlot(r, e)
         IN  g.base = r.base /\ g.first = r.first /\ g.mode = r.mode /\ g.passes = r.passes /\ g.op = r.op
BY DEF ReadSlot, ReadCalls

\* One slot, of a read that lists everything and has room.
LEMMA ReadStep ==
  ASSUME NEW r \in ReadCalls, NEW w \in Walks, NEW e \in Entry,
         InStep(r, w), ~r.mode, r.first => r.base = 0, HasRoom(r)
  PROVE  LET g == ReadSlot(r, e)
             v == WalkSlot(w, e)
         IN  /\ InStep(g, v)
             /\ \E x \in Reported :
                  /\ g.out = Append(r.out, x)
                  /\ x.number # 0 => e.type \in Recognized /\ x.number = v.number /\ x.start = r.base + e.rel
<1> DEFINE g == ReadSlot(r, e)
           v == WalkSlot(w, e)
           isExt == e.type = "extended"
           absolute == IF isExt /\ ~r.first THEN r.origin + e.rel ELSE r.base + e.rel
           num == IF e.type \in Recognized THEN r.number + 1 ELSE r.number
           x == [start |-> absolute, len |-> e.len, type |-> e.type,
                 number |-> IF e.type \in Recognized THEN num ELSE 0]
<1>1. /\ r.base = w.base /\ r.first = w.first /\ r.origin = w.origin /\ r.number = w.number
      /\ r.next = w.next /\ r.saw = w.saw
  BY DEF InStep, Abreast
<1>2. /\ r.base \in Nat /\ r.origin \in Nat /\ r.number \in Nat /\ e.rel \in Nat /\ e.len \in Nat /\ e.type \in Types
      /\ r.mode = FALSE
  BY DEF ReadCalls, Entry
<1>3. g = [r EXCEPT !.origin = IF isExt /\ r.first THEN e.rel ELSE @,
                    !.next   = IF isExt THEN absolute ELSE @,
                    !.saw    = @ \/ isExt,
                    !.number = num,
                    !.out    = Append(@, x)]
  BY <1>2, Zenon DEF ReadSlot
<1>4. v = [w EXCEPT !.origin = IF isExt /\ w.first THEN e.rel ELSE @,
                    !.next   = IF ~isExt THEN @ ELSE IF w.first THEN e.rel ELSE w.origin + e.rel,
                    !.saw    = @ \/ isExt,
                    !.number = IF e.type \in Recognized THEN @ + 1 ELSE @]
  BY Zenon DEF WalkSlot
<1>5. /\ g.base = r.base /\ g.first = r.first
      /\ g.origin = (IF isExt /\ r.first THEN e.rel ELSE r.origin)
      /\ g.next = (IF isExt THEN absolute ELSE r.next)
      /\ g.number = num /\ g.out = Append(r.out, x)
  <2> HIDE DEF isExt, absolute, num, x, g
  <2> QED
    BY <1>3 DEF ReadCalls
<1>6. g.saw = (r.saw \/ isExt)
  <2> HIDE DEF isExt, absolute, num, x
  <2> QED
    BY <1>3, Zenon DEF ReadCalls
<1>7. /\ v.base = w.base /\ v.first = w.first
      /\ v.origin = (IF isExt /\ w.first THEN e.rel ELSE w.origin)
      /\ v.next = (IF ~isExt THEN w.next ELSE IF w.first THEN e.rel ELSE w.origin + e.rel)
      /\ v.number = (IF e.type \in Recognized THEN w.number + 1 ELSE w.number)
  <2> HIDE DEF isExt
  <2> QED
    BY <1>4 DEF Walks
<1>8. v.saw = (w.saw \/ isExt)
  <2> HIDE DEF isExt
  <2> QED
    BY <1>4, Zenon DEF Walks
<1>9. isExt => absolute = IF w.first THEN e.rel ELSE w.origin + e.rel
  BY <1>1, <1>2
<1>10. g.next = v.next
  <2> HIDE DEF isExt, absolute, g, v
  <2> QED
    BY <1>1, <1>5, <1>7, <1>9
<1>11. InStep(g, v)
  <2>1. g.number = v.number
    BY <1>1, <1>5, <1>7
  <2>2. g.base = v.base /\ g.first = v.first /\ g.origin = v.origin /\ g.saw = v.saw
    BY <1>1, <1>5, <1>6, <1>7, <1>8, Zenon
  <2> QED
    BY <1>10, <2>1, <2>2, Zenon DEF InStep, Abreast
<1>12. x \in Reported
  <2>1. absolute \in Nat /\ num \in Nat
    BY <1>2
  <2> QED
    BY <1>2, <2>1 DEF Reported
<1>13. x.number # 0 => e.type \in Recognized /\ x.number = v.number /\ x.start = r.base + e.rel
  <2>1. x.number # 0 => e.type \in Recognized /\ x.number = num
    BY Zenon
  <2>2. e.type \in Recognized => ~isExt /\ num = v.number
    BY <1>1, <1>5, <1>7 DEF Recognized
  <2>3. ~isExt => x.start = r.base + e.rel
    BY Zenon
  <2> QED
    BY <2>1, <2>2, <2>3, Zenon
<1> QED
  BY <1>5, <1>11, <1>12, <1>13, Zenon

\* A listing goes on being one with an entry of the walk at its end.
LEMMA ListsAppend ==
  ASSUME NEW d, NEW out \in Seq(Reported), NEW x \in Reported, Lists(d, out),
         x.number # 0 => \E p \in 0 .. PartitionMax, i \in 1 .. Slots : Here(d, p, i, x)
  PROVE  Lists(d, Append(out, x))
<1>1. /\ Len(out) \in Nat /\ Len(Append(out, x)) = Len(out) + 1 /\ Append(out, x)[Len(out) + 1] = x
      /\ \A k \in 1 .. Len(out) : Append(out, x)[k] = out[k]
  OBVIOUS
<1>2. ASSUME NEW k \in 1 .. Len(Append(out, x)), Append(out, x)[k].number # 0
      PROVE  \E p \in 0 .. PartitionMax, i \in 1 .. Slots : Here(d, p, i, Append(out, x)[k])
  <2>1. CASE k = Len(out) + 1
    <3>1. Append(out, x)[k] = x
      BY <1>1, <2>1
    <3> QED
      BY <1>2, <3>1, Zenon
  <2>2. CASE k # Len(out) + 1
    <3>1. k \in 1 .. Len(out) /\ Append(out, x)[k] = out[k]
      BY <1>1, <2>2
    <3> QED
      BY <1>2, <3>1, Zenon DEF Lists
  <2> QED
    BY <2>1, <2>2
<1> QED
  BY <1>2, Zenon DEF Lists

\* IoReadPartitionTable on the slots of the table it has come to: in step as
\* long as there is room, and what is listed is the walk's.
LEMMA ReadFollows ==
  ASSUME NEW d \in [Lbas -> Sector], NEW s \in ReadCalls, ~s.mode, s.first => s.base = 0,
         Trodden(d, Walk(d)[s.passes]), InStep(s, Opened(Walk(d)[s.passes])),
         HasRoom(s), Lists(d, s.out)
  PROVE  LET r == ReadTable(s, d[s.base].table)[Slots]
             w == SlotsOf(d, Walk(d)[s.passes])[Slots]
         IN  /\ w \in Walks
             /\ HasRoom(r) => InStep(r, w)
             /\ Lists(d, r.out)
<1> DEFINE v == Walk(d)[s.passes]
           w == SlotsOf(d, v)
           table == d[s.base].table
           r == ReadTable(s, table)
           Keeps(g) == g.base = s.base /\ g.first = s.first /\ g.mode = s.mode
           Good(i) == /\ Keeps(r[i])
                      /\ HasRoom(r[i]) => InStep(r[i], w[i])
                      /\ Lists(d, r[i].out)
           S == {i \in 0 .. Slots : Good(i)}
<1>1. Slots \in Nat /\ s.passes \in 0 .. PartitionMax
  BY PartitionTableAssumption DEF PartitionTableAssumption, ReadCalls
<1>2. v \in Walks /\ v.base \in Lbas
  BY <1>1, WalkIs DEF Trodden
<1>3. s.base = v.base
  BY <1>2 DEF InStep, Abreast, Opened, Walks
<1>4. table \in [1 .. Slots -> Entry]
  BY <1>2, <1>3 DEF Sector
<1>5. w \in [0 .. Slots -> Walks] /\ w[0] = Opened(v) /\ \A i \in 1 .. Slots : w[i] = WalkSlot(w[i - 1], table[i])
  BY <1>2, <1>3, SlotsAre
<1>6. r \in [0 .. Slots -> ReadCalls] /\ r[0] = s /\ \A i \in 1 .. Slots : r[i] = ReadSlot(r[i - 1], table[i])
  BY <1>4, ReadTableIs
<1> HIDE DEF r
<1>7. 0 \in S
  <2> HIDE DEF v, w, table
  <2> QED
    BY <1>1, <1>5, <1>6 DEF v
<1>8. ASSUME NEW i \in 1 .. Slots, i - 1 \in S PROVE i \in S
  <2>1. i \in 0 .. Slots /\ i - 1 \in 0 .. Slots /\ r[i - 1] \in ReadCalls /\ w[i - 1] \in Walks /\ table[i] \in Entry
    BY <1>1, <1>4, <1>5, <1>6
  <2>2. Good(i - 1)
    BY <1>8
  <2>3. r[i] = ReadSlot(r[i - 1], table[i]) /\ w[i] = WalkSlot(w[i - 1], table[i])
    BY <1>5, <1>6
  <2>4. Keeps(r[i])
    BY <2>1, <2>2, <2>3, ReadKeeps
  <2>5. CASE ~HasRoom(r[i - 1])
    <3>1. r[i] = r[i - 1]
      BY <2>3, <2>5, Zenon DEF ReadSlot
    <3> QED
      BY <2>1, <2>2, <2>4, <2>5, <3>1, Zenon
  <2>6. CASE HasRoom(r[i - 1])
    <3>1. r[i - 1].base = s.base /\ r[i - 1].first = s.first /\ ~r[i - 1].mode
      BY <2>2
    <3>2. InStep(r[i - 1], w[i - 1]) /\ (r[i - 1].first => r[i - 1].base = 0)
      BY <2>2, <2>6, <3>1, Zenon
    <3> HIDE DEF w, table
    <3>3. /\ InStep(r[i], w[i])
          /\ \E x \in Reported :
               /\ r[i].out = Append(r[i - 1].out, x)
               /\ x.number # 0 => table[i].type \in Recognized /\ x.number = w[i].number /\ x.start = s.base + table[i].rel
      BY <2>1, <2>3, <2>6, <3>1, <3>2, ReadStep
    <3>4. PICK x \in Reported :
            /\ r[i].out = Append(r[i - 1].out, x)
            /\ x.number # 0 => table[i].type \in Recognized /\ x.number = w[i].number /\ x.start = s.base + table[i].rel
      BY <3>3
    <3>5. x.number # 0 => Here(d, s.passes, i, x)
      BY <1>1, <1>3, <3>4, Zenon DEF Here, Numbered, w, v, table
    <3>6. Lists(d, r[i].out)
      <4>1. r[i - 1].out \in Seq(Reported)
        BY <2>1 DEF ReadCalls, Listings
      <4>2. Lists(d, r[i - 1].out)
        BY <2>2
      <4>3. x.number # 0 => \E p \in 0 .. PartitionMax, j \in 1 .. Slots : Here(d, p, j, x)
        BY <1>1, <3>5, Zenon
      <4>4. Lists(d, Append(r[i - 1].out, x))
        BY <4>1, <4>2, <4>3, ListsAppend
      <4> QED
        BY <3>4, <4>4
    <3> QED
      BY <2>1, <2>4, <3>3, <3>6
  <2> QED
    BY <2>5, <2>6
<1> HIDE DEF S
<1>9. \A i \in 0 .. Slots : i \in S
  BY <1>1, <1>7, <1>8, InductionTo
<1>10. Slots \in 0 .. Slots
  BY <1>1
<1>11. Good(Slots) /\ w[Slots] \in Walks
  BY <1>5, <1>9, <1>10 DEF S
<1> QED
  BY <1>11, Zenon DEF r

\* A read of a table changes neither table nor mode nor the passes, and stays a listing.
LEMMA ReadTableKeeps ==
  ASSUME NEW s \in ReadCalls, NEW table \in [1 .. Slots -> Entry]
  PROVE  LET r == ReadTable(s, table)[Slots]
         IN  /\ r \in ReadCalls /\ r.base = s.base /\ r.mode = s.mode /\ r.passes = s.passes
<1> DEFINE r == ReadTable(s, table)
           S == {i \in 0 .. Slots : r[i].base = s.base /\ r[i].mode = s.mode /\ r[i].passes = s.passes}
<1>1. Slots \in Nat
  BY PartitionTableAssumption DEF PartitionTableAssumption
<1>2. r \in [0 .. Slots -> ReadCalls] /\ r[0] = s /\ \A i \in 1 .. Slots : r[i] = ReadSlot(r[i - 1], table[i])
  BY ReadTableIs
<1> HIDE DEF r
<1>3. 0 \in S
  BY <1>1, <1>2
<1>4. ASSUME NEW i \in 1 .. Slots, i - 1 \in S PROVE i \in S
  <2>1. i \in 0 .. Slots /\ i - 1 \in 0 .. Slots /\ r[i - 1] \in ReadCalls /\ table[i] \in Entry
    BY <1>1, <1>2
  <2>2. r[i] = ReadSlot(r[i - 1], table[i])
    BY <1>2
  <2> QED
    BY <1>4, <2>1, <2>2, ReadKeeps
<1> HIDE DEF S
<1>5. \A i \in 0 .. Slots : i \in S
  BY <1>1, <1>3, <1>4, InductionTo
<1>6. Slots \in 0 .. Slots
  BY <1>1
<1>7. r[Slots] \in ReadCalls /\ Slots \in S
  BY <1>2, <1>5, <1>6
<1> QED
  BY <1>7, Zenon DEF r, S

-----------------------------------------------------------------------------
(* The groups of a layout. *)

\* A product grows with its factor.
LEMMA TimesGrow ==
  ASSUME NEW a \in Nat, NEW c \in Nat, NEW b \in Nat, a <= c
  PROVE  a * b \in Nat /\ a * b <= c * b
OBVIOUS

\* The entries of a group are those of the layout from its place on.
LEMMA GroupIs ==
  ASSUME NEW entries \in Seq(Wanted), NEW g \in Nat, g * Slots < Len(entries)
  PROVE  /\ GroupOf(entries, g) \in Seq(Wanted)
         /\ \A i \in 1 .. Len(GroupOf(entries, g)) :
              /\ i \in 1 .. Slots /\ g * Slots + i \in 1 .. Len(entries)
              /\ GroupOf(entries, g)[i] = entries[g * Slots + i]
         /\ \A i \in 1 .. Slots : g * Slots + i <= Len(entries) => i <= Len(GroupOf(entries, g))
<1> DEFINE m == g * Slots + 1
           n == IF (g + 1) * Slots <= Len(entries) THEN (g + 1) * Slots ELSE Len(entries)
           group == SubSeq(entries, m, n)
<1>1. Slots \in Nat \ {0} /\ Len(entries) \in Nat /\ g * Slots \in Nat /\ (g + 1) * Slots = g * Slots + Slots
  BY PartitionTableAssumption DEF PartitionTableAssumption
<1>2. m \in Int /\ n \in Int /\ 1 <= m /\ m <= n /\ n <= Len(entries) /\ n <= g * Slots + Slots
  BY <1>1
<1>3. \A i \in m .. n : entries[i] \in Wanted
  <2> HIDE DEF m, n
  <2>1. \A i \in m .. n : i \in 1 .. Len(entries)
    BY <1>1, <1>2
  <2> QED
    BY <2>1
<1>7. ASSUME NEW i \in 1 .. Slots, g * Slots + i <= Len(entries) PROVE i <= n - m + 1
  BY <1>1, <1>7
<1> HIDE DEF n
<1>4. /\ group \in Seq(Wanted) /\ Len(group) = n - m + 1
      /\ \A i \in 1 .. n - m + 1 : group[i] = entries[m + i - 1]
  <2> HIDE DEF m
  <2> QED
    BY <1>2, <1>3, SubSeqProperties
<1>5. GroupOf(entries, g) = group
  BY Zenon DEF GroupOf, n
<1> HIDE DEF group
<1>6. ASSUME NEW i \in 1 .. Len(group)
      PROVE  i \in 1 .. Slots /\ g * Slots + i \in 1 .. Len(entries) /\ group[i] = entries[g * Slots + i]
  <2>1. i \in 1 .. n - m + 1
    BY <1>4
  <2>2. m + i - 1 = g * Slots + i
    BY <1>1
  <2>3. group[i] = entries[g * Slots + i]
    BY <1>4, <2>1, <2>2
  <2> QED
    BY <1>1, <1>2, <2>1, <2>3
<1> QED
  BY <1>4, <1>5, <1>6, <1>7

\* There is a last one of the links.
LEMMA LastExists ==
  ASSUME NEW n \in Nat, NEW L \in SUBSET (1 .. n), L # {}
  PROVE  \E i \in L : \A j \in L : j <= i
<1> DEFINE S == {n - i : i \in L}
<1>1. \A i \in L : i \in Nat /\ n - i \in Nat
  OBVIOUS
<1>0. S \in SUBSET Nat /\ S # {}
  BY <1>1
<1> HIDE DEF S
<1>2. PICK x \in S : \A y \in S : x <= y
  BY <1>0, SmallestExists
<1>3. PICK i \in L : x = n - i
  BY <1>2 DEF S
<1>4. \A j \in L : n - i <= n - j
  BY <1>2, <1>3 DEF S
<1>5. \A j \in L : j <= i
  BY <1>1, <1>4
<1> QED
  BY <1>5

\* What LinkOf gives: the start of the last link.
LEMMA LinkIs ==
  ASSUME NEW group \in Seq(Wanted)
  PROVE  /\ LinkOf(group) \in Nat
         /\ (\E i \in 1 .. Len(group) : IsLink(group[i])) =>
              \E i \in 1 .. Len(group) :
                /\ IsLink(group[i]) /\ LinkOf(group) = group[i].start
                /\ \A j \in 1 .. Len(group) : IsLink(group[j]) => j <= i
         /\ LinkOf(group) # 0 => \E i \in 1 .. Len(group) : IsLink(group[i])
<1> DEFINE links == {i \in 1 .. Len(group) : IsLink(group[i])}
           last == CHOOSE i \in links : \A j \in links : j <= i
<1>1. LinkOf(group) = IF links = {} THEN 0 ELSE group[last].start
  BY Zenon DEF LinkOf
<1>2. CASE links = {}
  BY <1>1, <1>2
<1>3. CASE links # {}
  <2>1. links \in SUBSET (1 .. Len(group)) /\ Len(group) \in Nat
    OBVIOUS
  <2>2. \E i \in links : \A j \in links : j <= i
    <3> HIDE DEF links
    <3> QED
      BY <1>3, <2>1, LastExists
  <2>3. last \in links /\ \A j \in links : j <= last
    <3> HIDE DEF links
    <3> QED
      BY <2>2, Zenon
  <2> HIDE DEF last
  <2>4. LinkOf(group) = group[last].start /\ last \in 1 .. Len(group) /\ IsLink(group[last])
    BY <1>1, <1>3, <2>3
  <2>5. group[last].start \in Nat
    <3> HIDE DEF links
    <3>1. group[last] \in Wanted
      BY <2>4
    <3> QED
      BY <3>1 DEF Wanted
  <2>6. \A j \in 1 .. Len(group) : IsLink(group[j]) => j <= last
    BY <2>3
  <2> QED
    BY <2>4, <2>5, <2>6
<1> QED
  BY <1>2, <1>3

\* The slot an entry of a group is in.
LEMMA GroupSlot ==
  ASSUME NEW g \in Nat, NEW i \in 1 .. Slots
  PROVE  g * Slots + i \in Nat \ {0} /\ ((g * Slots + i) - 1) \div Slots = g
<1> DEFINE k == g * Slots + i
<1>1. Slots \in Nat \ {0}
  BY PartitionTableAssumption DEF PartitionTableAssumption
<1>2. g * Slots \in Nat /\ (g + 1) * Slots = g * Slots + Slots
  BY <1>1
<1>3. k \in Nat \ {0} /\ k - 1 \in Nat /\ g * Slots <= k - 1 /\ k - 1 < (g + 1) * Slots
  BY <1>1, <1>2
<1> HIDE DEF k
<1>4. (k - 1) \div Slots = g
  BY <1>1, <1>3, Quotient
<1> QED
  BY <1>3, <1>4 DEF k

\* A group in the layout's table has something to hold; behind the last is nothing.
LEMMA GroupsCover ==
  ASSUME NEW entries \in Seq(Wanted)
  PROVE  /\ Groups(entries) \in Nat /\ Len(entries) <= Groups(entries) * Slots
         /\ \A g \in Nat : g < Groups(entries) => g * Slots < Len(entries)
<1> DEFINE n == Len(entries) + Slots - 1
           q == n \div Slots
<1>1. n \in Nat /\ Len(entries) \in Nat /\ Slots \in Nat \ {0}
  BY PartitionTableAssumption DEF PartitionTableAssumption
<1>2. q \in Nat /\ q * Slots <= n /\ n < (q + 1) * Slots
  <2> HIDE DEF n
  <2> QED
    BY <1>1, Quotient
<1>3. q = Groups(entries)
  BY DEF Groups
<1> HIDE DEF q
<1>4. q * Slots \in Nat /\ (q + 1) * Slots = q * Slots + Slots
  BY <1>1, <1>2
<1>5. Len(entries) <= q * Slots
  BY <1>1, <1>2, <1>4
<1>6. ASSUME NEW g \in Nat, g < q PROVE g * Slots < Len(entries)
  <2>1. g + 1 \in Nat /\ g + 1 <= q /\ g * Slots \in Nat /\ (g + 1) * Slots = g * Slots + Slots
    BY <1>1, <1>2, <1>6
  <2>2. (g + 1) * Slots <= q * Slots
    BY <1>1, <1>2, <2>1, TimesGrow
  <2> QED
    BY <1>1, <1>2, <1>4, <2>1, <2>2
<1> QED
  BY <1>2, <1>3, <1>5, <1>6

LEMMA TableAtIsANumber ==
  ASSUME NEW entries \in Layouts, NEW g \in Nat, g # 0 => (g - 1) * Slots < Len(entries)
  PROVE  TableAt(entries, g) \in Nat
<1>1. entries \in Seq(Wanted)
  BY PartitionTableAssumption DEF PartitionTableAssumption, IsLayout
<1>2. CASE g = 0
  BY <1>2 DEF TableAt
<1>3. CASE g # 0
  <2>1. g - 1 \in Nat
    BY <1>3
  <2>2. LinkOf(GroupOf(entries, g - 1)) \in Nat
    BY <1>1, <1>3, <2>1, GroupIs, LinkIs
  <2> QED
    BY <1>3, <2>2 DEF TableAt
<1> QED
  BY <1>2, <1>3

\* An entry in use lies behind what it counts from.
LEMMA EntryLiesBehind ==
  ASSUME NEW entries \in Layouts, NEW g \in Nat, g * Slots < Len(entries),
         NEW i \in 1 .. Len(GroupOf(entries, g)), Kept(GroupOf(entries, g)[i])
  PROVE  LET e == GroupOf(entries, g)[i]
         IN  /\ e.start >= TableAt(entries, IF e.type = "extended" /\ g # 0 THEN 1 ELSE g)
             /\ e.type = "extended" => g + 1 < Groups(entries)
             /\ g * Slots + i <= PartitionMax
<1> DEFINE e == GroupOf(entries, g)[i]
           k == g * Slots + i
<1>1. /\ entries \in Seq(Wanted)
      /\ \A j \in DOMAIN entries : Kept(entries[j]) => IsEntry(entries, j)
  BY PartitionTableAssumption DEF PartitionTableAssumption, IsLayout
<1>2. i \in 1 .. Slots /\ k \in 1 .. Len(entries) /\ e = entries[k]
  BY <1>1, GroupIs
<1>3. (k - 1) \div Slots = g
  BY <1>2, GroupSlot
<1> HIDE DEF k, e
<1>4. k \in DOMAIN entries /\ Kept(entries[k])
  BY <1>1, <1>2 DEF e
<1>5. IsEntry(entries, k)
  BY <1>1, <1>4
<1>6. /\ k <= PartitionMax
      /\ e.start >= TableAt(entries, IF IsLink(e) /\ g # 0 THEN 1 ELSE g)
      /\ IsLink(e) => g + 1 < Groups(entries)
  BY <1>2, <1>3, <1>5, Zenon DEF IsEntry
<1>7. IsLink(e) <=> e.type = "extended"
  BY <1>2, <1>4 DEF IsLink
<1> QED
  BY <1>6, <1>7, Zenon DEF e, k

\* What is laid down for a group is a table: no subtraction goes below 0.
LEMMA TableForType ==
  ASSUME NEW entries \in Layouts, NEW g \in Nat, g * Slots < Len(entries), NEW lba \in Nat, NEW origin \in Nat,
         lba = TableAt(entries, g), g # 0 => origin = TableAt(entries, 1)
  PROVE  /\ TableFor(GroupOf(entries, g), g, lba, origin) \in [1 .. Slots -> Entry]
         /\ \A i \in 1 .. Len(GroupOf(entries, g)) :
              Kept(GroupOf(entries, g)[i]) => StoredRel(GroupOf(entries, g)[i], g, lba, origin) \in Nat
<1> DEFINE group == GroupOf(entries, g)
           Stored(i) == IF i <= Len(group) /\ Kept(group[i])
                          THEN [type |-> group[i].type, rel |-> StoredRel(group[i], g, lba, origin), len |-> group[i].len]
                          ELSE Blank
<1>1. Slots \in Nat \ {0} /\ entries \in Seq(Wanted)
  BY PartitionTableAssumption DEF PartitionTableAssumption, IsLayout
<1>2. group \in Seq(Wanted)
  BY <1>1, GroupIs
<1>3. Blank \in Entry
  BY DEF Blank, Entry, Types
<1>4. ASSUME NEW i \in 1 .. Len(group), Kept(group[i])
      PROVE  StoredRel(group[i], g, lba, origin) \in Nat
  <2> DEFINE e == group[i]
  <2>1. e \in Wanted
    BY <1>2
  <2>2. e.start >= TableAt(entries, IF e.type = "extended" /\ g # 0 THEN 1 ELSE g)
    BY <1>4, EntryLiesBehind
  <2> HIDE DEF e
  <2>3. e.start \in Nat
    BY <2>1 DEF Wanted
  <2>4. CASE e.type # "extended"
    <3>1. lba <= e.start
      BY <2>2, <2>4
    <3> QED
      BY <2>3, <2>4, <3>1 DEF StoredRel, e
  <2>5. CASE e.type = "extended" /\ g = 0
    BY <2>3, <2>5 DEF StoredRel, e
  <2>6. CASE e.type = "extended" /\ g # 0
    <3>1. origin <= e.start
      BY <2>2, <2>6
    <3> QED
      BY <2>3, <2>6, <3>1 DEF StoredRel, e
  <2> QED
    BY <2>4, <2>5, <2>6
<1>5. ASSUME NEW i \in 1 .. Slots PROVE Stored(i) \in Entry
  <2>1. CASE i <= Len(group) /\ Kept(group[i])
    <3>1. i \in 1 .. Len(group)
      BY <1>2, <2>1
    <3>2. group[i] \in Wanted /\ StoredRel(group[i], g, lba, origin) \in Nat
      BY <1>2, <1>4, <2>1, <3>1
    <3> HIDE DEF group
    <3> QED
      BY <2>1, <3>2 DEF Wanted, Entry
  <2>2. CASE ~(i <= Len(group) /\ Kept(group[i]))
    BY <1>3, <2>2
  <2> QED
    BY <2>1, <2>2
<1>6. TableFor(group, g, lba, origin) = [i \in 1 .. Slots |-> Stored(i)]
  BY Zenon DEF TableFor
<1> HIDE DEF Stored, group
<1> QED
  BY <1>4, <1>5, <1>6 DEF group

-----------------------------------------------------------------------------
(* Every step keeps the invariant. *)

LEMMA CallOps ==
  ASSUME CallTypes
  PROVE  /\ call.op = "read" => call \in ReadCalls
         /\ call.op \in {"find", "stamp"} => call \in FindCalls
         /\ call.op = "write" => call \in WriteCalls
BY DEF CallTypes, NoCall, ReadCalls, FindCalls, WriteCalls

\* No call, no tie.
LEMMA IdleIsFree ==
  ASSUME call' = NoCall
  PROVE  ReadTied' /\ FindTied' /\ StampTied' /\ WriteTied'
BY DEF NoCall, ReadTied, FindTied, StampTied, WriteTied

LEMMA NothingIsFree ==
  /\ Nothing \in [known : BOOLEAN, mode : BOOLEAN, entries : Listings]
  /\ ~Nothing.known
<1>1. << >> \in Listings
  BY PartitionTableAssumption DEF PartitionTableAssumption, Listings
<1> QED
  BY <1>1 DEF Nothing

LEMMA WalkStarts ==
  ASSUME NEW d \in [Lbas -> Sector]
  PROVE  Walk(d)[0] = Start /\ PartitionMax \in Nat
BY WalkIs, PartitionTableAssumption DEF PartitionTableAssumption

LEMMA InitInv ==
  ASSUME Init
  PROVE  Inv
<1>1. disk \in [Lbas -> Sector] /\ faults \in 0 .. MaxFaults /\ calls \in 0 .. MaxCalls
  BY PartitionTableAssumption DEF PartitionTableAssumption, Init
<1>2. CallTypes /\ LayoutTied
  BY NothingIsFree, Zenon DEF Init, CallTypes, LayoutTied
<1>3. ReadTied /\ FindTied /\ StampTied /\ WriteTied
  BY DEF Init, NoCall, ReadTied, FindTied, StampTied, WriteTied
<1> QED
  BY <1>1, <1>2, <1>3 DEF Inv

\* A call begins: at the first sector, with nothing found.
LEMMA BeginReadInv ==
  ASSUME Inv, NEW mode \in ReadModes, BeginRead(mode)
  PROVE  Inv'
<1> DEFINE c == [op |-> "read", mode |-> mode, base |-> 0, first |-> TRUE, origin |-> 0, next |-> 0,
                 saw |-> FALSE, passes |-> 0, number |-> 0, out |-> << >>]
<1>1. /\ call' = c /\ disk' = disk /\ faults' = faults /\ layout' = layout /\ calls' = calls + 1 /\ calls < MaxCalls
  BY Zenon DEF BeginRead, Begin
<1>2. disk' \in [Lbas -> Sector] /\ faults' \in 0 .. MaxFaults /\ calls' \in 0 .. MaxCalls
  BY <1>1, PartitionTableAssumption DEF Inv, PartitionTableAssumption
<1>3. Walk(disk)[0] = Start /\ PartitionMax \in Nat /\ mode \in BOOLEAN
  BY WalkStarts, PartitionTableAssumption DEF Inv, PartitionTableAssumption
<1>4. c \in ReadCalls
  <2>1. << >> \in Listings
    BY <1>3 DEF Listings
  <2> QED
    BY <1>3, <2>1 DEF ReadCalls
<1>5. CallTypes'
  BY <1>1, <1>4 DEF Inv, CallTypes
<1>6. Lists(disk, << >>)
  BY DEF Lists
<1>7. ReadTied'
  <2>1. call' \in ReadCalls /\ call'.op = "read" /\ call'.passes = 0 /\ call'.out = << >>
    BY <1>1, <1>4
  <2>2. Start.on /\ Abreast(c, Start) /\ HasRoom(c)
    BY <1>3, PartitionTableAssumption DEF Start, Abreast, HasRoom, PartitionTableAssumption
  <2>3. c.base = 0 /\ Walk(disk')[call'.passes] = Start /\ Lists(disk', call'.out)
    BY <1>1, <1>3, <1>6, <2>1, Zenon
  <2> QED
    BY <1>1, <2>2, <2>3, Zenon DEF ReadTied
<1>8. FindTied' /\ StampTied' /\ WriteTied'
  BY <1>1 DEF FindTied, StampTied, WriteTied
<1>9. LayoutTied'
  BY <1>1 DEF Inv, LayoutTied
<1> QED
  BY <1>2, <1>5, <1>7, <1>8, <1>9 DEF Inv

LEMMA BeginSetInv ==
  ASSUME Inv, NEW n \in 1 .. PartitionMax, BeginSet(n, "other")
  PROVE  Inv'
<1> DEFINE c == [op |-> "find", want |-> n, type |-> "other", base |-> 0, first |-> TRUE, origin |-> 0,
                 next |-> 0, saw |-> FALSE, passes |-> 0, number |-> 0, slot |-> 0,
                 table |-> [i \in 1 .. Slots |-> Blank]]
<1>1. /\ call' = c /\ disk' = disk /\ faults' = faults /\ layout' = layout /\ calls' = calls + 1 /\ calls < MaxCalls
  BY Zenon DEF BeginSet, Begin
<1>2. disk' \in [Lbas -> Sector] /\ faults' \in 0 .. MaxFaults /\ calls' \in 0 .. MaxCalls
  BY <1>1, PartitionTableAssumption DEF Inv, PartitionTableAssumption
<1>3. Walk(disk)[0] = Start /\ PartitionMax \in Nat /\ Slots \in Nat
  BY WalkStarts, PartitionTableAssumption DEF Inv, PartitionTableAssumption
<1>4. c \in FindCalls
  <2>1. [i \in 1 .. Slots |-> Blank] \in [1 .. Slots -> Entry]
    BY DEF Blank, Entry, Types
  <2> QED
    BY <1>3, <2>1 DEF FindCalls, Types
<1>5. CallTypes'
  BY <1>1, <1>4 DEF Inv, CallTypes
<1>6. FindTied'
  <2>1. Start.on /\ Abreast(c, Start)
    BY DEF Start, Abreast
  <2>2. c.slot = 0 /\ c.number < c.want /\ c.passes = 0
    OBVIOUS
  <2> HIDE DEF c
  <2>3. Walk(disk')[call'.passes] = Start
    BY <1>1, <1>3, <2>2, Zenon
  <2> QED
    BY <1>1, <2>1, <2>2, <2>3, Zenon DEF FindTied
<1>7. ReadTied' /\ StampTied' /\ WriteTied'
  BY <1>1 DEF ReadTied, StampTied, WriteTied
<1>8. LayoutTied'
  BY <1>1 DEF Inv, LayoutTied
<1> QED
  BY <1>2, <1>5, <1>6, <1>7, <1>8 DEF Inv

LEMMA BeginWriteInv ==
  ASSUME Inv, NEW entries \in Layouts, BeginWrite(entries)
  PROVE  Inv'
<1> DEFINE c == [op |-> "write", entries |-> entries, group |-> 0, lba |-> 0, origin |-> 0, ok |-> TRUE]
<1>1. /\ call' = c /\ disk' = disk /\ faults' = faults /\ layout' = Nothing /\ calls' = calls + 1 /\ calls < MaxCalls
  BY Zenon DEF BeginWrite, Begin
<1>2. disk' \in [Lbas -> Sector] /\ faults' \in 0 .. MaxFaults /\ calls' \in 0 .. MaxCalls
  BY <1>1, PartitionTableAssumption DEF Inv, PartitionTableAssumption
<1>3. Slots \in Nat /\ entries \in Seq(Wanted) /\ entries # << >>
  BY PartitionTableAssumption DEF PartitionTableAssumption, IsLayout
<1>4. 0 * Slots < Len(entries)
  BY <1>3
<1>5. c \in WriteCalls
  BY DEF WriteCalls
<1>6. CallTypes'
  BY <1>1, <1>5, NothingIsFree DEF Inv, CallTypes
<1>7. WriteTied'
  <2>1. /\ call'.group = 0 /\ call'.lba = 0 /\ call'.entries = entries
    BY <1>1
  <2> QED
    BY <1>1, <1>4, <2>1 DEF WriteTied, TableAt
<1>8. ReadTied' /\ FindTied' /\ StampTied'
  BY <1>1 DEF ReadTied, FindTied, StampTied
<1>9. LayoutTied'
  BY <1>1, NothingIsFree DEF LayoutTied
<1> QED
  BY <1>2, <1>6, <1>7, <1>8, <1>9 DEF Inv

\* A fault more stays within the bound.
LEMMA FailType ==
  ASSUME faults \in 0 .. MaxFaults, Fail \/ UNCHANGED faults
  PROVE  faults' \in 0 .. MaxFaults
BY PartitionTableAssumption DEF PartitionTableAssumption, Fail

LEMMA ReadStopsInv ==
  ASSUME Inv, ReadStops
  PROVE  Inv'
<1>1. /\ call.op = "read" /\ call' = NoCall /\ disk' = disk /\ calls' = calls /\ (Fail \/ UNCHANGED faults)
      /\ \/ layout' = Nothing
         \/ \E known \in BOOLEAN : layout' = [known |-> known, mode |-> call.mode, entries |-> call.out]
  BY Zenon DEF ReadStops, ReturnRead
<1>2. disk' \in [Lbas -> Sector] /\ faults' \in 0 .. MaxFaults /\ calls' \in 0 .. MaxCalls
  BY <1>1, FailType DEF Inv
<1>3. call \in ReadCalls /\ (~call.mode => Lists(disk, call.out))
  BY <1>1, CallOps DEF Inv, ReadTied
<1>4. CallTypes' /\ LayoutTied'
  <2>1. CASE layout' = Nothing
    BY <1>1, <2>1, NothingIsFree DEF CallTypes, LayoutTied
  <2>2. ASSUME NEW known \in BOOLEAN, layout' = [known |-> known, mode |-> call.mode, entries |-> call.out]
        PROVE  CallTypes' /\ LayoutTied'
    <3>1. call.mode \in BOOLEAN /\ call.out \in Listings
      BY <1>3 DEF ReadCalls
    <3>2. layout'.mode = call.mode /\ layout'.entries = call.out
      BY <2>2
    <3> QED
      BY <1>1, <1>3, <2>2, <3>1, <3>2 DEF CallTypes, LayoutTied
  <2> QED
    BY <1>1, <2>1, <2>2
<1> QED
  BY <1>1, <1>2, <1>4, IdleIsFree DEF Inv

LEMMA FindStopsInv ==
  ASSUME Inv, FindStops
  PROVE  Inv'
<1>1. call' = NoCall /\ disk' = disk /\ layout' = layout /\ calls' = calls /\ (Fail \/ UNCHANGED faults)
  BY Zenon DEF FindStops
<1>2. disk' \in [Lbas -> Sector] /\ faults' \in 0 .. MaxFaults /\ calls' \in 0 .. MaxCalls
  BY <1>1, FailType DEF Inv
<1>3. CallTypes' /\ LayoutTied'
  BY <1>1 DEF Inv, CallTypes, LayoutTied
<1> QED
  BY <1>1, <1>2, <1>3, IdleIsFree DEF Inv

LEMMA SetPartitionTypeInv ==
  ASSUME Inv, SetPartitionType
  PROVE  Inv'
<1>1. /\ call.op = "stamp" /\ call' = NoCall /\ calls' = calls /\ (Fail \/ UNCHANGED faults)
      /\ \/ disk' = [disk EXCEPT ![call.base].table[call.slot].type = call.type] /\ layout' = Nothing
         \/ disk' = disk /\ layout' = layout
  BY Zenon DEF SetPartitionType
<1>2. faults' \in 0 .. MaxFaults /\ calls' \in 0 .. MaxCalls
  BY <1>1, FailType DEF Inv
<1>3. CASE disk' = [disk EXCEPT ![call.base].table[call.slot].type = call.type] /\ layout' = Nothing
  <2>1. call.type \in Types /\ disk \in [Lbas -> Sector]
    BY <1>1, CallOps DEF Inv, FindCalls
  <2> DEFINE entry(l) == [disk[l].table[call.slot] EXCEPT !.type = call.type]
             table(l) == [disk[l].table EXCEPT ![call.slot] = entry(l)]
             sector(l) == [disk[l] EXCEPT !.table = table(l)]
  <2>2. ASSUME NEW l \in Lbas PROVE sector(l) \in Sector
    <3>1. disk[l] \in Sector /\ disk[l].table \in [1 .. Slots -> Entry]
      BY <2>1 DEF Sector
    <3>2. \A e \in Entry : [e EXCEPT !.type = call.type] \in Entry
      BY <2>1 DEF Entry
    <3>3. table(l) \in [1 .. Slots -> Entry]
      BY <3>1, <3>2
    <3> HIDE DEF table
    <3> QED
      BY <3>1, <3>3 DEF Sector
  <2>3. disk' = [disk EXCEPT ![call.base] = sector(call.base)]
    BY <1>3
  <2>4. disk' \in [Lbas -> Sector]
    <3> HIDE DEF sector
    <3> QED
      BY <2>1, <2>2, <2>3
  <2>5. CallTypes' /\ LayoutTied'
    BY <1>1, <1>3, NothingIsFree DEF CallTypes, LayoutTied
  <2> QED
    BY <1>1, <1>2, <2>4, <2>5, IdleIsFree DEF Inv
<1>4. CASE disk' = disk /\ layout' = layout
  <2>1. CallTypes' /\ LayoutTied'
    BY <1>1, <1>4 DEF Inv, CallTypes, LayoutTied
  <2> QED
    BY <1>1, <1>2, <1>4, <2>1, IdleIsFree DEF Inv
<1> QED
  BY <1>1, <1>3, <1>4

\* Where the walk is when it has left a table.
LEMMA WalkGoesOn ==
  ASSUME NEW d \in [Lbas -> Sector], NEW p \in 0 .. PartitionMax, p + 1 <= PartitionMax, Went(d, Walk(d)[p])
  PROVE  LET w == SlotsOf(d, Walk(d)[p])[Slots]
         IN  Walk(d)[p + 1] = [w EXCEPT !.base = w.next, !.first = FALSE] /\ Walk(d)[p + 1].on
<1> DEFINE v == Walk(d)[p]
           w == SlotsOf(d, v)[Slots]
<1>1. Slots \in 0 .. Slots /\ p + 1 \in 1 .. PartitionMax /\ (p + 1) - 1 = p
  BY PartitionTableAssumption DEF PartitionTableAssumption
<1>2. v \in Walks /\ Walk(d)[p + 1] = NextTable(d, v)
  <2>1. \A q \in 1 .. PartitionMax : Walk(d)[q] = NextTable(d, Walk(d)[q - 1])
    BY WalkIs, Zenon
  <2>2. v \in Walks
    BY WalkIs
  <2> QED
    BY <1>1, <2>1, <2>2
<1>3. v.on /\ v.base \in Lbas
  BY DEF Went, Trodden
<1>4. w \in Walks /\ w.on = v.on
  BY <1>1, <1>2, <1>3, SlotsAre, SlotsRise
<1>5. Walk(d)[p + 1] = [w EXCEPT !.base = w.next, !.first = FALSE]
  BY <1>2, Zenon DEF NextTable, Went
<1> HIDE DEF w, v
<1>6. Walk(d)[p + 1].on
  BY <1>3, <1>4, <1>5 DEF Walks
<1> QED
  BY <1>5, <1>6 DEF w, v

\* IoReadPartitionTable and HalpFindPartition go on to the same table.
LEMMA NextAbreast ==
  ASSUME NEW d \in [Lbas -> Sector], NEW p \in 0 .. PartitionMax, p + 1 <= PartitionMax, Trodden(d, Walk(d)[p]),
         NEW c, NEW c2, InStep(c, SlotsOf(d, Walk(d)[p])[Slots]), c.saw, c.next # c.base,
         c2.base = c.next, c2.first = FALSE, c2.origin = c.origin, c2.number = c.number
  PROVE  Walk(d)[p + 1].on /\ Abreast(c2, Walk(d)[p + 1])
<1> DEFINE v == Walk(d)[p]
           w == SlotsOf(d, v)[Slots]
<1>1. v \in Walks /\ v.base \in Lbas /\ Slots \in 0 .. Slots
  BY WalkIs, PartitionTableAssumption DEF Trodden, PartitionTableAssumption
<1>2. w \in Walks /\ w.base = v.base
  BY <1>1, SlotsAre, SlotsRise
<1>3. Went(d, v)
  BY <1>2, Zenon DEF Went, InStep, Abreast
<1>4. Walk(d)[p + 1] = [w EXCEPT !.base = w.next, !.first = FALSE] /\ Walk(d)[p + 1].on
  BY <1>3, WalkGoesOn
<1> HIDE DEF w, v
<1>5. c.next = w.next /\ c.origin = w.origin /\ c.number = w.number
  BY DEF InStep, Abreast, w, v
<1> QED
  BY <1>2, <1>4, <1>5 DEF Abreast, Walks

LEMMA ReadPassInv ==
  ASSUME Inv, ReadPass
  PROVE  Inv'
<1> DEFINE c == [call EXCEPT !.saw = FALSE, !.next = call.base]
           table == disk[call.base].table
           s == ReadTable(c, table)[Slots]
           over == ~s.saw \/ s.next = s.base \/ Len(s.out) >= PartitionMax \/ NextPass(s) > PartitionMax
           done == [known |-> TRUE, mode |-> s.mode, entries |-> s.out]
           onward == [s EXCEPT !.base = s.next, !.first = FALSE, !.passes = NextPass(s)]
<1>1. /\ call.op = "read" /\ call.base \in Lbas /\ disk[call.base].magic
      /\ disk' = disk /\ faults' = faults /\ calls' = calls
      /\ IF over THEN call' = NoCall /\ layout' = done ELSE call' = onward /\ layout' = layout
  BY Zenon DEF ReadPass, ReturnRead, Readable
<1>2. disk \in [Lbas -> Sector] /\ faults' \in 0 .. MaxFaults /\ calls' \in 0 .. MaxCalls
  BY <1>1 DEF Inv
<1>3. call \in ReadCalls /\ Slots \in Nat /\ PartitionMax \in Nat
  BY <1>1, CallOps, PartitionTableAssumption DEF Inv, PartitionTableAssumption
<1>4. /\ c \in ReadCalls /\ c.base = call.base /\ c.first = call.first /\ c.origin = call.origin
      /\ c.number = call.number /\ c.out = call.out /\ c.mode = call.mode /\ c.passes = call.passes
      /\ c.saw = FALSE /\ c.next = call.base
  BY <1>3 DEF ReadCalls
<1>5. table \in [1 .. Slots -> Entry]
  BY <1>1, <1>2 DEF Sector
<1>6. s \in ReadCalls /\ s.base = call.base /\ s.mode = call.mode /\ s.passes = call.passes
  <2> HIDE DEF c, table
  <2> QED
    BY <1>4, <1>5, ReadTableKeeps
<1>7. ASSUME ~call.mode
      PROVE  /\ Trodden(disk, Walk(disk)[call.passes])
             /\ HasRoom(s) => InStep(s, SlotsOf(disk, Walk(disk)[call.passes])[Slots])
             /\ Lists(disk, s.out)
  <2> DEFINE v == Walk(disk)[call.passes]
  <2>1. v.on /\ Abreast(call, v) /\ (call.first => call.base = 0) /\ HasRoom(call) /\ Lists(disk, call.out)
    BY <1>1, <1>7, Zenon DEF Inv, ReadTied
  <2>2. call.passes \in 0 .. PartitionMax
    BY <1>3 DEF ReadCalls
  <2>3. v \in Walks
    BY <1>2, <2>2, WalkIs
  <2>4. Trodden(disk, v)
    BY <1>1, <2>1, Zenon DEF Trodden, Abreast
  <2> HIDE DEF v, c
  <2>5. InStep(c, Opened(v))
    BY <1>4, <2>1, <2>3 DEF InStep, Abreast, Opened, Walks
  <2>6. HasRoom(c) /\ Lists(disk, c.out) /\ ~c.mode /\ (c.first => c.base = 0)
    BY <1>4, <1>7, <2>1 DEF HasRoom
  <2> HIDE DEF s
  <2>7. s = ReadTable(c, disk[c.base].table)[Slots]
    BY <1>4 DEF s
  <2>8. v = Walk(disk)[c.passes]
    BY <1>4 DEF v
  <2>9. LET r == ReadTable(c, disk[c.base].table)[Slots]
            w == SlotsOf(disk, Walk(disk)[c.passes])[Slots]
        IN  /\ HasRoom(r) => InStep(r, w)
            /\ Lists(disk, r.out)
    BY <1>2, <1>4, <2>4, <2>5, <2>6, <2>8, ReadFollows
  <2> QED
    BY <2>4, <2>7, <2>8, <2>9 DEF v
<1> HIDE DEF s
<1>8. CASE over
  <2>1. call' = NoCall /\ layout' = done
    BY <1>1, <1>8
  <2>2. done \in [known : BOOLEAN, mode : BOOLEAN, entries : Listings]
    BY <1>6 DEF ReadCalls
  <2>3. CallTypes'
    BY <2>1, <2>2 DEF CallTypes
  <2>4. LayoutTied'
    BY <1>1, <1>6, <1>7, <2>1 DEF LayoutTied
  <2> QED
    BY <1>1, <1>2, <2>1, <2>3, <2>4, IdleIsFree DEF Inv
<1>9. CASE ~over
  <2>1. /\ call' = onward /\ layout' = layout
        /\ s.saw /\ s.next # s.base /\ Len(s.out) < PartitionMax /\ s.passes + 1 <= PartitionMax
    <3>1. Len(s.out) \in Nat /\ s.passes \in Nat
      BY <1>6 DEF ReadCalls, Listings
    <3> QED
      BY <1>1, <1>3, <1>9, <3>1 DEF NextPass
  <2>2. /\ onward \in ReadCalls /\ onward.base = s.next /\ onward.first = FALSE /\ onward.origin = s.origin
        /\ onward.number = s.number /\ onward.passes = call.passes + 1 /\ onward.out = s.out /\ onward.mode = call.mode
        /\ onward.op = "read"
    <3>1. s.passes + 1 \in 0 .. PartitionMax /\ s.next \in Nat /\ NextPass(s) = s.passes + 1
      BY <1>3, <1>6, <2>1 DEF ReadCalls, NextPass
    <3>2. onward = [s EXCEPT !.base = s.next, !.first = FALSE, !.passes = s.passes + 1]
      BY <3>1
    <3>3. onward \in ReadCalls
      BY <1>6, <3>1, <3>2 DEF ReadCalls
    <3>4. /\ onward.base = s.next /\ onward.first = FALSE /\ onward.origin = s.origin
          /\ onward.number = s.number /\ onward.passes = s.passes + 1 /\ onward.out = s.out /\ onward.mode = s.mode
          /\ onward.op = s.op /\ s.op = "read"
      BY <1>6, <3>2 DEF ReadCalls
    <3> QED
      BY <1>6, <3>3, <3>4
  <2> HIDE DEF onward
  <2>3. CallTypes'
    BY <2>1, <2>2 DEF Inv, CallTypes
  <2>4. ReadTied'
    <3>1. SUFFICES ASSUME ~call.mode
                   PROVE  /\ Walk(disk')[call'.passes].on /\ Abreast(call', Walk(disk')[call'.passes])
                          /\ call'.first => call'.base = 0
                          /\ HasRoom(call') /\ Lists(disk', call'.out)
      BY <2>1, <2>2, Zenon DEF ReadTied
    <3>2. HasRoom(s)
      BY <2>1 DEF HasRoom
    <3>3. Trodden(disk, Walk(disk)[call.passes]) /\ InStep(s, SlotsOf(disk, Walk(disk)[call.passes])[Slots]) /\ Lists(disk, s.out)
      BY <1>7, <3>1, <3>2
    <3>4. call.passes \in 0 .. PartitionMax /\ call.passes + 1 <= PartitionMax
      BY <1>3, <1>6, <2>1 DEF ReadCalls
    <3>5. Walk(disk)[call.passes + 1].on /\ Abreast(onward, Walk(disk)[call.passes + 1])
      BY <1>2, <2>1, <2>2, <3>3, <3>4, NextAbreast
    <3>6. HasRoom(onward)
      BY <2>1, <2>2 DEF HasRoom
    <3> QED
      BY <1>1, <2>1, <2>2, <3>3, <3>5, <3>6, Zenon
  <2>5. FindTied' /\ StampTied' /\ WriteTied'
    BY <2>1, <2>2 DEF FindTied, StampTied, WriteTied
  <2>6. LayoutTied'
    BY <1>1, <2>1 DEF Inv, LayoutTied
  <2> QED
    BY <1>1, <1>2, <2>3, <2>4, <2>5, <2>6 DEF Inv
<1> QED
  BY <1>8, <1>9

\* What the search has in hand after a table (disk.c:242-255).
LEMMA FindPassFollows ==
  ASSUME Inv, call.op = "find", call.base \in Lbas, disk[call.base].magic
  PROVE  LET s == FindTable([call EXCEPT !.saw = FALSE, !.next = call.base, !.table = disk[call.base].table])[Slots]
             v == Walk(disk)[call.passes]
         IN  /\ s \in FindCalls /\ Trodden(disk, v)
             /\ s.base = call.base /\ s.base = v.base /\ s.want = call.want /\ s.passes = call.passes
             /\ s.table = disk[call.base].table /\ s.op = "find"
             /\ s.slot = 0 => InStep(s, SlotsOf(disk, v)[Slots]) /\ s.number < s.want
             /\ s.slot # 0 => Numbered(disk, call.passes, s.slot, call.want)
<1> DEFINE c == [call EXCEPT !.saw = FALSE, !.next = call.base, !.table = disk[call.base].table]
           s == FindTable(c)[Slots]
           v == Walk(disk)[call.passes]
<1>1. disk \in [Lbas -> Sector] /\ call \in FindCalls
  BY CallOps DEF Inv
<1>2. disk[call.base].table \in [1 .. Slots -> Entry]
  BY <1>1 DEF Sector
<1>3. /\ c \in FindCalls /\ c.base = call.base /\ c.first = call.first /\ c.origin = call.origin
      /\ c.number = call.number /\ c.want = call.want /\ c.passes = call.passes /\ c.slot = call.slot
      /\ c.saw = FALSE /\ c.next = call.base /\ c.table = disk[call.base].table /\ c.op = "find"
  BY <1>1, <1>2 DEF FindCalls
<1>4. v.on /\ Abreast(call, v) /\ call.slot = 0 /\ call.number < call.want
  BY Zenon DEF Inv, FindTied
<1>5. call.passes \in 0 .. PartitionMax
  BY <1>1 DEF FindCalls
<1>6. v \in Walks
  BY <1>1, <1>5, WalkIs
<1>7. Trodden(disk, v) /\ call.base = v.base
  BY <1>4, Zenon DEF Trodden, Abreast
<1> HIDE DEF v, c
<1>8. InStep(c, Opened(v))
  BY <1>3, <1>4, <1>6 DEF InStep, Abreast, Opened, Walks
<1>9. v = Walk(disk)[c.passes]
  BY <1>3 DEF v
<1>10. c.slot = 0 /\ c.number < c.want /\ c.table = disk[v.base].table /\ c.passes \in 0 .. PartitionMax
  BY <1>3, <1>4, <1>5, <1>7
<1>11. /\ s \in FindCalls
       /\ s.base = c.base /\ s.want = c.want /\ s.passes = c.passes /\ s.table = c.table /\ s.op = c.op
       /\ s.slot = 0 => InStep(s, SlotsOf(disk, v)[Slots]) /\ s.number < s.want
       /\ s.slot # 0 => Numbered(disk, c.passes, s.slot, c.want)
  BY <1>1, <1>3, <1>7, <1>8, <1>9, <1>10, FindFollows
<1> HIDE DEF s
<1>12. s.base = v.base /\ s.base = call.base
  BY <1>3, <1>7, <1>11
<1> QED
  BY <1>3, <1>7, <1>11, <1>12, Zenon DEF s, c, v

LEMMA FindPassInv ==
  ASSUME Inv, FindPass
  PROVE  Inv'
<1> DEFINE c == [call EXCEPT !.saw = FALSE, !.next = call.base, !.table = disk[call.base].table]
           s == FindTable(c)[Slots]
           v == Walk(disk)[call.passes]
           over == ~s.saw \/ s.next = s.base \/ NextPass(s) > PartitionMax
           found == [s EXCEPT !.op = "stamp"]
           onward == [s EXCEPT !.base = s.next, !.first = FALSE, !.passes = s.passes + 1]
<1>1. /\ call.op = "find" /\ call.base \in Lbas /\ disk[call.base].magic
      /\ disk' = disk /\ faults' = faults /\ calls' = calls /\ layout' = layout
      /\ call' = IF s.slot # 0 THEN found ELSE IF over THEN NoCall ELSE onward
  BY Zenon DEF FindPass, Readable
<1>2. disk \in [Lbas -> Sector] /\ faults' \in 0 .. MaxFaults /\ calls' \in 0 .. MaxCalls /\ LayoutTied'
  BY <1>1 DEF Inv, LayoutTied
<1>3. /\ s \in FindCalls /\ Trodden(disk, v)
      /\ s.base = call.base /\ s.base = v.base /\ s.want = call.want /\ s.passes = call.passes
      /\ s.table = disk[call.base].table /\ s.op = "find"
      /\ s.slot = 0 => InStep(s, SlotsOf(disk, v)[Slots]) /\ s.number < s.want
      /\ s.slot # 0 => Numbered(disk, call.passes, s.slot, call.want)
  BY <1>1, FindPassFollows, Zenon
<1> HIDE DEF s
<1>4. CASE s.slot # 0
  <2>1. /\ call' = found /\ found \in FindCalls /\ found.base = s.base /\ found.passes = s.passes
        /\ found.slot = s.slot /\ found.want = s.want /\ found.table = s.table /\ found.op = "stamp"
    BY <1>1, <1>3, <1>4 DEF FindCalls
  <2> HIDE DEF found
  <2>2. CallTypes'
    BY <1>1, <2>1 DEF Inv, CallTypes
  <2>3. StampTied'
    <3>1. Numbered(disk, call.passes, s.slot, call.want)
      BY <1>3, <1>4
    <3>2. found.base = Walk(disk)[found.passes].base /\ found.table = disk[found.base].table
          /\ Numbered(disk, found.passes, found.slot, found.want)
      BY <1>3, <2>1, <3>1, Zenon
    <3> QED
      BY <1>1, <2>1, <3>2, Zenon DEF StampTied
  <2>4. ReadTied' /\ FindTied' /\ WriteTied'
    BY <2>1 DEF ReadTied, FindTied, WriteTied
  <2> QED
    BY <1>1, <1>2, <2>2, <2>3, <2>4 DEF Inv
<1>5. CASE s.slot = 0 /\ over
  <2>1. call' = NoCall
    BY <1>1, <1>5
  <2>2. CallTypes'
    BY <1>1, <2>1 DEF Inv, CallTypes
  <2> QED
    BY <1>1, <1>2, <2>1, <2>2, IdleIsFree DEF Inv
<1>6. CASE s.slot = 0 /\ ~over
  <2>1. s.passes \in 0 .. PartitionMax /\ PartitionMax \in Nat
    BY <1>3, PartitionTableAssumption DEF FindCalls, PartitionTableAssumption
  <2>2. call' = onward /\ s.saw /\ s.next # s.base /\ s.passes + 1 <= PartitionMax
    BY <1>1, <1>6, <2>1 DEF NextPass
  <2>3. /\ onward \in FindCalls /\ onward.base = s.next /\ onward.first = FALSE /\ onward.origin = s.origin
        /\ onward.number = s.number /\ onward.passes = call.passes + 1 /\ onward.op = "find"
        /\ onward.slot = s.slot /\ onward.want = s.want
    <3>1. s.passes + 1 \in 0 .. PartitionMax /\ s.next \in Nat
      BY <1>3, <2>1, <2>2 DEF FindCalls
    <3>2. onward \in FindCalls
      BY <1>3, <3>1 DEF FindCalls
    <3>3. /\ onward.base = s.next /\ onward.first = FALSE /\ onward.origin = s.origin
          /\ onward.number = s.number /\ onward.passes = s.passes + 1 /\ onward.op = s.op
          /\ onward.slot = s.slot /\ onward.want = s.want
      BY <1>3 DEF FindCalls
    <3> QED
      BY <1>3, <3>2, <3>3
  <2> HIDE DEF onward
  <2>4. CallTypes'
    BY <1>1, <2>2, <2>3 DEF Inv, CallTypes
  <2>5. FindTied'
    <3>1. InStep(s, SlotsOf(disk, Walk(disk)[call.passes])[Slots]) /\ s.number < s.want
      BY <1>3, <1>6
    <3>2. call.passes \in 0 .. PartitionMax /\ call.passes + 1 <= PartitionMax
      BY <1>3, <2>1, <2>2
    <3>3. Walk(disk)[call.passes + 1].on /\ Abreast(onward, Walk(disk)[call.passes + 1])
      BY <1>2, <1>3, <2>2, <2>3, <3>1, <3>2, NextAbreast
    <3>4. onward.slot = 0 /\ onward.number < onward.want
      BY <1>6, <2>3, <3>1
    <3> QED
      BY <1>1, <2>2, <2>3, <3>3, <3>4, Zenon DEF FindTied
  <2>6. ReadTied' /\ StampTied' /\ WriteTied'
    BY <2>2, <2>3 DEF ReadTied, StampTied, WriteTied
  <2> QED
    BY <1>1, <1>2, <2>4, <2>5, <2>6 DEF Inv
<1> QED
  BY <1>4, <1>5, <1>6

LEMMA WriteGroupInv ==
  ASSUME Inv, WriteGroup
  PROVE  Inv'
<1> DEFINE group == GroupOf(call.entries, call.group)
           link == LinkOf(group)
           origin == IF call.group = 0 THEN link ELSE call.origin
           last == call.group + 1 >= Groups(call.entries)
           table == TableFor(group, call.group, call.lba, origin)
           Laid(old) == [old EXCEPT !.magic = TRUE, !.table = table]
           onward(ok) == [call EXCEPT !.group = @ + 1, !.lba = link, !.origin = origin, !.ok = ok]
<1>1. call.op = "write" /\ layout' = layout /\ calls' = calls
  BY Zenon DEF WriteGroup
<1>2. PICK readOk \in BOOLEAN, writeOk \in BOOLEAN :
        /\ Transfers(call.lba, readOk, writeOk)
        /\ disk' = IF ~writeOk THEN disk
                   ELSE [disk EXCEPT ![call.lba] = Laid(IF readOk THEN disk[call.lba] ELSE Zeroed)]
        /\ call' = IF last \/ link = 0 THEN NoCall ELSE onward(call.ok /\ writeOk)
  BY Zenon DEF WriteGroup
<1>3. /\ call \in WriteCalls /\ layout = Nothing /\ call.group * Slots < Len(call.entries)
      /\ call.lba = TableAt(call.entries, call.group)
      /\ call.group # 0 => call.lba # 0 /\ call.origin = TableAt(call.entries, 1)
  BY <1>1, CallOps, Zenon DEF Inv, WriteTied
<1>4. /\ call.entries \in Layouts /\ call.group \in Nat /\ call.lba \in Nat /\ call.origin \in Nat /\ call.ok \in BOOLEAN
      /\ disk \in [Lbas -> Sector]
  BY <1>3 DEF Inv, WriteCalls
<1>5. call.entries \in Seq(Wanted) /\ Slots \in Nat \ {0}
  BY <1>4, PartitionTableAssumption DEF PartitionTableAssumption, IsLayout
<1>6. link \in Nat
  BY <1>3, <1>4, <1>5, GroupIs, LinkIs
<1>7. origin \in Nat /\ origin = TableAt(call.entries, 1)
  BY <1>3, <1>4, <1>6 DEF TableAt
<1>8. table \in [1 .. Slots -> Entry]
  <2> HIDE DEF origin
  <2> QED
    BY <1>3, <1>4, <1>7, TableForType
<1>9. faults' \in 0 .. MaxFaults
  <2>1. faults \in 0 .. MaxFaults /\ MaxFaults \in Nat
    BY PartitionTableAssumption DEF Inv, PartitionTableAssumption
  <2> QED
    BY <1>2, <2>1 DEF Transfers
<1>10. disk' \in [Lbas -> Sector]
  <2>1. Zeroed \in Sector
    <3>1. Blank \in Entry
      BY DEF Blank, Entry, Types
    <3> QED
      BY <3>1 DEF Zeroed, Sector
  <2> HIDE DEF table
  <2>2. \A old \in Sector : Laid(old) \in Sector
    BY <1>8 DEF Sector
  <2> HIDE DEF Laid
  <2>3. CASE ~writeOk
    BY <1>2, <1>4, <2>3
  <2>4. CASE writeOk /\ call.lba \in Lbas
    <3> DEFINE new == Laid(IF readOk THEN disk[call.lba] ELSE Zeroed)
    <3>1. new \in Sector
      BY <1>4, <2>1, <2>2, <2>4
    <3>2. disk' = [disk EXCEPT ![call.lba] = new]
      BY <1>2, <2>4
    <3> HIDE DEF new
    <3> QED
      BY <1>4, <3>1, <3>2
  <2>5. CASE writeOk /\ call.lba \notin Lbas
    BY <1>2, <2>5 DEF Transfers, Readable
  <2> QED
    BY <2>3, <2>4, <2>5
<1>11. layout' = Nothing /\ LayoutTied'
  BY <1>1, <1>3, NothingIsFree DEF LayoutTied
<1> HIDE DEF link, origin, table, Laid
<1>12. CASE last \/ link = 0
  <2>1. call' = NoCall
    BY <1>2, <1>12
  <2>2. CallTypes'
    BY <1>11, <2>1, NothingIsFree DEF CallTypes
  <2> QED
    BY <1>1, <1>9, <1>10, <1>11, <2>1, <2>2, IdleIsFree DEF Inv
<1>13. CASE ~(last \/ link = 0)
  <2> DEFINE ok == call.ok /\ writeOk
  <2>1. call' = onward(ok) /\ ok \in BOOLEAN
    BY <1>2, <1>13
  <2> HIDE DEF ok
  <2>2. /\ call' \in WriteCalls /\ call'.op = "write" /\ call'.entries = call.entries /\ call'.group = call.group + 1
        /\ call'.lba = link /\ call'.origin = origin
    <3> DEFINE next == call.group + 1
    <3>1. call' = [call EXCEPT !.group = next, !.lba = link, !.origin = origin, !.ok = ok] /\ next \in Nat
      BY <1>4, <2>1
    <3> HIDE DEF next
    <3>2. call' \in WriteCalls
      BY <1>3, <1>6, <1>7, <2>1, <3>1 DEF WriteCalls
    <3>3. call'.op = call.op /\ call'.entries = call.entries /\ call'.group = next /\ call'.lba = link /\ call'.origin = origin
      BY <1>3, <3>1 DEF WriteCalls
    <3> QED
      BY <1>1, <3>2, <3>3 DEF next
  <2>3. (call.group + 1) * Slots < Len(call.entries)
    <3>1. Groups(call.entries) \in Nat /\ call.group + 1 \in Nat /\ call.group + 1 < Groups(call.entries)
      BY <1>4, <1>5, <1>13, GroupsCover
    <3> QED
      BY <1>5, <3>1, GroupsCover
  <2>4. CallTypes'
    BY <1>11, <2>2, NothingIsFree DEF CallTypes
  <2>5. WriteTied'
    <3>1. call'.group # 0 /\ call'.group - 1 = call.group
      BY <1>4, <2>2
    <3>2. call'.lba = TableAt(call'.entries, call'.group) /\ call'.lba # 0 /\ call'.origin = TableAt(call'.entries, 1)
      BY <1>7, <1>13, <2>2, <3>1 DEF link, TableAt
    <3>3. call'.group * Slots < Len(call'.entries)
      BY <2>2, <2>3
    <3> QED
      BY <1>11, <3>1, <3>2, <3>3, Zenon DEF WriteTied
  <2>6. ReadTied' /\ FindTied' /\ StampTied'
    BY <2>2 DEF ReadTied, FindTied, StampTied
  <2> QED
    BY <1>1, <1>9, <1>10, <1>11, <2>4, <2>5, <2>6 DEF Inv
<1> QED
  BY <1>12, <1>13

LEMMA StutterInv ==
  ASSUME Inv, UNCHANGED vars
  PROVE  Inv'
<1>1. disk' = disk /\ call' = call /\ layout' = layout /\ faults' = faults /\ calls' = calls
  BY DEF vars
<1> QED
  BY <1>1 DEF Inv, CallTypes, ReadTied, FindTied, StampTied, WriteTied, LayoutTied

LEMMA NextInv ==
  ASSUME Inv, [Next]_vars
  PROVE  Inv'
<1>1. ASSUME NEW mode \in ReadModes, BeginRead(mode) PROVE Inv'
  BY <1>1, BeginReadInv
<1>2. ASSUME NEW n \in 1 .. PartitionMax, BeginSet(n, "other") PROVE Inv'
  BY <1>2, BeginSetInv
<1>3. ASSUME NEW entries \in Layouts, BeginWrite(entries) PROVE Inv'
  BY <1>3, BeginWriteInv
<1>4. CASE ReadStops
  BY <1>4, ReadStopsInv
<1>5. CASE ReadPass
  BY <1>5, ReadPassInv
<1>6. CASE FindStops
  BY <1>6, FindStopsInv
<1>7. CASE FindPass
  BY <1>7, FindPassInv
<1>8. CASE SetPartitionType
  BY <1>8, SetPartitionTypeInv
<1>9. CASE WriteGroup
  BY <1>9, WriteGroupInv
<1>10. CASE UNCHANGED vars
  BY <1>10, StutterInv
<1> QED
  BY <1>1, <1>2, <1>3, <1>4, <1>5, <1>6, <1>7, <1>8, <1>9, <1>10, Zenon DEF Next

\* The invariant the two results below follow from: a call in progress and
\* what the caller holds are tied to the walk of the disk as it is now.
THEOREM PartitionInvariant == Spec => []Inv
<1>1. Init => Inv
  BY InitInv
<1>2. Inv /\ [Next]_vars => Inv'
  BY NextInv
<1> QED
  BY <1>1, <1>2, PTL DEF Spec

\* What is on the disk are tables, and what a read returns is a layout of no
\* more than PARTITION_MAX entries, every number in it from 0 up: no
\* subtraction of a table's or of the chain's origin goes below 0.
THEOREM PartitionTypeCorrect == Spec => []TypeOK
<1>1. Inv => TypeOK
  BY DEF Inv, CallTypes, Listings, TypeOK
<1> QED
  BY <1>1, PartitionInvariant, PTL

-----------------------------------------------------------------------------
(* The two walks agree. *)

\* The entry found has the number wanted, and no other entry has.
LEMMA StampIsListed ==
  ASSUME Inv, call.op = "stamp", layout.known, ~layout.mode,
         NEW k \in 1 .. Len(layout.entries), layout.entries[k].number = call.want
  PROVE  layout.entries[k].start = call.base + call.table[call.slot].rel
<1> DEFINE entry == layout.entries[k]
<1>1. disk \in [Lbas -> Sector] /\ call \in FindCalls
  BY CallOps DEF Inv
<1>2. Lists(disk, layout.entries)
  BY DEF Inv, LayoutTied
<1>3. /\ call.base = Walk(disk)[call.passes].base /\ call.table = disk[call.base].table
      /\ Numbered(disk, call.passes, call.slot, call.want)
  BY DEF Inv, StampTied
<1>4. call.want # 0
  BY <1>1, PartitionTableAssumption DEF FindCalls, PartitionTableAssumption
<1>5. PICK p \in 0 .. PartitionMax, i \in 1 .. Slots : Here(disk, p, i, entry)
  BY <1>2, <1>4 DEF Lists
<1>6. Numbered(disk, p, i, call.want) /\ entry.start = Walk(disk)[p].base + disk[Walk(disk)[p].base].table[i].rel
  BY <1>5 DEF Here
<1>7. p = call.passes /\ i = call.slot
  BY <1>1, <1>3, <1>6, NumbersAreUnique
<1> QED
  BY <1>3, <1>6, <1>7

\* The tables the search has passed do not have the number it wants.
LEMMA NotBehind ==
  ASSUME Inv, call.op = "find", NEW q, NEW j, Numbered(disk, q, j, call.want)
  PROVE  q \in 0 .. PartitionMax /\ call.passes \in 0 .. PartitionMax /\ call.passes <= q
<1>1. disk \in [Lbas -> Sector] /\ call \in FindCalls
  BY CallOps DEF Inv
<1>2. /\ Walk(disk)[call.passes].on /\ Abreast(call, Walk(disk)[call.passes]) /\ call.number < call.want
  BY DEF Inv, FindTied
<1>3. /\ q \in 0 .. PartitionMax /\ j \in 0 .. Slots /\ call.passes \in 0 .. PartitionMax
      /\ SlotsOf(disk, Walk(disk)[q])[j].number = call.want
  BY <1>1, PartitionTableAssumption DEF FindCalls, Numbered, PartitionTableAssumption
<1>4. ASSUME q < call.passes PROVE FALSE
  <2>1. q \in 0 .. call.passes - 1
    BY <1>3, <1>4
  <2>2. call.want <= Walk(disk)[call.passes].number
    BY <1>1, <1>2, <1>3, <2>1, WalkRises
  <2>3. call.want \in Int /\ call.number \in Int /\ call.number = Walk(disk)[call.passes].number
    BY <1>1, <1>2 DEF FindCalls, Abreast
  <2> QED
    BY <1>2, <2>2, <2>3
<1> QED
  BY <1>3, <1>4

\* A search that ends where there is no table passed no entry it wanted.
LEMMA StopsUnlisted ==
  ASSUME Inv, FindStops, faults' = faults, NEW q, NEW j, Numbered(disk, q, j, call.want)
  PROVE  FALSE
<1> DEFINE v == Walk(disk)[call.passes]
<1>1. call.op = "find" /\ (Readable(call.base) => ~disk[call.base].magic)
  <2>1. ~Fail
    BY PartitionTableAssumption DEF Fail, Inv, PartitionTableAssumption
  <2> QED
    BY <2>1, Zenon DEF FindStops
<1>2. q \in 0 .. PartitionMax /\ call.passes \in 0 .. PartitionMax /\ call.passes <= q
  BY <1>1, NotBehind
<1>3. ~Trodden(disk, v)
  <2>1. call.base = v.base
    BY <1>1, Zenon DEF Inv, FindTied, Abreast
  <2> QED
    BY <1>1, <2>1, Zenon DEF Trodden, Readable
<1>4. Trodden(disk, Walk(disk)[q])
  BY Zenon DEF Numbered
<1>5. CASE q = call.passes
  BY <1>3, <1>4, <1>5
<1>6. CASE q # call.passes
  <2>1. call.passes \in 0 .. q - 1 /\ Walk(disk)[q].on /\ disk \in [Lbas -> Sector]
    BY <1>2, <1>4, <1>6 DEF Trodden, Inv
  <2>2. Went(disk, v)
    BY <1>2, <2>1, WalkRises
  <2> QED
    BY <1>3, <2>2 DEF Went
<1> QED
  BY <1>5, <1>6

\* So did one that ends behind the last table.
LEMMA PassUnlisted ==
  ASSUME Inv, FindPass, call' = NoCall, NEW q, NEW j, Numbered(disk, q, j, call.want)
  PROVE  FALSE
<1> DEFINE c == [call EXCEPT !.saw = FALSE, !.next = call.base, !.table = disk[call.base].table]
           s == FindTable(c)[Slots]
           v == Walk(disk)[call.passes]
           w == SlotsOf(disk, v)
           over == ~s.saw \/ s.next = s.base \/ NextPass(s) > PartitionMax
           found == [s EXCEPT !.op = "stamp"]
           onward == [s EXCEPT !.base = s.next, !.first = FALSE, !.passes = s.passes + 1]
<1>1. /\ call.op = "find" /\ call.base \in Lbas /\ disk[call.base].magic
      /\ call' = IF s.slot # 0 THEN found ELSE IF over THEN NoCall ELSE onward
  BY Zenon DEF FindPass, Readable
<1>2. /\ s \in FindCalls /\ Trodden(disk, v)
      /\ s.base = call.base /\ s.base = v.base /\ s.want = call.want /\ s.passes = call.passes
      /\ s.op = "find"
      /\ s.slot = 0 => InStep(s, w[Slots]) /\ s.number < s.want
  BY <1>1, FindPassFollows, Zenon
<1> HIDE DEF s
<1>3. s.slot = 0 /\ over
  <2>1. found.op = "stamp"
    BY <1>2 DEF FindCalls
  <2>2. onward.op = "find"
    BY <1>2 DEF FindCalls
  <2>3. call'.op = "none"
    BY DEF NoCall
  <2> HIDE DEF found, onward, over
  <2> QED
    BY <1>1, <2>1, <2>2, <2>3
<1>4. disk \in [Lbas -> Sector] /\ v \in Walks /\ v.base \in Lbas
  <2>1. call.passes \in 0 .. PartitionMax
    BY <1>2 DEF FindCalls
  <2> QED
    BY <1>2, <2>1, WalkIs DEF Inv, Trodden
<1>5. q \in 0 .. PartitionMax /\ call.passes \in 0 .. PartitionMax /\ call.passes <= q
  BY <1>1, NotBehind
<1>6. Trodden(disk, Walk(disk)[q]) /\ j \in 1 .. Slots /\ SlotsOf(disk, Walk(disk)[q])[j].number = call.want
  BY Zenon DEF Numbered
<1>7. CASE q = call.passes
  <2>1. Slots \in 0 .. Slots /\ j \in 0 .. Slots
    BY <1>6, PartitionTableAssumption DEF PartitionTableAssumption
  <2>2. w[j].number <= w[Slots].number
    BY <1>4, <1>6, <2>1, SlotsRise
  <2>3. w[j].number = call.want /\ w[Slots].number = s.number /\ s.number < s.want
    BY <1>2, <1>3, <1>6, <1>7 DEF InStep, Abreast
  <2>4. s.number \in Int /\ s.want \in Int
    BY <1>2 DEF FindCalls
  <2> HIDE DEF w
  <2> QED
    BY <1>2, <2>2, <2>3, <2>4
<1>8. CASE q # call.passes
  <2>1. call.passes \in 0 .. q - 1 /\ Walk(disk)[q].on
    BY <1>5, <1>6, <1>8 DEF Trodden
  <2>2. w[Slots].saw /\ w[Slots].next # v.base
    <3>1. Went(disk, v)
      BY <1>4, <1>5, <2>1, WalkRises
    <3> QED
      BY <3>1 DEF Went
  <2>3. s.saw /\ s.next # s.base
    BY <1>2, <1>3, <2>2, Zenon DEF InStep, Abreast
  <2>4. PartitionMax \in Nat /\ call.passes \in Nat /\ call.passes + 1 <= PartitionMax
    BY <1>5, <2>1, PartitionTableAssumption DEF PartitionTableAssumption
  <2>5. NextPass(s) = call.passes + 1
    BY <1>2 DEF NextPass
  <2> QED
    BY <1>3, <2>3, <2>4, <2>5
<1> QED
  BY <1>7, <1>8

LEMMA FindIsListed ==
  ASSUME Inv, [Next]_vars, call.op = "find", call' = NoCall, faults' = faults, layout.known, ~layout.mode,
         NEW k \in 1 .. Len(layout.entries), layout.entries[k].number = call.want
  PROVE  FALSE
<1>1. call \in FindCalls /\ Lists(disk, layout.entries)
  BY CallOps DEF Inv, LayoutTied
<1>2. call.want # 0
  BY <1>1, PartitionTableAssumption DEF FindCalls, PartitionTableAssumption
<1>3. PICK p \in 0 .. PartitionMax, i \in 1 .. Slots : Numbered(disk, p, i, call.want)
  BY <1>1, <1>2 DEF Lists, Here
<1>4. call # NoCall
  BY DEF NoCall
<1>5. FindStops \/ FindPass
  <2>1. ~UNCHANGED vars
    BY <1>4 DEF vars
  <2>2. \A a \in ReadModes : ~BeginRead(a)
    BY <1>4 DEF BeginRead, Begin
  <2>3. \A n \in 1 .. PartitionMax : ~BeginSet(n, "other")
    BY <1>4 DEF BeginSet, Begin
  <2>4. \A e \in Layouts : ~BeginWrite(e)
    BY <1>4 DEF BeginWrite, Begin
  <2>5. ~ReadStops /\ ~ReadPass /\ ~SetPartitionType /\ ~WriteGroup
    BY DEF ReadStops, ReadPass, SetPartitionType, WriteGroup
  <2> QED
    BY <2>1, <2>2, <2>3, <2>4, <2>5, Zenon DEF Next
<1> QED
  BY <1>3, <1>5, StopsUnlisted, PassUnlisted

\* IoSetPartitionInformation stamps the partition the caller's last listing
\* gave that number, and finds every number listed unless a transfer fails,
\* although the two functions walk the chain with loops of their own and only
\* one of them stops when the layout is full (disk.c:175-206, 242-255).
THEOREM WalksAgreeAlways == Spec => WalksAgree
<1>1. Inv /\ [Next]_vars =>
        [disk' # disk /\ call.op = "stamp" /\ layout.known /\ ~layout.mode =>
           \A k \in 1 .. Len(layout.entries) :
             layout.entries[k].number = call.want
               => layout.entries[k].start = call.base + call.table[call.slot].rel]_vars
  BY StampIsListed
<1>2. Inv /\ [Next]_vars =>
        [call.op = "find" /\ call' = NoCall /\ faults' = faults /\ layout.known /\ ~layout.mode =>
           \A k \in 1 .. Len(layout.entries) : layout.entries[k].number # call.want]_vars
  BY FindIsListed
<1> QED
  BY <1>1, <1>2, PartitionInvariant, PTL DEF Spec, WalksAgree, StampsWhatWasListed, FindsWhatWasListed

-----------------------------------------------------------------------------
(* What is written is read back. *)

\* The sector of group g holds its table.
Laid(d, entries, g) ==
  LET lba == TableAt(entries, g)
  IN  /\ lba \in Lbas /\ (g # 0 => lba # 0)
      /\ d[lba].magic /\ d[lba].table = TableFor(GroupOf(entries, g), g, lba, TableAt(entries, 1))

\* x is what a read lists for place k of the layout.
Matches(x, entries, k) ==
  IF k \in DOMAIN entries /\ Kept(entries[k])
    THEN x.start = entries[k].start /\ x.len = entries[k].len /\ x.type = entries[k].type
    ELSE ~Kept(x)

LaidTied ==
  call.op = "write" /\ call.ok => \A g \in 0 .. call.group - 1 : Laid(disk, call.entries, g)

WrittenTied ==
  written.known =>
    /\ written.entries \in Layouts
    /\ \A g \in 0 .. Groups(written.entries) - 1 : Laid(disk, written.entries, g)

\* A read that is under way is at the table of the group it has come to.
Reading(c, entries, g) ==
  /\ c.base = TableAt(entries, g) /\ (c.first <=> g = 0)
  /\ g # 0 => c.origin = TableAt(entries, 1)

ReadBackTied ==
  call.op = "read" /\ ~call.mode /\ written.known =>
    /\ call.passes < Groups(written.entries) /\ Reading(call, written.entries, call.passes)
    /\ HasRoom(call) /\ Len(call.out) = call.passes * Slots
    /\ \A k \in 1 .. Len(call.out) : Matches(call.out[k], written.entries, k)

RoundTied ==
  layout.known /\ ~layout.mode /\ written.known =>
    /\ \A k \in 1 .. Len(layout.entries) : Matches(layout.entries[k], written.entries, k)
    /\ \A k \in DOMAIN written.entries : Kept(written.entries[k]) => k <= Len(layout.entries)

RoundInv == LaidTied /\ WrittenTied /\ ReadBackTied /\ RoundTied

\* The links of a group up to a slot.
Links(group, i) == {j \in 1 .. i : j <= Len(group) /\ IsLink(group[j])}
IsLast(group, i, j) == j \in Links(group, i) /\ \A m \in Links(group, i) : m <= j

\* One slot read back: the entry it was laid down for, with its link.
LEMMA ReadBackStep ==
  ASSUME NEW entries \in Layouts, NEW g \in Nat, g * Slots < Len(entries), NEW i \in 1 .. Slots,
         NEW r \in ReadCalls, ~r.mode, HasRoom(r), Reading(r, entries, g)
  PROVE  LET group == GroupOf(entries, g)
             q == ReadSlot(r, TableFor(group, g, r.base, TableAt(entries, 1))[i])
         IN  /\ \E x \in Reported : q.out = Append(r.out, x) /\ Matches(x, entries, g * Slots + i)
             /\ Reading(q, entries, g)
             /\ i \in Links(group, i) => q.saw /\ q.next = group[i].start /\ (g = 0 => q.origin = group[i].start)
             /\ i \notin Links(group, i) => q.saw = r.saw /\ q.next = r.next /\ q.origin = r.origin
<1> DEFINE group == GroupOf(entries, g)
           e == TableFor(group, g, r.base, TableAt(entries, 1))[i]
           q == ReadSlot(r, e)
           k == g * Slots + i
           isExt == e.type = "extended"
           absolute == IF isExt /\ ~r.first THEN r.origin + e.rel ELSE r.base + e.rel
           num == IF e.type \in Recognized THEN r.number + 1 ELSE r.number
           x == [start |-> absolute, len |-> e.len, type |-> e.type,
                 number |-> IF e.type \in Recognized THEN num ELSE 0]
<1>1. Slots \in Nat /\ entries \in Seq(Wanted)
  BY PartitionTableAssumption DEF PartitionTableAssumption, IsLayout
<1>2. /\ group \in Seq(Wanted)
      /\ \A j \in 1 .. Len(group) : j \in 1 .. Slots /\ g * Slots + j \in 1 .. Len(entries) /\ group[j] = entries[g * Slots + j]
      /\ \A j \in 1 .. Slots : g * Slots + j <= Len(entries) => j <= Len(group)
  BY <1>1, GroupIs
<1>3. r.base = TableAt(entries, g) /\ (r.first <=> g = 0) /\ (g # 0 => r.origin = TableAt(entries, 1))
  BY Zenon DEF Reading
<1>4. r.base \in Nat /\ r.origin \in Nat /\ r.number \in Nat /\ r.mode = FALSE /\ r.first \in BOOLEAN
  BY DEF ReadCalls
<1>5. TableAt(entries, 1) \in Nat
  <2>1. 0 * Slots < Len(entries)
    BY <1>1
  <2> QED
    BY <1>1, <2>1, GroupIs, LinkIs DEF TableAt
<1>6. /\ e \in Entry
      /\ i <= Len(group) /\ Kept(group[i]) => StoredRel(group[i], g, r.base, TableAt(entries, 1)) \in Nat
  <2>1. TableFor(group, g, r.base, TableAt(entries, 1)) \in [1 .. Slots -> Entry]
    BY <1>3, <1>4, <1>5, TableForType
  <2>2. \A j \in 1 .. Len(group) : Kept(group[j]) => StoredRel(group[j], g, r.base, TableAt(entries, 1)) \in Nat
    BY <1>3, <1>4, <1>5, TableForType
  <2>3. i <= Len(group) => i \in 1 .. Len(group)
    BY <1>2
  <2> QED
    BY <2>1, <2>2, <2>3
<1>7. e = IF i <= Len(group) /\ Kept(group[i])
            THEN [type |-> group[i].type, rel |-> StoredRel(group[i], g, r.base, TableAt(entries, 1)), len |-> group[i].len]
            ELSE Blank
  BY DEF TableFor
<1> HIDE DEF e, group
<1>8. q = [r EXCEPT !.origin = IF isExt /\ r.first THEN e.rel ELSE @,
                    !.next   = IF isExt THEN absolute ELSE @,
                    !.saw    = @ \/ isExt,
                    !.number = num,
                    !.out    = Append(@, x)]
  BY <1>4, Zenon DEF ReadSlot
<1>9. e.rel \in Nat /\ e.len \in Nat /\ e.type \in Types
  BY <1>6 DEF Entry
<1>10. /\ q.base = r.base /\ q.first = r.first
       /\ q.origin = (IF isExt /\ r.first THEN e.rel ELSE r.origin)
       /\ q.next = (IF isExt THEN absolute ELSE r.next)
       /\ q.out = Append(r.out, x)
  <2> HIDE DEF isExt, absolute, num, x, q
  <2> QED
    BY <1>8 DEF ReadCalls
<1>11. q.saw = (r.saw \/ isExt)
  <2> HIDE DEF isExt, absolute, num, x
  <2> QED
    BY <1>8, Zenon DEF ReadCalls
<1>12. x \in Reported /\ x.start = absolute /\ x.len = e.len /\ x.type = e.type
  <2>1. absolute \in Nat /\ num \in Nat
    <3> HIDE DEF isExt
    <3>1. r.origin + e.rel \in Nat /\ r.base + e.rel \in Nat /\ r.number + 1 \in Nat
      BY <1>4, <1>9
    <3> QED
      BY <1>4, <3>1
  <2> HIDE DEF absolute, num
  <2> QED
    BY <1>9, <2>1 DEF Reported
<1>13. i \in Links(group, i) <=> i <= Len(group) /\ IsLink(group[i])
  BY <1>1 DEF Links
<1>14. Reading(q, entries, g)
  BY <1>3, <1>10, Zenon DEF Reading
<1> DEFINE Goal ==
             /\ \E z \in Reported : q.out = Append(r.out, z) /\ Matches(z, entries, k)
             /\ Reading(q, entries, g)
             /\ i \in Links(group, i) => q.saw /\ q.next = group[i].start /\ (g = 0 => q.origin = group[i].start)
             /\ i \notin Links(group, i) => q.saw = r.saw /\ q.next = r.next /\ q.origin = r.origin
<1> HIDE DEF q, x
<1>15. ASSUME i <= Len(group) /\ Kept(group[i]) PROVE Goal
  <2> DEFINE o == group[i]
  <2>1. i \in 1 .. Len(group) /\ o \in Wanted /\ k \in DOMAIN entries /\ entries[k] = o
    BY <1>1, <1>2, <1>15
  <2>2. o.start \in Nat /\ e.type = o.type /\ e.len = o.len /\ e.rel = StoredRel(o, g, r.base, TableAt(entries, 1)) /\ e.rel \in Nat
    BY <1>7, <1>9, <1>15, <2>1 DEF Wanted
  <2>3. i \in Links(group, i) <=> isExt
    BY <1>13, <1>15, <2>2 DEF IsLink
  <2>4. IsLink(o) <=> isExt
    BY <1>15, <2>2 DEF IsLink
  <2>5. Kept(entries[k])
    BY <1>15, <2>1
  <2> HIDE DEF o
  <2>6. absolute = o.start /\ (isExt /\ g = 0 => e.rel = o.start)
    <3>1. CASE ~isExt
      BY <1>4, <2>2, <3>1 DEF StoredRel
    <3>2. CASE isExt /\ g = 0
      <4>1. r.base = 0 /\ r.first
        BY <1>3, <3>2 DEF TableAt
      <4>2. e.rel = o.start
        BY <2>2, <3>2 DEF StoredRel
      <4> QED
        BY <2>2, <3>2, <4>1, <4>2
    <3>3. CASE isExt /\ g # 0
      <4>1. ~r.first /\ r.origin = TableAt(entries, 1)
        BY <1>3, <3>3
      <4>2. e.rel = o.start - TableAt(entries, 1)
        BY <2>2, <3>3 DEF StoredRel
      <4>3. absolute = r.origin + e.rel
        BY <3>3, <4>1
      <4> HIDE DEF absolute
      <4> QED
        BY <1>5, <2>2, <3>3, <4>1, <4>2, <4>3
    <3> QED
      BY <3>1, <3>2, <3>3
  <2> HIDE DEF absolute
  <2>7. Matches(x, entries, k)
    BY <1>12, <2>1, <2>2, <2>5, <2>6, Zenon DEF Matches
  <2>8. CASE isExt
    <3>1. q.saw /\ q.next = o.start /\ (g = 0 => q.origin = o.start)
      BY <1>3, <1>10, <1>11, <2>6, <2>8
    <3> QED
      BY <1>10, <1>12, <1>14, <2>3, <2>7, <2>8, <3>1, Zenon DEF o
  <2>9. CASE ~isExt
    <3>1. q.next = r.next /\ q.origin = r.origin
      BY <1>10, <2>9
    <3>2. q.saw = r.saw
      BY <1>11, <2>9 DEF ReadCalls
    <3> QED
      BY <1>10, <1>12, <1>14, <2>3, <2>7, <2>9, <3>1, <3>2, Zenon DEF o
  <2> QED
    BY <2>8, <2>9
<1>16. ASSUME ~(i <= Len(group) /\ Kept(group[i])) PROVE Goal
  <2>1. e.type = "unused" /\ ~isExt
    BY <1>7, <1>16 DEF Blank
  <2>2. i \notin Links(group, i)
    BY <1>13, <1>16 DEF IsLink
  <2>3. ~(k \in DOMAIN entries /\ Kept(entries[k]))
    <3>1. SUFFICES ASSUME k \in DOMAIN entries PROVE ~Kept(entries[k])
      OBVIOUS
    <3>2. g * Slots + i <= Len(entries)
      BY <1>1, <3>1
    <3>3. i <= Len(group) /\ i \in 1 .. Len(group)
      BY <1>2, <3>2
    <3>4. group[i] = entries[k]
      BY <1>2, <3>3
    <3> QED
      BY <1>16, <3>3, <3>4
  <2>4. ~Kept(x)
    BY <1>12, <2>1 DEF Kept
  <2>5. Matches(x, entries, k)
    BY <2>3, <2>4, Zenon DEF Matches
  <2>6. q.next = r.next /\ q.origin = r.origin
    BY <1>10, <2>1
  <2>7. q.saw = r.saw
    BY <1>11, <2>1 DEF ReadCalls
  <2> QED
    BY <1>10, <1>12, <1>14, <2>2, <2>5, <2>6, <2>7, Zenon
<1>17. Goal
  BY <1>15, <1>16, Zenon
<1> QED
  BY <1>17, Zenon DEF q, e, group

\* A read over the table of a group has listed i slots of it, with its links.
ReadSlots(q, entries, g, i) ==
  LET group == GroupOf(entries, g)
  IN  /\ Len(q.out) = g * Slots + i
      /\ Links(group, i) = {} => ~q.saw
      /\ \A j : IsLast(group, i, j) => q.saw /\ q.next = group[j].start /\ (g = 0 => q.origin = group[j].start)

ReadUpTo(q, entries, g, i) ==
  /\ q \in ReadCalls /\ ~q.mode /\ Reading(q, entries, g)
  /\ \A k \in 1 .. Len(q.out) : Matches(q.out[k], entries, k)
  /\ HasRoom(q) => ReadSlots(q, entries, g, i)

LEMMA ReadBackSlot ==
  ASSUME NEW entries \in Layouts, NEW g \in Nat, g * Slots < Len(entries), NEW i \in 1 .. Slots,
         NEW r, ReadUpTo(r, entries, g, i - 1)
  PROVE  ReadUpTo(ReadSlot(r, TableFor(GroupOf(entries, g), g, r.base, TableAt(entries, 1))[i]), entries, g, i)
<1> DEFINE group == GroupOf(entries, g)
           e == TableFor(group, g, r.base, TableAt(entries, 1))[i]
           q == ReadSlot(r, e)
<1>1. Slots \in Nat /\ i \in Nat /\ g * Slots \in Nat /\ r \in ReadCalls /\ ~r.mode /\ Reading(r, entries, g)
  BY PartitionTableAssumption DEF PartitionTableAssumption, ReadUpTo
<1>2. CASE ~HasRoom(r)
  <2>1. q = r
    BY <1>2 DEF ReadSlot
  <2> HIDE DEF q
  <2>2. ReadUpTo(q, entries, g, i)
    BY <1>2, <2>1, Zenon DEF ReadUpTo
  <2> QED
    BY <2>2 DEF q
<1>3. CASE HasRoom(r)
  <2>1. e \in Entry
    <3>1. r.base = TableAt(entries, g) /\ r.base \in Nat
      BY <1>1 DEF Reading, ReadCalls
    <3>2. TableAt(entries, 1) \in Nat
      <4>1. (1 - 1) * Slots < Len(entries)
        BY <1>1
      <4> QED
        BY <4>1, TableAtIsANumber
    <3>3. TableFor(group, g, r.base, TableAt(entries, 1)) \in [1 .. Slots -> Entry]
      BY <3>1, <3>2, TableForType
    <3> QED
      BY <3>3
  <2>2. /\ \E x \in Reported : q.out = Append(r.out, x) /\ Matches(x, entries, g * Slots + i)
        /\ Reading(q, entries, g)
        /\ i \in Links(group, i) => q.saw /\ q.next = group[i].start /\ (g = 0 => q.origin = group[i].start)
        /\ i \notin Links(group, i) => q.saw = r.saw /\ q.next = r.next /\ q.origin = r.origin
    BY <1>1, <1>3, ReadBackStep
  <2>3. q \in ReadCalls /\ q.mode = r.mode
    BY <1>1, <2>1, ReadSlotType, ReadKeeps
  <2>4. ReadSlots(r, entries, g, i - 1)
    BY <1>3 DEF ReadUpTo
  <2> HIDE DEF q, e
  <2>5. PICK x \in Reported : q.out = Append(r.out, x) /\ Matches(x, entries, g * Slots + i)
    BY <2>2
  <2>6. /\ r.out \in Seq(Reported) /\ Len(r.out) = g * Slots + (i - 1)
        /\ \A k \in 1 .. Len(r.out) : Matches(r.out[k], entries, k)
    BY <1>1, <2>4 DEF ReadSlots, ReadUpTo, ReadCalls, Listings
  <2>7. /\ Len(q.out) = g * Slots + i
        /\ \A k \in 1 .. Len(q.out) : Matches(q.out[k], entries, k)
    <3>1. /\ Len(q.out) = Len(r.out) + 1 /\ q.out[Len(r.out) + 1] = x
          /\ \A k \in 1 .. Len(r.out) : q.out[k] = r.out[k]
      BY <2>5, <2>6
    <3>2. Len(r.out) + 1 = g * Slots + i
      BY <1>1, <2>6
    <3>3. ASSUME NEW k \in 1 .. Len(q.out) PROVE Matches(q.out[k], entries, k)
      <4>1. CASE k \in 1 .. Len(r.out)
        BY <2>6, <3>1, <4>1
      <4>2. CASE k \notin 1 .. Len(r.out)
        <5>1. k = Len(r.out) + 1
          BY <2>6, <3>1, <4>2
        <5> QED
          BY <2>5, <3>1, <3>2, <5>1
      <4> QED
        BY <4>1, <4>2
    <3> QED
      BY <3>1, <3>2, <3>3
  <2> HIDE DEF group
  <2>8. ASSUME Links(group, i) = {} PROVE ~q.saw
    <3>1. i \notin Links(group, i) /\ Links(group, i - 1) = {}
      <4>1. \A j \in Links(group, i - 1) : j \in Links(group, i)
        BY <1>1 DEF Links
      <4> QED
        BY <2>8, <4>1
    <3> QED
      BY <2>2, <2>4, <3>1 DEF ReadSlots, group
  <2>9. ASSUME NEW j, IsLast(group, i, j)
        PROVE  q.saw /\ q.next = group[j].start /\ (g = 0 => q.origin = group[j].start)
    <3>1. CASE i \in Links(group, i)
      <4>1. j = i
        BY <1>1, <2>9, <3>1 DEF IsLast, Links
      <4> QED
        BY <2>2, <3>1, <4>1
    <3>2. CASE i \notin Links(group, i)
      <4>1. IsLast(group, i - 1, j)
        <5>1. Links(group, i) = Links(group, i - 1)
          BY <1>1, <3>2 DEF Links
        <5> QED
          BY <2>9, <5>1 DEF IsLast
      <4> QED
        BY <2>2, <2>4, <3>2, <4>1 DEF ReadSlots, group
    <3> QED
      BY <3>1, <3>2
  <2>10. ReadSlots(q, entries, g, i)
    BY <2>7, <2>8, <2>9 DEF ReadSlots, group
  <2>11. ReadUpTo(q, entries, g, i)
    BY <1>1, <2>2, <2>3, <2>7, <2>10, Zenon DEF ReadUpTo
  <2> QED
    BY <2>11 DEF q, e, group
<1> QED
  BY <1>2, <1>3

\* The table of a group read back: its entries, and where its last link leads.
LEMMA ReadsBack ==
  ASSUME NEW entries \in Layouts, NEW g \in Nat, g * Slots < Len(entries),
         NEW s \in ReadCalls, ReadUpTo(s, entries, g, 0)
  PROVE  LET q == ReadTable(s, TableFor(GroupOf(entries, g), g, s.base, TableAt(entries, 1)))[Slots]
         IN  ReadUpTo(q, entries, g, Slots)
<1> DEFINE table == TableFor(GroupOf(entries, g), g, s.base, TableAt(entries, 1))
           w == ReadTable(s, table)
           S == {i \in 0 .. Slots : ReadUpTo(w[i], entries, g, i)}
<1>1. Slots \in Nat
  BY PartitionTableAssumption DEF PartitionTableAssumption
<1>2. s.base = TableAt(entries, g) /\ s.base \in Nat
  BY DEF ReadUpTo, Reading, ReadCalls
<1>3. TableAt(entries, 1) \in Nat
  <2>1. g * Slots \in Nat /\ Len(entries) \in Nat
    BY <1>1, PartitionTableAssumption DEF PartitionTableAssumption, IsLayout
  <2>2. (1 - 1) * Slots < Len(entries)
    BY <1>1, <2>1
  <2> QED
    BY <2>2, TableAtIsANumber
<1>4. table \in [1 .. Slots -> Entry]
  BY <1>2, <1>3, TableForType
<1>5. w \in [0 .. Slots -> ReadCalls] /\ w[0] = s /\ \A i \in 1 .. Slots : w[i] = ReadSlot(w[i - 1], table[i])
  <2> HIDE DEF table
  <2> QED
    BY <1>4, ReadTableIs
<1> HIDE DEF w
<1>6. 0 \in S
  BY <1>1, <1>5
<1>7. ASSUME NEW i \in 1 .. Slots, i - 1 \in S PROVE i \in S
  <2>1. w[i - 1].base = s.base
    BY <1>2, <1>7 DEF ReadUpTo, Reading
  <2>2. ReadUpTo(ReadSlot(w[i - 1], TableFor(GroupOf(entries, g), g, w[i - 1].base, TableAt(entries, 1))[i]), entries, g, i)
    BY <1>7, ReadBackSlot
  <2>3. ReadUpTo(w[i], entries, g, i)
    BY <1>5, <2>1, <2>2
  <2> QED
    BY <1>1, <2>3
<1> HIDE DEF S
<1>8. \A i \in 0 .. Slots : i \in S
  BY <1>1, <1>6, <1>7, InductionTo
<1> QED
  BY <1>1, <1>8 DEF S, w

\* The last link of a group leads to the next one; the last group has none.
LEMMA LinksLead ==
  ASSUME NEW entries \in Layouts, NEW g \in Nat, g * Slots < Len(entries)
  PROVE  LET group == GroupOf(entries, g)
         IN  /\ Links(group, Slots) = {} => TableAt(entries, g + 1) = 0
             /\ Links(group, Slots) # {} =>
                  /\ g + 1 < Groups(entries)
                  /\ \E j : IsLast(group, Slots, j) /\ TableAt(entries, g + 1) = group[j].start
<1> DEFINE group == GroupOf(entries, g)
<1>1. entries \in Seq(Wanted)
  BY PartitionTableAssumption DEF PartitionTableAssumption, IsLayout
<1>2. group \in Seq(Wanted) /\ \A i \in 1 .. Len(group) : i \in 1 .. Slots
  BY <1>1, GroupIs
<1>3. TableAt(entries, g + 1) = LinkOf(group)
  <2>1. g + 1 # 0 /\ (g + 1) - 1 = g
    OBVIOUS
  <2> QED
    BY <2>1 DEF TableAt
<1>4. \A i : i \in Links(group, Slots) <=> i \in 1 .. Len(group) /\ IsLink(group[i])
  BY <1>2 DEF Links
<1>5. ASSUME Links(group, Slots) = {} PROVE LinkOf(group) = 0
  BY <1>2, <1>4, <1>5, LinkIs
<1>6. ASSUME NEW i \in Links(group, Slots) PROVE g + 1 < Groups(entries)
  <2>1. i \in 1 .. Len(group) /\ IsLink(group[i])
    BY <1>4
  <2>2. Kept(group[i]) /\ group[i].type = "extended"
    BY <2>1 DEF IsLink
  <2> QED
    BY <2>1, <2>2, EntryLiesBehind
<1>7. ASSUME Links(group, Slots) # {}
      PROVE  \E j : IsLast(group, Slots, j) /\ LinkOf(group) = group[j].start
  <2>1. \E i \in 1 .. Len(group) : IsLink(group[i])
    BY <1>4, <1>7
  <2>2. PICK j \in 1 .. Len(group) :
          /\ IsLink(group[j]) /\ LinkOf(group) = group[j].start
          /\ \A i \in 1 .. Len(group) : IsLink(group[i]) => i <= j
    BY <1>2, <2>1, LinkIs
  <2> QED
    BY <1>4, <2>2 DEF IsLast
<1> QED
  BY <1>3, <1>5, <1>6, <1>7

\* The group is within the layout as long as there are groups; and its sector
\* is that of no group before it.
LEMMA GroupsApart ==
  ASSUME NEW entries \in Layouts, NEW g \in Nat, g < Groups(entries)
  PROVE  /\ g * Slots < Len(entries)
         /\ Len(entries) > (g + 1) * Slots => g + 1 < Groups(entries)
         /\ TableAt(entries, g) # 0 =>
              \A h \in Nat : h < g => TableAt(entries, h) # TableAt(entries, g)
<1>1. /\ entries \in Seq(Wanted)
      /\ \A h \in 1 .. Groups(entries) - 1, k \in 0 .. Groups(entries) - 1 :
           k < h /\ TableAt(entries, h) # 0 => TableAt(entries, k) # TableAt(entries, h)
  BY PartitionTableAssumption DEF PartitionTableAssumption, IsLayout
<1>2. /\ Groups(entries) \in Nat /\ Len(entries) <= Groups(entries) * Slots
      /\ \A k \in Nat : k < Groups(entries) => k * Slots < Len(entries)
  BY <1>1, GroupsCover
<1>3. Slots \in Nat \ {0} /\ Len(entries) \in Nat
  BY <1>1, PartitionTableAssumption DEF PartitionTableAssumption
<1>4. ASSUME Len(entries) > (g + 1) * Slots PROVE g + 1 < Groups(entries)
  <2>1. CASE g + 1 = Groups(entries)
    <3>1. (g + 1) * Slots = Groups(entries) * Slots
      BY <2>1
    <3>2. (g + 1) * Slots \in Nat
      BY <1>3
    <3> QED
      BY <1>2, <1>3, <1>4, <3>1, <3>2
  <2>2. CASE g + 1 # Groups(entries)
    BY <1>2, <2>2
  <2> QED
    BY <2>1, <2>2
<1>5. ASSUME TableAt(entries, g) # 0, NEW h \in Nat, h < g
      PROVE  TableAt(entries, h) # TableAt(entries, g)
  <2>1. g \in 1 .. Groups(entries) - 1 /\ h \in 0 .. Groups(entries) - 1
    BY <1>2, <1>5
  <2> QED
    BY <1>1, <1>5, <2>1
<1> QED
  BY <1>2, <1>4, <1>5

\* A read that is at the table of a written group goes on to the next.
LEMMA PassReadsBack ==
  ASSUME NEW entries \in Layouts, NEW d, NEW g \in Nat, g < Groups(entries),
         \A h \in 0 .. Groups(entries) - 1 : Laid(d, entries, h),
         NEW s \in ReadCalls, ReadUpTo(s, entries, g, 0)
  PROVE  LET q == ReadTable(s, d[s.base].table)[Slots]
         IN  /\ q \in ReadCalls
             /\ \A k \in 1 .. Len(q.out) : Matches(q.out[k], entries, k)
             /\ HasRoom(q) =>
                  /\ Len(q.out) = (g + 1) * Slots
                  /\ q.saw <=> g + 1 < Groups(entries)
                  /\ q.saw => q.next # q.base /\ q.next = TableAt(entries, g + 1) /\ q.origin = TableAt(entries, 1)
<1> DEFINE q == ReadTable(s, d[s.base].table)[Slots]
           group == GroupOf(entries, g)
<1>1. /\ g * Slots < Len(entries) /\ Slots \in Nat \ {0}
      /\ entries \in Seq(Wanted) /\ Groups(entries) \in Nat
  BY GroupsApart, GroupsCover, PartitionTableAssumption DEF PartitionTableAssumption, IsLayout
<1>2. s.base = TableAt(entries, g)
  BY DEF ReadUpTo, Reading
<1>3. d[s.base].table = TableFor(group, g, s.base, TableAt(entries, 1))
  <2>1. g \in 0 .. Groups(entries) - 1
    BY <1>1
  <2> QED
    BY <1>2, <2>1 DEF Laid
<1>4. ReadUpTo(q, entries, g, Slots)
  BY <1>1, <1>3, ReadsBack
<1> HIDE DEF q
<1>5. q \in ReadCalls /\ Reading(q, entries, g) /\ \A k \in 1 .. Len(q.out) : Matches(q.out[k], entries, k)
  BY <1>4 DEF ReadUpTo
<1>6. ASSUME HasRoom(q)
      PROVE  /\ Len(q.out) = (g + 1) * Slots
             /\ q.saw <=> g + 1 < Groups(entries)
             /\ q.saw => q.next # q.base /\ q.next = TableAt(entries, g + 1) /\ q.origin = TableAt(entries, 1)
  <2>1. /\ Len(q.out) = g * Slots + Slots
        /\ Links(group, Slots) = {} => ~q.saw
        /\ \A j : IsLast(group, Slots, j) => q.saw /\ q.next = group[j].start /\ (g = 0 => q.origin = group[j].start)
    BY <1>4, <1>6 DEF ReadUpTo, ReadSlots
  <2>2. Len(q.out) = (g + 1) * Slots
    BY <1>1, <2>1
  <2> HIDE DEF group
  <2>3. CASE Links(group, Slots) = {}
    <3>1. TableAt(entries, g + 1) = 0
      BY <1>1, <2>3, LinksLead DEF group
    <3>2. ~(g + 1 < Groups(entries))
      <4>1. SUFFICES ASSUME g + 1 < Groups(entries) PROVE FALSE
        OBVIOUS
      <4>2. g + 1 \in 0 .. Groups(entries) - 1 /\ g + 1 # 0
        BY <1>1, <4>1
      <4> QED
        BY <3>1, <4>2 DEF Laid
    <3> QED
      BY <2>1, <2>2, <2>3, <3>2
  <2>4. CASE Links(group, Slots) # {}
    <3>1. /\ g + 1 < Groups(entries)
          /\ \E j : IsLast(group, Slots, j) /\ TableAt(entries, g + 1) = group[j].start
      BY <1>1, <2>4, LinksLead DEF group
    <3>2. q.saw /\ q.next = TableAt(entries, g + 1) /\ (g = 0 => q.origin = TableAt(entries, g + 1))
      BY <2>1, <3>1
    <3>3. q.origin = TableAt(entries, 1)
      <4>1. g = 0 => g + 1 = 1
        OBVIOUS
      <4> QED
        BY <1>5, <3>2, <4>1 DEF Reading
    <3>4. q.next # q.base
      <4>1. g + 1 \in 0 .. Groups(entries) - 1 /\ g + 1 # 0 /\ g + 1 \in Nat
        BY <1>1, <3>1
      <4>2. TableAt(entries, g + 1) # 0
        BY <4>1 DEF Laid
      <4>3. TableAt(entries, g) # TableAt(entries, g + 1)
        BY <3>1, <4>1, <4>2, GroupsApart
      <4> QED
        BY <1>5, <3>2, <4>3 DEF Reading
    <3> QED
      BY <2>2, <3>1, <3>2, <3>3, <3>4
  <2> QED
    BY <2>3, <2>4
<1> QED
  BY <1>5, <1>6 DEF q

-----------------------------------------------------------------------------
(* The invariant of the round trip, one action at a time. *)

\* Without a read or a write under way only the disk and the listing count.
LEMMA RoundIsFree ==
  ASSUME RoundInv, disk' = disk, written' = written, layout' = layout, call'.op \notin {"read", "write"}
  PROVE  RoundInv'
BY DEF RoundInv, LaidTied, WrittenTied, ReadBackTied, RoundTied, Laid

LEMMA InitRound ==
  ASSUME Init
  PROVE  RoundInv
BY DEF Init, NoCall, Nothing, RoundInv, LaidTied, WrittenTied, ReadBackTied, RoundTied

LEMMA BeginReadRound ==
  ASSUME Inv, RoundInv, NEW mode \in ReadModes, BeginRead(mode)
  PROVE  RoundInv'
<1>1. /\ call'.op = "read" /\ call'.base = 0 /\ call'.first = TRUE /\ call'.passes = 0 /\ call'.out = << >>
      /\ disk' = disk /\ written' = written /\ layout' = layout
  BY DEF BeginRead, Begin
<1>2. LaidTied' /\ WrittenTied' /\ RoundTied'
  BY <1>1 DEF RoundInv, LaidTied, WrittenTied, RoundTied, Laid
<1>3. ASSUME written.known
      PROVE  /\ 0 < Groups(written.entries) /\ Reading(call', written.entries, 0)
             /\ HasRoom(call') /\ Len(call'.out) = 0 * Slots
  <2>1. written.entries \in Layouts
    BY <1>3 DEF RoundInv, WrittenTied
  <2>2. written.entries \in Seq(Wanted) \ {<< >>} /\ Slots \in Nat \ {0} /\ PartitionMax \in Nat \ {0}
    BY <2>1, PartitionTableAssumption DEF PartitionTableAssumption, IsLayout
  <2>3. Groups(written.entries) \in Nat /\ Len(written.entries) <= Groups(written.entries) * Slots
    BY <2>2, GroupsCover
  <2>4. Groups(written.entries) # 0
    <3>1. Len(written.entries) > 0
      BY <2>2
    <3>2. SUFFICES ASSUME Groups(written.entries) = 0 PROVE FALSE
      OBVIOUS
    <3>3. Groups(written.entries) * Slots = 0
      BY <2>2, <3>2
    <3> QED
      BY <2>2, <2>3, <3>1, <3>3
  <2>5. Reading(call', written.entries, 0)
    BY <1>1 DEF Reading, TableAt
  <2>6. Len(<< >>) = 0 /\ 0 * Slots = 0
    BY <2>2
  <2> QED
    BY <1>1, <2>2, <2>3, <2>4, <2>5, <2>6 DEF HasRoom
<1>4. ReadBackTied'
  <2>1. SUFFICES ASSUME written.known PROVE ReadBackTied'
    BY <1>1 DEF ReadBackTied
  <2>2. \A k \in 1 .. Len(call'.out) : FALSE
    BY <1>1
  <2> QED
    BY <1>1, <1>3, <2>1, <2>2 DEF ReadBackTied, Reading, HasRoom
<1> QED
  BY <1>2, <1>4 DEF RoundInv

LEMMA BeginWriteRound ==
  ASSUME RoundInv, NEW entries \in Layouts, BeginWrite(entries)
  PROVE  RoundInv'
<1>1. /\ call'.op = "write" /\ call'.group = 0 /\ disk' = disk /\ written' = written /\ layout' = Nothing
  BY DEF BeginWrite, Begin
<1>2. LaidTied'
  BY <1>1 DEF LaidTied
<1>3. WrittenTied'
  BY <1>1 DEF RoundInv, WrittenTied, Laid
<1>4. ReadBackTied' /\ RoundTied'
  BY <1>1 DEF ReadBackTied, RoundTied, Nothing
<1> QED
  BY <1>2, <1>3, <1>4 DEF RoundInv

\* What is read while all is written is never without a magic.
LEMMA ReadStopsRound ==
  ASSUME Inv, RoundInv, ReadStops
  PROVE  RoundInv'
<1>1. call.op = "read" /\ call' = NoCall /\ disk' = disk /\ written' = written
  BY DEF ReadStops, ReturnRead
<1>2. LaidTied' /\ ReadBackTied' /\ WrittenTied'
  BY <1>1 DEF NoCall, LaidTied, ReadBackTied, RoundInv, WrittenTied, Laid
<1>3. ASSUME layout'.known, ~layout'.mode, written.known PROVE FALSE
  <2>1. ~disk[call.base].magic /\ ~call.mode
    <3>1. \/ layout' = Nothing \/ layout' = [known |-> FALSE, mode |-> call.mode, entries |-> call.out]
          \/ ~disk[call.base].magic /\ layout' = [known |-> TRUE, mode |-> call.mode, entries |-> call.out]
      BY Zenon DEF ReadStops, ReturnRead
    <3>2. layout' # Nothing /\ layout' # [known |-> FALSE, mode |-> call.mode, entries |-> call.out]
      BY <1>3 DEF Nothing
    <3>3. ~disk[call.base].magic /\ layout' = [known |-> TRUE, mode |-> call.mode, entries |-> call.out]
      BY <3>1, <3>2, Zenon
    <3>4. layout'.mode = call.mode
      BY <3>3
    <3> QED
      BY <1>3, <3>3, <3>4
  <2>2. /\ call.passes < Groups(written.entries) /\ call.base = TableAt(written.entries, call.passes)
        /\ written.entries \in Layouts
        /\ \A g \in 0 .. Groups(written.entries) - 1 : Laid(disk, written.entries, g)
    BY <1>1, <1>3, <2>1 DEF RoundInv, ReadBackTied, WrittenTied, Reading
  <2>3. written.entries \in Seq(Wanted)
    BY <2>2, PartitionTableAssumption DEF PartitionTableAssumption, IsLayout
  <2>4. Groups(written.entries) \in Nat
    BY <2>3, GroupsCover
  <2>5. call.passes \in Nat
    BY <1>1, CallOps, PartitionTableAssumption DEF Inv, ReadCalls, PartitionTableAssumption
  <2>6. call.passes \in 0 .. Groups(written.entries) - 1
    BY <2>2, <2>4, <2>5
  <2> QED
    BY <2>1, <2>2, <2>6 DEF Laid
<1>4. RoundTied'
  BY <1>1, <1>3 DEF RoundTied
<1> QED
  BY <1>2, <1>4 DEF RoundInv

LEMMA ReadPassRound ==
  ASSUME Inv, RoundInv, ReadPass
  PROVE  RoundInv'
<1> DEFINE c == [call EXCEPT !.saw = FALSE, !.next = call.base]
           s == ReadTable(c, disk[call.base].table)[Slots]
           over == ~s.saw \/ s.next = s.base \/ Len(s.out) >= PartitionMax \/ NextPass(s) > PartitionMax
           done == [known |-> TRUE, mode |-> s.mode, entries |-> s.out]
           onward == [s EXCEPT !.base = s.next, !.first = FALSE, !.passes = NextPass(s)]
           entries == written.entries
           g == call.passes
<1>1. /\ call.op = "read" /\ call.base \in Lbas /\ disk' = disk /\ written' = written
      /\ IF over THEN call' = NoCall /\ layout' = done ELSE call' = onward /\ layout' = layout
  BY Zenon DEF ReadPass, ReturnRead, Readable
<1>2. call \in ReadCalls /\ PartitionMax \in Nat /\ Slots \in Nat \ {0} /\ g \in Nat
  BY <1>1, CallOps, PartitionTableAssumption DEF Inv, PartitionTableAssumption, ReadCalls
<1>3. /\ c \in ReadCalls /\ c.base = call.base /\ c.first = call.first /\ c.origin = call.origin
      /\ c.out = call.out /\ c.mode = call.mode /\ c.passes = call.passes /\ c.saw = FALSE
  BY <1>2 DEF ReadCalls
<1>4. s \in ReadCalls /\ s.mode = call.mode /\ s.passes = g
  <2>1. disk[call.base].table \in [1 .. Slots -> Entry]
    BY <1>1 DEF Inv, Sector
  <2> HIDE DEF c
  <2> QED
    BY <1>3, <2>1, ReadTableKeeps
<1>5. ASSUME ~call.mode, written.known
      PROVE  /\ entries \in Layouts /\ g < Groups(entries) /\ Groups(entries) \in Nat
             /\ \A k \in 1 .. Len(s.out) : Matches(s.out[k], entries, k)
             /\ HasRoom(s) =>
                  /\ Len(s.out) = (g + 1) * Slots
                  /\ s.saw <=> g + 1 < Groups(entries)
                  /\ s.saw => s.next # s.base /\ s.next = TableAt(entries, g + 1) /\ s.origin = TableAt(entries, 1)
  <2>1. entries \in Layouts /\ \A h \in 0 .. Groups(entries) - 1 : Laid(disk, entries, h)
    BY <1>5, Zenon DEF RoundInv, WrittenTied
  <2>2. /\ g < Groups(entries) /\ Reading(call, entries, g) /\ Len(call.out) = g * Slots
        /\ \A k \in 1 .. Len(call.out) : Matches(call.out[k], entries, k)
    BY <1>1, <1>5, Zenon DEF RoundInv, ReadBackTied
  <2>3. Groups(entries) \in Nat
    BY <2>1, GroupsCover, PartitionTableAssumption DEF PartitionTableAssumption, IsLayout
  <2> HIDE DEF c, s, entries
  <2>4. ReadUpTo(c, entries, g, 0)
    <3>1. Links(GroupOf(entries, g), 0) = {}
      BY DEF Links
    <3>2. ReadSlots(c, entries, g, 0)
      <4>1. g * Slots + 0 = g * Slots
        BY <1>2
      <4> QED
        BY <1>3, <2>2, <3>1, <4>1 DEF ReadSlots, IsLast
    <3>3. Reading(c, entries, g)
      BY <1>3, <2>2 DEF Reading
    <3> QED
      BY <1>3, <1>5, <2>2, <3>2, <3>3 DEF ReadUpTo
  <2>5. s = ReadTable(c, disk[c.base].table)[Slots]
    BY <1>3 DEF s
  <2>6. LET q == ReadTable(c, disk[c.base].table)[Slots]
        IN  /\ \A k \in 1 .. Len(q.out) : Matches(q.out[k], entries, k)
            /\ HasRoom(q) =>
                 /\ Len(q.out) = (g + 1) * Slots
                 /\ q.saw <=> g + 1 < Groups(entries)
                 /\ q.saw => q.next # q.base /\ q.next = TableAt(entries, g + 1) /\ q.origin = TableAt(entries, 1)
    <3>1. g \in Nat /\ g < Groups(entries) /\ c \in ReadCalls
      BY <1>2, <1>3, <2>2
    <3> HIDE DEF g
    <3> QED
      BY <2>1, <2>4, <3>1, PassReadsBack, Zenon
  <2> QED
    BY <2>1, <2>2, <2>3, <2>5, <2>6
<1> HIDE DEF s
<1>6. LaidTied' /\ WrittenTied'
  <2>1. call'.op # "write"
    <3>1. call' = NoCall \/ call' = onward
      BY <1>1
    <3>2. onward.op = "read"
      BY <1>4 DEF ReadCalls
    <3> HIDE DEF onward
    <3> QED
      BY <3>1, <3>2 DEF NoCall
  <2> QED
    BY <1>1, <2>1 DEF RoundInv, LaidTied, WrittenTied, Laid
<1>7. CASE over
  <2>1. call' = NoCall /\ layout' = done
    BY <1>1, <1>7
  <2>2. ReadBackTied'
    BY <2>1 DEF ReadBackTied, NoCall
  <2>3. ASSUME ~s.mode, written.known
        PROVE  /\ \A k \in 1 .. Len(s.out) : Matches(s.out[k], entries, k)
               /\ \A k \in DOMAIN entries : Kept(entries[k]) => k <= Len(s.out)
    <3>1. ASSUME NEW k \in DOMAIN entries, Kept(entries[k]) PROVE k <= Len(s.out)
      <4>1. entries \in Layouts
        BY <1>4, <1>5, <2>3
      <4>2. entries \in Seq(Wanted) /\ IsEntry(entries, k)
        BY <3>1, <4>1, PartitionTableAssumption DEF PartitionTableAssumption, IsLayout
      <4> HIDE DEF entries
      <4>3. k \in 1 .. Len(entries) /\ k <= PartitionMax /\ Len(entries) \in Nat /\ Len(s.out) \in Nat
        BY <1>4, <3>1, <4>2 DEF IsEntry, ReadCalls, Listings
      <4>4. CASE HasRoom(s)
        <5>1. /\ Len(s.out) = (g + 1) * Slots /\ g < Groups(entries) /\ Len(s.out) < PartitionMax
              /\ s.saw <=> g + 1 < Groups(entries)
              /\ s.saw => s.next # s.base
          BY <1>4, <1>5, <2>3, <4>4 DEF HasRoom
        <5>2. ~s.saw
          <6>1. ~(Len(s.out) >= PartitionMax)
            BY <1>2, <4>3, <5>1
          <6>2. ~(NextPass(s) > PartitionMax)
            <7>1. NextPass(s) = g + 1
              BY <1>4 DEF NextPass
            <7>2. g + 1 <= (g + 1) * Slots
              <8> HIDE DEF g
              <8> QED
                BY <1>2
            <7> HIDE DEF g
            <7> QED
              BY <1>2, <4>3, <5>1, <7>1, <7>2
          <6> QED
            BY <1>7, <5>1, <6>1, <6>2
        <5>3. ~(Len(entries) > (g + 1) * Slots)
          BY <1>2, <4>1, <5>1, <5>2, GroupsApart
        <5> HIDE DEF g
        <5> QED
          BY <1>2, <4>3, <5>1, <5>3
      <4>5. CASE ~HasRoom(s)
        BY <1>2, <4>3, <4>5 DEF HasRoom
      <4> QED
        BY <4>4, <4>5
    <3> QED
      BY <1>4, <1>5, <2>3, <3>1
  <2>4. RoundTied'
    <3>1. layout'.mode = s.mode /\ layout'.entries = s.out
      BY <2>1
    <3> QED
      BY <1>1, <2>3, <3>1 DEF RoundTied
  <2> QED
    BY <1>6, <2>2, <2>4 DEF RoundInv
<1>8. CASE ~over
  <2>1. call' = onward /\ layout' = layout
    BY <1>1, <1>8
  <2>2. RoundTied'
    BY <1>1, <2>1 DEF RoundInv, RoundTied
  <2>3. /\ call'.base = s.next /\ call'.first = FALSE /\ call'.passes = g + 1 /\ call'.mode = call.mode
        /\ call'.origin = s.origin /\ call'.out = s.out
    BY <1>4, <2>1 DEF ReadCalls, NextPass
  <2>4. HasRoom(s) /\ s.saw
    BY <1>2, <1>4, <1>8 DEF HasRoom, ReadCalls, Listings
  <2>5. ReadBackTied'
    <3>1. SUFFICES ASSUME ~call.mode, written.known
                   PROVE  /\ g + 1 < Groups(entries) /\ Reading(call', entries, g + 1)
                          /\ HasRoom(call') /\ Len(call'.out) = (g + 1) * Slots
                          /\ \A k \in 1 .. Len(call'.out) : Matches(call'.out[k], entries, k)
      BY <1>1, <2>3 DEF ReadBackTied
    <3>2. /\ g + 1 < Groups(entries) /\ s.next = TableAt(entries, g + 1) /\ s.origin = TableAt(entries, 1)
          /\ Len(s.out) = (g + 1) * Slots
          /\ \A k \in 1 .. Len(s.out) : Matches(s.out[k], entries, k)
      BY <1>5, <2>4, <3>1
    <3>3. Reading(call', entries, g + 1)
      <4>1. g + 1 # 0
        BY <1>2
      <4> QED
        BY <2>3, <3>2, <4>1 DEF Reading
    <3> QED
      BY <2>3, <2>4, <3>2, <3>3 DEF HasRoom
  <2> QED
    BY <1>6, <2>2, <2>5 DEF RoundInv
<1> QED
  BY <1>7, <1>8

LEMMA SetPartitionTypeRound ==
  ASSUME RoundInv, SetPartitionType
  PROVE  RoundInv'
<1>1. call' = NoCall /\ (written' = Nothing \/ (disk' = disk /\ written' = written /\ layout' = layout))
  BY DEF SetPartitionType
<1>2. CASE written' = Nothing
  BY <1>1, <1>2 DEF NoCall, Nothing, RoundInv, LaidTied, WrittenTied, ReadBackTied, RoundTied
<1>3. CASE disk' = disk /\ written' = written /\ layout' = layout
  BY <1>1, <1>3, RoundIsFree DEF NoCall
<1> QED
  BY <1>1, <1>2, <1>3

\* The groups before stay laid, for no two of them share a sector.
LEMMA WriteGroupRound ==
  ASSUME Inv, RoundInv, WriteGroup
  PROVE  RoundInv'
<1> DEFINE entries == call.entries
           g == call.group
           lba == call.lba
           group == GroupOf(entries, g)
           link == LinkOf(group)
           origin == IF g = 0 THEN link ELSE call.origin
           last == g + 1 >= Groups(entries)
           Put(old) == [old EXCEPT !.magic = TRUE, !.table = TableFor(group, g, lba, origin)]
<1>1. call.op = "write" /\ layout' = layout
  BY DEF WriteGroup
<1>2. PICK readOk \in BOOLEAN, writeOk \in BOOLEAN :
        /\ Transfers(lba, readOk, writeOk)
        /\ disk' = IF ~writeOk THEN disk ELSE [disk EXCEPT ![lba] = Put(IF readOk THEN @ ELSE Zeroed)]
        /\ written' = IF last /\ (call.ok /\ writeOk) THEN [known |-> TRUE, mode |-> FALSE, entries |-> entries]
                      ELSE Nothing
        /\ call' = IF last \/ link = 0 THEN NoCall
                   ELSE [call EXCEPT !.group = @ + 1, !.lba = link, !.origin = origin, !.ok = (call.ok /\ writeOk)]
  BY <1>1, Zenon DEF WriteGroup
<1>3. call \in WriteCalls /\ disk \in [Lbas -> Sector]
  BY <1>1, CallOps DEF Inv
<1>4. entries \in Layouts /\ g \in Nat
  BY <1>3 DEF WriteCalls
<1>5. /\ layout = Nothing /\ g * Slots < Len(entries) /\ lba = TableAt(entries, g)
      /\ g # 0 => lba # 0 /\ call.origin = TableAt(entries, 1)
  BY <1>1 DEF Inv, WriteTied
<1>6. entries \in Seq(Wanted) /\ Groups(entries) \in Nat /\ Slots \in Nat \ {0}
  BY <1>4, GroupsCover, PartitionTableAssumption DEF PartitionTableAssumption, IsLayout
<1>7. g < Groups(entries)
  <2>1. SUFFICES ASSUME g >= Groups(entries) PROVE FALSE
    BY <1>4, <1>6
  <2>2. Groups(entries) * Slots <= g * Slots /\ Groups(entries) * Slots \in Nat /\ g * Slots \in Nat
    <3> HIDE DEF entries, g
    <3> QED
      BY <1>4, <1>6, <2>1, TimesGrow
  <2>3. Len(entries) <= Groups(entries) * Slots /\ Len(entries) \in Nat
    BY <1>6, GroupsCover
  <2> HIDE DEF entries, g
  <2> QED
    BY <1>5, <2>2, <2>3
<1>8. origin = TableAt(entries, 1)
  <2>1. TableAt(entries, 1) = LinkOf(GroupOf(entries, 0))
    <3>1. 1 # 0 /\ 1 - 1 = 0
      OBVIOUS
    <3> QED
      BY <3>1 DEF TableAt
  <2> QED
    BY <1>5, <2>1
<1> HIDE DEF entries, g, lba, group, link, origin, last
<1>9. ASSUME call.ok, writeOk PROVE \A h \in 0 .. g : Laid(disk', entries, h)
  <2>1. lba \in Lbas
    BY <1>2, <1>9 DEF Transfers, Readable
  <2> DEFINE old == IF readOk THEN disk[lba] ELSE Zeroed
  <2>2. disk' = [disk EXCEPT ![lba] = Put(old)]
    BY <1>2, <1>9, Zenon
  <2>3. disk'[lba] = Put(old) /\ \A x \in Lbas : x # lba => disk'[x] = disk[x]
    <3> HIDE DEF Put, old
    <3> QED
      BY <1>3, <2>1, <2>2
  <2>4. disk'[lba].magic /\ disk'[lba].table = TableFor(group, g, lba, origin)
    <3>1. old \in Sector
      <4>1. Zeroed \in Sector
        BY DEF Zeroed, Sector, Blank, Entry, Types
      <4> QED
        BY <1>3, <2>1, <4>1
    <3> HIDE DEF old
    <3>2. Put(old).magic = TRUE /\ Put(old).table = TableFor(group, g, lba, origin)
      BY <3>1 DEF Sector
    <3> HIDE DEF Put
    <3> QED
      BY <2>3, <3>2
  <2>5. Laid(disk', entries, g)
    <3>1. lba = TableAt(entries, g) /\ (g # 0 => lba # 0)
      BY <1>5 DEF lba, g, entries
    <3> QED
      BY <1>8, <2>1, <2>4, <3>1 DEF Laid, group
  <2>6. ASSUME NEW h \in 0 .. g - 1 PROVE Laid(disk', entries, h)
    <3>1. Laid(disk, entries, h)
      BY <1>1, <1>9, <2>6 DEF RoundInv, LaidTied, entries, g
    <3>2. TableAt(entries, g) # 0
      BY <1>4, <1>5, <2>6 DEF g, entries, lba
    <3>3. h \in Nat /\ h < g
      BY <1>4, <2>6
    <3>4. TableAt(entries, h) # lba
      BY <1>4, <1>5, <1>7, <3>2, <3>3, GroupsApart DEF lba, g, entries
    <3> QED
      BY <2>3, <3>1, <3>4 DEF Laid
  <2>7. \A h \in 0 .. g : h = g \/ h \in 0 .. g - 1
    BY <1>4
  <2> QED
    BY <2>5, <2>6, <2>7
<1>10. LaidTied'
  <2>1. SUFFICES ASSUME call'.op = "write", call'.ok PROVE \A h \in 0 .. call'.group - 1 : Laid(disk', call'.entries, h)
    BY DEF LaidTied
  <2>2. call' = [call EXCEPT !.group = call.group + 1, !.lba = link, !.origin = origin, !.ok = (call.ok /\ writeOk)]
    BY <1>2, <2>1 DEF NoCall
  <2>3. call'.ok = (call.ok /\ writeOk)
    BY <1>3, <2>2, Zenon DEF WriteCalls
  <2>4. call'.group = g + 1 /\ call'.entries = entries
    BY <1>3, <2>2 DEF WriteCalls, g, entries
  <2>5. (g + 1) - 1 = g
    BY <1>4
  <2> QED
    BY <1>9, <2>1, <2>3, <2>4, <2>5
<1>11. WrittenTied'
  <2>1. SUFFICES ASSUME written'.known
                 PROVE  written'.entries \in Layouts /\ \A h \in 0 .. Groups(written'.entries) - 1 : Laid(disk', written'.entries, h)
    BY DEF WrittenTied
  <2>2. (last /\ (call.ok /\ writeOk)) /\ written' = [known |-> TRUE, mode |-> FALSE, entries |-> entries]
    BY <1>2, <2>1 DEF Nothing
  <2>3. written'.entries = entries /\ call.ok /\ writeOk /\ last
    BY <2>2
  <2>4. Groups(entries) - 1 = g
    BY <1>4, <1>6, <1>7, <2>3 DEF last
  <2> QED
    BY <1>4, <1>9, <2>3, <2>4
<1>12. ReadBackTied' /\ RoundTied'
  <2>1. ~layout'.known
    BY <1>1, <1>5 DEF Nothing
  <2>2. call'.op # "read"
    <3>1. call' = NoCall \/ call' = [call EXCEPT !.group = call.group + 1, !.lba = link, !.origin = origin, !.ok = (call.ok /\ writeOk)]
      BY <1>2, Zenon
    <3>2. [call EXCEPT !.group = call.group + 1, !.lba = link, !.origin = origin, !.ok = (call.ok /\ writeOk)].op = "write"
      <4> DEFINE ok == call.ok /\ writeOk
      <4> HIDE DEF ok
      <4>1. [call EXCEPT !.group = call.group + 1, !.lba = link, !.origin = origin, !.ok = ok].op = "write"
        BY <1>1, <1>3 DEF WriteCalls
      <4> QED
        BY <4>1 DEF ok
    <3>3. NoCall.op = "none"
      BY DEF NoCall
    <3>4. call'.op = "none" \/ call'.op = "write"
      BY <3>1, <3>2, <3>3, Zenon
    <3> QED
      BY <3>4
  <2> QED
    BY <2>1, <2>2 DEF ReadBackTied, RoundTied
<1> QED
  BY <1>10, <1>11, <1>12 DEF RoundInv

LEMMA RoundStep ==
  ASSUME Inv, RoundInv, [Next]_vars
  PROVE  RoundInv'
<1>1. CASE UNCHANGED vars
  BY <1>1 DEF vars, RoundInv, LaidTied, WrittenTied, ReadBackTied, RoundTied, Laid, HasRoom, Reading
<1>2. ASSUME NEW n \in 1 .. PartitionMax, BeginSet(n, "other") PROVE RoundInv'
  <2>1. call'.op = "find" /\ disk' = disk /\ written' = written /\ layout' = layout
    BY <1>2 DEF BeginSet, Begin
  <2> QED
    BY <2>1, RoundIsFree
<1>3. ASSUME FindStops PROVE RoundInv'
  <2>1. call'.op = "none" /\ disk' = disk /\ written' = written /\ layout' = layout
    BY <1>3 DEF FindStops, NoCall
  <2> QED
    BY <2>1, RoundIsFree
<1>4. ASSUME FindPass PROVE RoundInv'
  <2>1. disk' = disk /\ written' = written /\ layout' = layout
    BY <1>4, Zenon DEF FindPass
  <2> DEFINE s == FindTable([call EXCEPT !.saw = FALSE, !.next = call.base, !.table = disk[call.base].table])[Slots]
  <2>2. \/ call' = [s EXCEPT !.op = "stamp"] \/ call' = NoCall
        \/ call' = [s EXCEPT !.base = s.next, !.first = FALSE, !.passes = s.passes + 1]
    BY <1>4, Zenon DEF FindPass
  <2>3. s \in FindCalls /\ s.op = "find"
    <3>1. call.op = "find" /\ call.base \in Lbas /\ disk[call.base].magic
      BY <1>4, Zenon DEF FindPass, Readable
    <3> QED
      BY <3>1, FindPassFollows, Zenon
  <2> HIDE DEF s
  <2>4. /\ [s EXCEPT !.op = "stamp"].op = "stamp"
        /\ [s EXCEPT !.base = s.next, !.first = FALSE, !.passes = s.passes + 1].op = "find"
    BY <2>3 DEF FindCalls
  <2>5. NoCall.op = "none"
    BY DEF NoCall
  <2>6. call'.op = "none" \/ call'.op = "stamp" \/ call'.op = "find"
    BY <2>2, <2>4, <2>5, Zenon
  <2> QED
    BY <2>1, <2>6, RoundIsFree
<1>5. CASE Next
  BY <1>2, <1>3, <1>4, <1>5, BeginReadRound, BeginWriteRound, ReadStopsRound, ReadPassRound,
     SetPartitionTypeRound, WriteGroupRound DEF Next
<1> QED
  BY <1>1, <1>5

\* What was written without a fault is what a later read lists: every entry in
\* use in its slot and at its place, whatever stood on the disk before and
\* however many tables the layout takes; for the layouts Setup passes, in
\* which a link leads from every group but the last (disk.c:290-300).
THEOREM WhatIsWrittenIsRead == Spec => []RoundTrip
<1>1. Init => RoundInv
  BY InitRound
<1>2. Inv /\ RoundInv /\ [Next]_vars => RoundInv'
  BY RoundStep
<1>3. ASSUME Inv, RoundInv PROVE RoundTrip
  <2>1. SUFFICES ASSUME layout.known, ~layout.mode, written.known,
                        NEW k \in DOMAIN layout.entries \cup DOMAIN written.entries
                 PROVE  Place(layout.entries, k) = Place(written.entries, k)
    BY DEF RoundTrip
  <2> DEFINE y == layout.entries
             z == written.entries
  <2>2. /\ \A i \in 1 .. Len(y) : Matches(y[i], z, i)
        /\ \A i \in DOMAIN z : Kept(z[i]) => i <= Len(y)
    BY <1>3, <2>1 DEF RoundInv, RoundTied
  <2>3. DOMAIN y = 1 .. Len(y) /\ Len(y) \in Nat
    BY <1>3 DEF Inv, CallTypes, Listings
  <2>4. DOMAIN z \subseteq Nat \ {0}
    <3>1. z \in Layouts
      BY <1>3, <2>1 DEF RoundInv, WrittenTied
    <3>2. z \in Seq(Wanted)
      BY <3>1, PartitionTableAssumption DEF PartitionTableAssumption, IsLayout
    <3> QED
      BY <3>2
  <2> HIDE DEF y, z
  <2>5. CASE k \in DOMAIN y
    <3>1. Matches(y[k], z, k)
      BY <2>2, <2>5, <2>3
    <3> QED
      BY <2>5, <3>1 DEF Matches, Place, Kept, y, z
  <2>6. CASE k \notin DOMAIN y
    <3>1. k \in DOMAIN z /\ ~Kept(z[k])
      BY <2>1, <2>2, <2>6, <2>3, <2>4 DEF y, z
    <3> QED
      BY <2>6, <3>1 DEF Place, y, z
  <2> QED
    BY <2>5, <2>6
<1> QED
  BY <1>1, <1>2, <1>3, PartitionInvariant, PTL DEF Spec

=============================================================================
