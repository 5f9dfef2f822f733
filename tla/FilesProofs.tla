---------------------------- MODULE FilesProofs -----------------------------
(***************************************************************************)
(* Theorems about the layers of the firmware's files, for a table of any    *)
(* size, any set of Open Firmware's handles and any range of a position.    *)
(***************************************************************************)
EXTENDS MCArcFiles, LeastElement, SequenceTheorems, TLAPS

-----------------------------------------------------------------------------
(* Positions, in two halves (io.c:127-176). *)

\* A product grows with its factor.
LEMMA FewerTimes ==
  ASSUME NEW a \in Nat, NEW c \in Nat, NEW b \in Nat, a <= c
  PROVE  a * b \in Nat /\ a * b <= c * b
OBVIOUS

\* A product is taken term by term.
LEMMA TermByTerm ==
  ASSUME NEW a \in Nat, NEW b \in Nat, NEW c \in Nat, NEW w \in Nat
  PROVE  /\ (a + b + c) * w = a * w + b * w + c * w
         /\ a * w \in Nat /\ b * w \in Nat /\ c * w \in Nat
OBVIOUS

\* A number that is divided is the multiple and the rest.
LEMMA Remainder ==
  ASSUME NEW n \in Nat, NEW w \in Nat \ {0}, NEW v \in 0 .. w - 1, n = v \/ n = w + v
  PROVE  n % w = v
OBVIOUS

\* A position of 64 bits is the pair of its halves.
LEMMA HalvesOf ==
  ASSUME NEW pos \in 0 .. Word * Word - 1
  PROVE  /\ pos \div Word \in 0 .. Word - 1 /\ pos % Word \in 0 .. Word - 1
         /\ (pos \div Word) * Word + (pos % Word) = pos
<1> DEFINE q == pos \div Word
           r == pos % Word
<1>1. Word \in Nat \ {0} /\ pos \in Nat /\ pos < Word * Word
  BY ArcIoAssumption DEF ArcIoAssumption
<1>2. q \in Nat /\ r \in 0 .. Word - 1 /\ pos = q * Word + r
  BY <1>1
<1> HIDE DEF q, r
<1>3. ASSUME q >= Word PROVE FALSE
  <2>1. q * Word >= Word * Word
    BY <1>1, <1>2, <1>3
  <2> QED
    BY <1>1, <1>2, <2>1
<1> QED
  BY <1>1, <1>2, <1>3 DEF q, r

\* The halves that io_seek adds, with their carry, are the sum.
LEMMA TargetIsSum ==
  ASSUME NEW f, f.hi \in 0 .. Word - 1, f.lo \in 0 .. Word - 1,
         NEW hi \in 0 .. Word - 1, NEW lo \in 0 .. Word - 1, NEW relative \in BOOLEAN
  PROVE  /\ Target(f, hi, lo, relative) \in 0 .. Word * Word - 1
         /\ Target(f, hi, lo, relative) = ((IF relative THEN Pos(f) ELSE 0) + hi * Word + lo) % (Word * Word)
<1>1. Word \in Nat \ {0} /\ Word > 1
  BY ArcIoAssumption DEF ArcIoAssumption
<1>2. ASSUME NEW a \in 0 .. Word - 1, NEW b \in 0 .. Word - 1
      PROVE  a * Word + b \in 0 .. Word * Word - 1
  <2>1. a * Word <= (Word - 1) * Word /\ a * Word \in Nat
    BY <1>1, FewerTimes
  <2>2. (Word - 1) * Word = Word * Word - Word
    BY <1>1
  <2> QED
    BY <1>1, <2>1, <2>2
<1>3. Word * Word \in Nat \ {0}
  BY <1>1
<1>4. CASE ~relative
  <2>1. hi * Word + lo \in 0 .. Word * Word - 1
    BY <1>2
  <2>2. (0 + hi * Word + lo) % (Word * Word) = hi * Word + lo
    <3>1. PICK n \in Nat : n = hi * Word + lo
      BY <2>1
    <3>2. 0 + hi * Word + lo = n
      BY <1>1, <3>1, FewerTimes
    <3> QED
      BY <1>3, <2>1, <3>1, <3>2, Remainder
  <2> QED
    BY <1>4, <2>1, <2>2 DEF Target
<1>5. CASE relative
  <2> DEFINE nlo == (f.lo + lo) % Word
             carry == IF nlo < lo THEN 1 ELSE 0
             nhi == (hi + f.hi + carry) % Word
             sum == Pos(f) + hi * Word + lo
  <2>1. nlo \in 0 .. Word - 1 /\ f.lo + lo = carry * Word + nlo
    BY <1>1
  <2>2. carry \in {0, 1}
    OBVIOUS
  <2> HIDE DEF nlo, carry
  <2>3. PICK over \in {0, 1} : hi + f.hi + carry = over * Word + nhi /\ nhi \in 0 .. Word - 1
    <3>1. PICK n \in 0 .. 2 * Word - 1 : n = hi + f.hi + carry
      BY <1>1, <2>2
    <3>2. PICK v \in 0 .. Word - 1 : n = v \/ n = Word + v
      BY <1>1, <3>1
    <3>3. nhi = v
      BY <1>1, <3>1, <3>2, Remainder
    <3> QED
      BY <1>1, <3>1, <3>2, <3>3
  <2> HIDE DEF nhi
  <2>4. sum = (hi + f.hi + carry) * Word + nlo
    <3>1. carry \in Nat /\ hi \in Nat /\ f.hi \in Nat /\ lo \in Nat /\ f.lo \in Nat
      BY <1>1, <2>2
    <3> QED
      BY <1>1, <2>1, <3>1, TermByTerm DEF Pos
  <2>5. sum = over * (Word * Word) + (nhi * Word + nlo)
    <3>1. ASSUME over = 0 PROVE (over * Word + nhi) * Word = nhi * Word
      BY <1>1, <2>3, <3>1
    <3>2. ASSUME over = 1 PROVE (over * Word + nhi) * Word = Word * Word + nhi * Word
      BY <1>1, <2>3, <3>2
    <3> QED
      BY <1>1, <1>3, <2>1, <2>3, <2>4, <3>1, <3>2
  <2>6. nhi * Word + nlo \in 0 .. Word * Word - 1
    BY <1>2, <2>1, <2>3
  <2>7. sum % (Word * Word) = nhi * Word + nlo
    <3> DEFINE w == Word * Word
               v == nhi * Word + nlo
    <3>1. w \in Nat \ {0} /\ v \in 0 .. w - 1 /\ sum = over * w + v
      BY <1>3, <2>5, <2>6
    <3> HIDE DEF w, v, sum
    <3>2. sum % w = v
      BY <3>1, Remainder
    <3> QED
      BY <3>2 DEF w, v
  <2>8. Target(f, hi, lo, relative) = nhi * Word + nlo
    BY <1>5 DEF Target, nhi, nlo, carry
  <2> QED
    BY <1>5, <2>6, <2>7, <2>8
<1> QED
  BY <1>4, <1>5

-----------------------------------------------------------------------------
(* Ids and instances (io.c:60-125). *)

\* The least of a set of naturals is in it.
LEMMA LeastIsIn ==
  ASSUME NEW S \in SUBSET Nat, S # {}
  PROVE  Min(S) \in S
BY SmallestExists DEF Min

\* A free handle, now open at position 0, or nothing and no change.
Gives(inst, o) ==
  \/ o.ih = 0 /\ o.inst = inst
  \/ o.ih \in Handles /\ inst[o.ih] = -1 /\ o.inst = [inst EXCEPT ![o.ih] = 0]

\* Open Firmware opens an instance that was closed, or refuses.
LEMMA OpenedGives ==
  ASSUME NEW inst \in [Handles -> Int], NEW o \in Opened(inst)
  PROVE  Gives(inst, o)
<1> DEFINE free == {h \in Handles : inst[h] = -1}
<1>1. CASE o = [inst |-> inst, ih |-> 0]
  BY <1>1 DEF Gives
<1>2. CASE free # {} /\ o = [inst |-> [inst EXCEPT ![Min(free)] = 0], ih |-> Min(free)]
  <2>1. Min(free) \in free
    BY <1>2, LeastIsIn, ArcIoAssumption DEF ArcIoAssumption
  <2> QED
    BY <1>2, <2>1 DEF Gives
<1> QED
  BY <1>1, <1>2 DEF Opened

\* What is opened and closed again is as it was.
LEMMA OpenedReleased ==
  ASSUME NEW inst \in [Handles -> Int], NEW o \in Opened(inst), o.ih # 0
  PROVE  Released(o.inst, o.ih) = inst
<1>1. o.ih \in Handles /\ inst[o.ih] = -1 /\ o.inst = [inst EXCEPT ![o.ih] = 0]
  BY OpenedGives DEF Gives
<1> QED
  BY <1>1 DEF Released

\* fat.c keeps the instance of a file it has found, and no other.
LEMMA FatTriesGive ==
  ASSUME NEW inst \in [Handles -> Int], NEW o \in FatTries(inst)
  PROVE  Gives(inst, o)
<1>1. ASSUME NEW p \in FatOpened(inst) PROVE Gives(inst, p)
  <2>1. CASE p \in Opened(inst)
    BY <2>1, OpenedGives
  <2>2. ASSUME NEW q \in Opened(inst), q.ih # 0, p = [inst |-> Released(q.inst, q.ih), ih |-> 0]
        PROVE  Gives(inst, p)
    BY <2>2, OpenedReleased DEF Gives
  <2> QED
    BY <2>1, <2>2 DEF FatOpened
<1>2. PICK p \in FatOpened(inst) : o \in IF p.ih # 0 THEN {p} ELSE FatOpened(p.inst)
  BY DEF FatTries
<1>3. CASE p.ih # 0
  BY <1>1, <1>2, <1>3
<1>4. CASE p.ih = 0
  <2>1. p.inst = inst
    BY <1>1, <1>4, ArcIoAssumption DEF Gives, ArcIoAssumption
  <2> QED
    BY <1>1, <1>2, <1>4, <2>1
<1> QED
  BY <1>3, <1>4

\* io_open gives a free id a file of its own, or leaves everything as it was.
LEMMA OpenGives ==
  ASSUME instances \in [Handles -> Int], FreeIds # {}, MaxFd \in Nat,
         NEW kind \in Kinds, NEW readOnly \in BOOLEAN, NEW o \in OpenOutcomes(kind, readOnly)
  PROVE  \/ o.fd = 0 /\ o.inst = instances /\ o.status = "ENOENT"
         \/ /\ o.fd \in FreeIds /\ o.status = "ESUCCESS"
            /\ \E h \in Handles, fat_ \in BOOLEAN :
                 /\ instances[h] = -1 /\ o.inst = [instances EXCEPT ![h] = 0]
                 /\ o.file = [open |-> TRUE, kind |-> kind, fat |-> fat_, ih |-> h, hi |-> 0, lo |-> 0]
<1> DEFINE f == Min(FreeIds)
           viaFat == kind \in {"disk", "diskfile"} /\ readOnly
           tries == IF viaFat THEN FatTries(instances) ELSE {[inst |-> instances, ih |-> 0]}
           Result(p, isFat) == [inst |-> p.inst, fd |-> f, status |-> "ESUCCESS",
                                file |-> [Closed EXCEPT !.open = TRUE, !.kind = kind, !.fat = isFat, !.ih = p.ih]]
           Failure(p) == [inst |-> p.inst, fd |-> 0, status |-> "ENOENT", file |-> Closed]
<1>1. f \in FreeIds
  BY LeastIsIn DEF FreeIds, Users
<1>2. \A p \in tries : Gives(instances, p)
  <2>1. CASE viaFat
    BY <2>1, FatTriesGive
  <2>2. CASE ~viaFat
    BY <2>2 DEF Gives
  <2> QED
    BY <2>1, <2>2
<1>3. ASSUME NEW p \in tries, p.ih # 0, o = Result(p, TRUE)
      PROVE  /\ o.fd \in FreeIds /\ o.status = "ESUCCESS"
             /\ \E h \in Handles, fat_ \in BOOLEAN :
                 /\ instances[h] = -1 /\ o.inst = [instances EXCEPT ![h] = 0]
                 /\ o.file = [open |-> TRUE, kind |-> kind, fat |-> fat_, ih |-> h, hi |-> 0, lo |-> 0]
  <2>1. p.ih \in Handles /\ instances[p.ih] = -1 /\ p.inst = [instances EXCEPT ![p.ih] = 0]
    BY <1>2, <1>3 DEF Gives
  <2>2. o.file = [open |-> TRUE, kind |-> kind, fat |-> TRUE, ih |-> p.ih, hi |-> 0, lo |-> 0]
    BY <1>3 DEF Closed
  <2> QED
    BY <1>1, <1>3, <2>1, <2>2
<1>4. ASSUME NEW p \in tries, p.ih = 0, NEW q \in Opened(p.inst)
      PROVE  Gives(instances, q)
  BY <1>2, <1>4, OpenedGives, ArcIoAssumption DEF Gives, ArcIoAssumption
<1>5. ASSUME NEW p \in tries, p.ih = 0, NEW q \in Opened(p.inst), q.ih # 0, o = Result(q, FALSE)
      PROVE  /\ o.fd \in FreeIds /\ o.status = "ESUCCESS"
             /\ \E h \in Handles, fat_ \in BOOLEAN :
                 /\ instances[h] = -1 /\ o.inst = [instances EXCEPT ![h] = 0]
                 /\ o.file = [open |-> TRUE, kind |-> kind, fat |-> fat_, ih |-> h, hi |-> 0, lo |-> 0]
  <2>1. q.ih \in Handles /\ instances[q.ih] = -1 /\ q.inst = [instances EXCEPT ![q.ih] = 0]
    BY <1>4, <1>5 DEF Gives
  <2>2. o.file = [open |-> TRUE, kind |-> kind, fat |-> FALSE, ih |-> q.ih, hi |-> 0, lo |-> 0]
    BY <1>5 DEF Closed
  <2> QED
    BY <1>1, <1>5, <2>1, <2>2
<1>6. ASSUME NEW p \in tries, p.ih = 0, NEW q \in Opened(p.inst), q.ih = 0, o = Failure(q)
      PROVE  o.fd = 0 /\ o.inst = instances /\ o.status = "ENOENT"
  BY <1>4, <1>6, ArcIoAssumption DEF Gives, ArcIoAssumption
<1>7. OpenOutcomes(kind, readOnly) =
        {Result(p, TRUE) : p \in {p \in tries : p.ih # 0}}
        \cup UNION {{IF q.ih = 0 THEN Failure(q) ELSE Result(q, FALSE) : q \in Opened(p.inst)} : p \in {p \in tries : p.ih = 0}}
  BY Zenon DEF OpenOutcomes
<1> HIDE DEF tries, Result, Failure
<1>8. \/ \E p \in tries : p.ih # 0 /\ o = Result(p, TRUE)
      \/ \E p \in tries : p.ih = 0 /\ \E q \in Opened(p.inst) : o = IF q.ih = 0 THEN Failure(q) ELSE Result(q, FALSE)
  BY <1>7
<1>9. CASE \E p \in tries : p.ih # 0 /\ o = Result(p, TRUE)
  BY <1>3, <1>9
<1>10. CASE \E p \in tries : p.ih = 0 /\ \E q \in Opened(p.inst) : o = IF q.ih = 0 THEN Failure(q) ELSE Result(q, FALSE)
  <2>0. PICK p \in tries : p.ih = 0 /\ \E q \in Opened(p.inst) : o = IF q.ih = 0 THEN Failure(q) ELSE Result(q, FALSE)
    BY <1>10
  <2>1. PICK q \in Opened(p.inst) : p.ih = 0 /\ o = IF q.ih = 0 THEN Failure(q) ELSE Result(q, FALSE)
    BY <2>0
  <2>2. CASE q.ih = 0
    BY <1>6, <2>1, <2>2
  <2>3. CASE q.ih # 0
    BY <1>5, <2>1, <2>3
  <2> QED
    BY <2>2, <2>3
<1> QED
  BY <1>8, <1>9, <1>10

\* What an entry of the table is.
Slots == [open : BOOLEAN, kind : Kinds, fat : BOOLEAN, ih : Handles \cup {0},
          hi : 0 .. Word - 1, lo : 0 .. Word - 1]

\* The table and Open Firmware's instances, together.
FileTables ==
  /\ fds \in [Ids -> Slots]
  /\ instances \in [Handles -> -1 .. DeviceEnd]
  /\ InstancesAreOwned
  /\ PositionsAgree

\* An open id has an open instance.
LEMMA OpenHasHandle ==
  ASSUME FileTables, NEW f \in Users, fds[f].open
  PROVE  fds[f].ih \in Handles /\ instances[fds[f].ih] # -1
BY DEF FileTables, InstancesAreOwned, OpenUsers

\* An id is given an instance that no other id has, in place of its own.
Binds(fd, h, file) ==
  /\ file.open /\ file.ih = h /\ (~file.fat => instances'[h] = Pos(file)) /\ instances'[h] # -1
  /\ \A g \in OpenUsers \ {fd} : fds[g].ih # h
  /\ fds' = [fds EXCEPT ![fd] = file]
  /\ instances' \in [Handles -> -1 .. DeviceEnd]
  /\ \A k \in Handles \ {h} : instances'[k] = IF fds[fd].open /\ k = fds[fd].ih THEN -1 ELSE instances[k]

\* An id that is bound to another instance, or to its own, keeps the tables.
LEMMA BindKeeps ==
  ASSUME FileTables, NEW fd \in Users, NEW h \in Handles, NEW file \in Slots, Binds(fd, h, file)
  PROVE  FileTables'
<1> USE DEF FileTables, OpenUsers, Slots, Binds
<1>1. Users \subseteq Ids
  BY DEF Users, Ids
<1>2. /\ fds'[fd] = file /\ \A f \in Users \ {fd} : fds'[f] = fds[f]
      /\ OpenUsers' = OpenUsers \cup {fd}
  BY <1>1
<1>3. \A f \in OpenUsers : fds[f].ih \in Handles /\ instances[fds[f].ih] # -1
  BY OpenHasHandle
<1>4. InstancesAreOwned'
  <2>1. ASSUME NEW f \in OpenUsers' PROVE fds'[f].ih \in Handles /\ instances'[fds'[f].ih] # -1
    BY <1>2, <1>3 DEF InstancesAreOwned
  <2>2. ASSUME NEW k \in Handles, instances'[k] # -1 PROVE \E f \in OpenUsers' : fds'[f].ih = k
    <3>1. CASE k = h
      BY <1>2, <3>1
    <3>2. CASE k # h
      <4>1. instances[k] # -1 /\ ~ (fds[fd].open /\ k = fds[fd].ih)
        BY <2>2, <3>2
      <4>2. PICK f \in OpenUsers : fds[f].ih = k
        BY <4>1 DEF InstancesAreOwned
      <4> QED
        BY <1>2, <4>1, <4>2
    <3> QED
      BY <3>1, <3>2
  <2>3. {fds'[f].ih : f \in OpenUsers'} = {k \in Handles : instances'[k] # -1}
    BY <2>1, <2>2
  <2>4. \A f, g \in OpenUsers' : fds'[f].ih = fds'[g].ih => f = g
    BY <1>2 DEF InstancesAreOwned
  <2> QED
    BY <2>3, <2>4 DEF InstancesAreOwned
<1>5. PositionsAgree'
  <2>1. ASSUME NEW f \in OpenUsers', ~fds'[f].fat PROVE instances'[fds'[f].ih] = Pos(fds'[f])
    <3>1. CASE f = fd
      BY <1>2, <2>1, <3>1
    <3>2. CASE f # fd
      <4>1. f \in OpenUsers /\ fds'[f] = fds[f] /\ fds[f].ih \in Handles \ {h} /\ ~fds[f].fat
        BY <1>2, <1>3, <2>1, <3>2
      <4>2. ~ (fds[fd].open /\ fds[f].ih = fds[fd].ih)
        BY <3>2, <4>1 DEF InstancesAreOwned
      <4>3. instances'[fds[f].ih] = instances[fds[f].ih]
        BY <4>1, <4>2
      <4> QED
        BY <4>1, <4>3 DEF PositionsAgree
    <3> QED
      BY <3>1, <3>2
  <2> QED
    BY <2>1 DEF PositionsAgree, Pos
<1>6. fds' \in [Ids -> Slots]
  BY <1>1
<1> QED
  BY <1>4, <1>5, <1>6

\* An id that is closed gives its instance back.
LEMMA CloseKeeps ==
  ASSUME FileTables, NEW fd \in Users, fds[fd].open,
         NEW file \in Slots,
         ~file.open, fds' = [fds EXCEPT ![fd] = file], instances' = ClosedInst(fd)
  PROVE  FileTables'
<1> USE DEF FileTables, OpenUsers, Slots
<1>1. Users \subseteq Ids
  BY DEF Users, Ids
<1>2. /\ fds'[fd] = file /\ \A f \in Users \ {fd} : fds'[f] = fds[f]
      /\ OpenUsers' = OpenUsers \ {fd}
  BY <1>1
<1>3. \A f \in OpenUsers : fds[f].ih \in Handles /\ instances[fds[f].ih] # -1
  BY OpenHasHandle
<1>4. \A k \in Handles : instances'[k] = IF k = fds[fd].ih THEN -1 ELSE instances[k]
  BY <1>3 DEF ClosedInst, Released
<1>5. \A f \in OpenUsers' : f \in OpenUsers /\ fds'[f] = fds[f] /\ instances'[fds[f].ih] = instances[fds[f].ih]
  BY <1>2, <1>3, <1>4 DEF InstancesAreOwned
<1>6. InstancesAreOwned'
  <2>1. ASSUME NEW k \in Handles, instances'[k] # -1 PROVE \E f \in OpenUsers' : fds'[f].ih = k
    <3>1. k # fds[fd].ih /\ instances[k] # -1
      BY <1>4, <2>1
    <3>2. PICK f \in OpenUsers : fds[f].ih = k
      BY <3>1 DEF InstancesAreOwned
    <3> QED
      BY <1>2, <3>1, <3>2
  <2>2. {fds'[f].ih : f \in OpenUsers'} = {k \in Handles : instances'[k] # -1}
    BY <1>3, <1>5, <2>1
  <2> QED
    BY <1>5, <2>2 DEF InstancesAreOwned
<1>7. PositionsAgree'
  <2>1. ASSUME NEW f \in OpenUsers', ~fds'[f].fat PROVE instances'[fds'[f].ih] = Pos(fds'[f])
    BY <1>5, <2>1 DEF PositionsAgree
  <2> QED
    BY <2>1 DEF PositionsAgree, Pos
<1>8. instances' \in [Handles -> -1 .. DeviceEnd]
  <2>1. DeviceEnd \in Nat
    BY ArcIoAssumption DEF ArcIoAssumption
  <2>2. -1 \in -1 .. DeviceEnd
    BY <2>1
  <2> QED
    BY <1>4, <2>2 DEF ClosedInst, Released
<1>9. fds' \in [Ids -> Slots]
  BY <1>1
<1> QED
  BY <1>6, <1>7, <1>8, <1>9

-----------------------------------------------------------------------------
(* The invariant. *)

\* While it goes on, load_image has its id open.
LoaderIsOpen ==
  loader # 0 /\ last.op \in {"load", "read", "seek"} /\ last.status = "ESUCCESS" => fds[loader].open

IoInv ==
  /\ FileTables
  /\ typed \in 0 .. MaxKeys /\ pending \in 0 .. MaxKeys /\ taken \in Seq(Nat)
  /\ loader \in {0} \cup Users /\ last.fd \in Ids
  /\ SeekArrives /\ LoaderIsOpen /\ KeysInOrder

\* The table begins with the console and nothing else.
LEMMA InitIoInv == Init => IoInv
<1> SUFFICES ASSUME Init PROVE IoInv
  OBVIOUS
<1>1. MaxFd \in Nat /\ MaxFd > 2 /\ Word \in Nat /\ Word > 1 /\ DeviceEnd \in Nat /\ MaxKeys \in Nat
  BY ArcIoAssumption DEF ArcIoAssumption
<1>2. Closed \in Slots /\ Console \in Slots
  <2>1. 0 \in 0 .. Word - 1
    BY <1>1
  <2>2. Closed \in Slots
    BY <2>1 DEF Closed, Slots, Kinds
  <2> QED
    BY <2>2 DEF Console, Slots, Kinds
<1>3. fds \in [Ids -> Slots]
  BY <1>2 DEF Init
<1>4. OpenUsers = {}
  BY <1>1 DEF OpenUsers, Users, Ids, Init, Closed
<1>5. FileTables
  BY <1>1, <1>3, <1>4 DEF FileTables, InstancesAreOwned, PositionsAgree, Init
<1>6. taken = <<>> /\ taken \in Seq(Nat) /\ Len(taken) = 0
  BY DEF Init
<1>7. KeysInOrder
  BY <1>6 DEF KeysInOrder, Init
<1>8. SeekArrives /\ LoaderIsOpen
  BY DEF Init, SeekArrives, LoaderIsOpen
<1>9. typed \in 0 .. MaxKeys /\ pending \in 0 .. MaxKeys /\ loader \in {0} \cup Users /\ last.fd \in Ids
  BY <1>1 DEF Init, Ids
<1> QED
  BY <1>5, <1>6, <1>7, <1>8, <1>9 DEF IoInv

\* A call that moves no file and is no seek leaves the tables as they were.
LEMMA EndsKeeps ==
  ASSUME FileTables, UNCHANGED <<fds, instances>>
  PROVE  FileTables'
BY DEF FileTables, InstancesAreOwned, PositionsAgree, OpenUsers, Pos

\* io_open keeps the tables.
LEMMA OutcomeKeeps ==
  ASSUME FileTables, FreeIds # {}, NEW kind \in Kinds, NEW readOnly \in BOOLEAN,
         NEW o \in OpenOutcomes(kind, readOnly), instances' = o.inst,
         fds' = IF o.fd = 0 THEN fds ELSE [fds EXCEPT ![o.fd] = o.file]
  PROVE  /\ FileTables' /\ o.fd \in {0} \cup Users
         /\ o.fd # 0 => fds'[o.fd].open
<1>1. MaxFd \in Nat /\ MaxFd > 2 /\ Word \in Nat /\ Word > 1 /\ DeviceEnd \in Nat
  BY ArcIoAssumption DEF ArcIoAssumption
<1>2. instances \in [Handles -> Int] /\ FreeIds \subseteq Users /\ Users \subseteq Ids /\ 0 \notin Users
  BY <1>1 DEF FileTables, FreeIds, Users, Ids
<1>3. CASE o.fd = 0
  <2>1. o.inst = instances
    BY <1>1, <1>2, <1>3, OpenGives
  <2> QED
    BY <1>3, <2>1, EndsKeeps
<1>4. CASE o.fd # 0
  <2>1. o.fd \in FreeIds
    BY <1>1, <1>2, <1>4, OpenGives
  <2>2. PICK h \in Handles, fat_ \in BOOLEAN :
             /\ instances[h] = -1 /\ o.inst = [instances EXCEPT ![h] = 0]
             /\ o.file = [open |-> TRUE, kind |-> kind, fat |-> fat_, ih |-> h, hi |-> 0, lo |-> 0]
    BY <1>1, <1>2, <1>4, OpenGives
  <2>3. o.file \in Slots
    BY <1>1, <2>2 DEF Slots
  <2>4. /\ o.file.open /\ o.file.ih = h /\ instances'[h] = Pos(o.file) /\ instances'[h] # -1
        /\ ~fds[o.fd].open /\ o.fd \in Users
    BY <1>1, <1>2, <2>1, <2>2 DEF Pos, FileTables, FreeIds
  <2>5. \A g \in OpenUsers \ {o.fd} : fds[g].ih # h
    BY <2>2, OpenHasHandle DEF OpenUsers
  <2>6. instances' \in [Handles -> -1 .. DeviceEnd]
    BY <1>1, <2>2 DEF FileTables
  <2>7. \A k \in Handles \ {h} : instances'[k] = IF fds[o.fd].open /\ k = fds[o.fd].ih THEN -1 ELSE instances[k]
    BY <2>2, <2>4 DEF FileTables
  <2>8. fds' = [fds EXCEPT ![o.fd] = o.file]
    BY <1>4
  <2>9. FileTables'
    <3>1. Binds(o.fd, h, o.file)
      BY <2>4, <2>5, <2>6, <2>7, <2>8 DEF Binds
    <3> QED
      BY <2>3, <2>4, <3>1, BindKeeps
  <2> QED
    BY <1>2, <1>4, <2>1, <2>4, <2>8, <2>9 DEF FileTables
<1> QED
  BY <1>3, <1>4

\* A file that goes to a position has its instance go there, unless fat.c
\* reads it.
LEMMA MoveKeeps ==
  ASSUME FileTables, NEW fd \in Users, fds[fd].open, NEW pos \in 0 .. Word * Word - 1,
         fds' = [fds EXCEPT ![fd] = At(@, pos)],
         \/ fds[fd].fat /\ instances' = instances
         \/ ~fds[fd].fat /\ pos <= DeviceEnd /\ instances' = [instances EXCEPT ![fds[fd].ih] = pos]
  PROVE  FileTables' /\ Pos(fds'[fd]) = pos /\ fds'[fd].open
<1>0. PICK file, h : file = At(fds[fd], pos) /\ h = fds[fd].ih
  OBVIOUS
<1>1. MaxFd \in Nat /\ MaxFd > 2 /\ Word \in Nat /\ Word > 1 /\ DeviceEnd \in Nat
  BY ArcIoAssumption DEF ArcIoAssumption
<1>2. fd \in Ids /\ fds[fd] \in Slots
  BY DEF Users, Ids, FileTables
<1>3. pos \div Word \in 0 .. Word - 1 /\ pos % Word \in 0 .. Word - 1 /\ (pos \div Word) * Word + (pos % Word) = pos
  BY HalvesOf
<1>4. /\ file \in Slots
      /\ file.open /\ file.ih = h /\ file.fat = fds[fd].fat /\ Pos(file) = pos
  BY <1>0, <1>2, <1>3 DEF At, Pos, Slots
<1>5. h \in Handles /\ instances[h] # -1
  BY <1>0, OpenHasHandle
<1>6. \A g \in OpenUsers \ {fd} : fds[g].ih # h
  BY <1>0 DEF FileTables, InstancesAreOwned, OpenUsers
<1>7. /\ instances' \in [Handles -> -1 .. DeviceEnd]
      /\ \A k \in Handles \ {h} : instances'[k] = IF fds[fd].open /\ k = fds[fd].ih THEN -1 ELSE instances[k]
  BY <1>0, <1>1, <1>5 DEF FileTables
<1>8. instances'[h] # -1 /\ (~file.fat => instances'[h] = Pos(file))
  BY <1>0, <1>1, <1>4, <1>5 DEF FileTables
<1>9. fds' = [fds EXCEPT ![fd] = file]
  BY <1>0
<1>10. fds'[fd] = file
  BY <1>2, <1>9 DEF FileTables
<1>11. FileTables'
  <2>1. Binds(fd, h, file)
    BY <1>4, <1>6, <1>7, <1>8, <1>9 DEF Binds
  <2> QED
    BY <1>4, <1>5, <2>1, BindKeeps
<1> QED
  BY <1>4, <1>10, <1>11

\* What a seek of fd has done: it kept the tables, and when it says that it
\* succeeded the file is open and at its target.
Seeks(fd, to, off) ==
  /\ FileTables'
  /\ last'.op = "seek" /\ last'.fd = fd /\ last'.off = off
  /\ last'.status = "ESUCCESS" => Pos(fds'[fd]) = to /\ fds'[fd].open

\* The file that is reopened and read forward.
LEMMA ReadForwardKeeps ==
  ASSUME FileTables, NEW fd \in Users, fds[fd].open, ~fds[fd].fat,
         NEW to \in 0 .. Word * Word - 1, NEW off, ReadForward(fd, to, off)
  PROVE  Seeks(fd, to, off)
<1>0. PICK behind \in BOOLEAN : behind = (to < fds[fd].lo \/ fds[fd].hi # 0)
  OBVIOUS
<1>1. PICK from : from = IF behind THEN 0 ELSE fds[fd].lo
  OBVIOUS
<1>2. MaxFd \in Nat /\ MaxFd > 2 /\ Word \in Nat /\ Word > 1 /\ DeviceEnd \in Nat /\ DeviceEnd < Word * Word /\ 0 \notin Handles
  BY ArcIoAssumption DEF ArcIoAssumption
<1>3. fd \in Ids /\ fds[fd] \in Slots /\ instances \in [Handles -> -1 .. DeviceEnd]
  BY DEF Users, Ids, FileTables
<1>4. from \in Nat
  BY <1>1, <1>2, <1>3 DEF Slots
<1>5. PICK o \in IF behind THEN Opened(ClosedInst(fd)) ELSE {[inst |-> instances, ih |-> fds[fd].ih]} :
        \/ /\ o.ih = 0
           /\ instances' = o.inst
           /\ fds' = [fds EXCEPT ![fd].open = FALSE, ![fd].ih = 0]
           /\ last' = [op |-> "seek", fd |-> fd, status |-> "EIO", off |-> off]
        \/ /\ o.ih # 0
           /\ \E reached \in from .. to :
                /\ reached <= DeviceEnd
                /\ instances' = [o.inst EXCEPT ![o.ih] = reached]
                /\ fds' = [fds EXCEPT ![fd] = [At(@, reached) EXCEPT !.ih = o.ih]]
                /\ last' = [op |-> "seek", fd |-> fd, off |-> off,
                            status |-> IF reached = to THEN "ESUCCESS" ELSE "EIO"]
  BY <1>0, <1>1 DEF ReadForward
<1>6. fds[fd].ih \in Handles /\ instances[fds[fd].ih] # -1
  BY OpenHasHandle
<1>7. ClosedInst(fd) \in [Handles -> -1 .. DeviceEnd] /\ ClosedInst(fd) \in [Handles -> Int]
  <2>1. -1 \in -1 .. DeviceEnd
    BY <1>2
  <2>2. ClosedInst(fd) \in [Handles -> -1 .. DeviceEnd]
    BY <1>3, <2>1 DEF ClosedInst, Released
  <2> QED
    BY <1>2, <2>2
<1>8. \A k \in Handles : ClosedInst(fd)[k] = IF k = fds[fd].ih THEN -1 ELSE instances[k]
  BY <1>3, <1>6 DEF ClosedInst, Released
<1>9. CASE o.ih = 0
  <2>1. behind
    BY <1>2, <1>5, <1>6, <1>9
  <2>2. instances' = ClosedInst(fd)
    <3>1. o \in Opened(ClosedInst(fd))
      BY <1>5, <2>1
    <3> QED
      BY <1>2, <1>5, <1>7, <1>9, <3>1, OpenedGives DEF Gives
  <2>3. PICK file : file = [fds[fd] EXCEPT !.open = FALSE, !.ih = 0]
    OBVIOUS
  <2>4. file \in Slots /\ ~file.open
    BY <1>3, <2>3 DEF Slots
  <2>5. fds' = [fds EXCEPT ![fd] = file]
    <3>1. fds' = [fds EXCEPT ![fd].open = FALSE, ![fd].ih = 0]
      BY <1>5, <1>9
    <3> QED
      BY <1>3, <2>3, <3>1 DEF FileTables
  <2>6. FileTables'
    BY <2>2, <2>4, <2>5, CloseKeeps
  <2> QED
    BY <1>5, <1>9, <2>6 DEF Seeks
<1>10. CASE o.ih # 0
  <2>1. PICK reached \in from .. to :
                /\ reached <= DeviceEnd
                /\ instances' = [o.inst EXCEPT ![o.ih] = reached]
                /\ fds' = [fds EXCEPT ![fd] = [At(@, reached) EXCEPT !.ih = o.ih]]
                /\ last' = [op |-> "seek", fd |-> fd, off |-> off,
                            status |-> IF reached = to THEN "ESUCCESS" ELSE "EIO"]
    BY <1>5, <1>10
  <2>2. PICK h, file : h = o.ih /\ file = [At(fds[fd], reached) EXCEPT !.ih = o.ih]
    OBVIOUS
  <2>3. /\ h \in Handles /\ o.inst \in [Handles -> -1 .. DeviceEnd]
        /\ h = fds[fd].ih \/ instances[h] = -1
        /\ \A k \in Handles \ {h} : o.inst[k] = IF k = fds[fd].ih THEN -1 ELSE instances[k]
    <3>1. CASE behind
      <4>1. o \in Opened(ClosedInst(fd))
        BY <1>5, <3>1
      <4>2. o.ih \in Handles /\ ClosedInst(fd)[o.ih] = -1 /\ o.inst = [ClosedInst(fd) EXCEPT ![o.ih] = 0]
        BY <1>7, <1>10, <4>1, OpenedGives DEF Gives
      <4>3. 0 \in -1 .. DeviceEnd
        BY <1>2
      <4> QED
        BY <1>7, <1>8, <2>2, <4>2, <4>3
    <3>2. CASE ~behind
      BY <1>3, <1>5, <1>6, <2>2, <3>2
    <3> QED
      BY <3>1, <3>2
  <2>4. reached \in 0 .. Word * Word - 1
    BY <1>2, <1>4, <2>1
  <2>5. reached \div Word \in 0 .. Word - 1 /\ reached % Word \in 0 .. Word - 1 /\ (reached \div Word) * Word + (reached % Word) = reached
    BY <2>4, HalvesOf
  <2>6. /\ file \in Slots
        /\ file.open /\ file.ih = h /\ file.fat = fds[fd].fat /\ Pos(file) = reached
    <3>1. At(fds[fd], reached) \in Slots /\ At(fds[fd], reached).open /\ At(fds[fd], reached).fat = fds[fd].fat
          /\ At(fds[fd], reached).hi = reached \div Word /\ At(fds[fd], reached).lo = reached % Word
      BY <1>3, <2>5 DEF At, Slots
    <3> QED
      BY <2>2, <2>3, <2>5, <3>1 DEF Pos, Slots
  <2>7. reached \in Nat /\ reached \in -1 .. DeviceEnd
    BY <1>2, <2>1, <2>4
  <2>8. instances'[h] = reached /\ instances' \in [Handles -> -1 .. DeviceEnd]
    BY <2>1, <2>2, <2>3, <2>7
  <2>9. \A k \in Handles \ {h} : instances'[k] = IF fds[fd].open /\ k = fds[fd].ih THEN -1 ELSE instances[k]
    BY <2>1, <2>2, <2>3
  <2>10. fds' = [fds EXCEPT ![fd] = file]
    BY <2>1, <2>2
  <2>11. \A g \in OpenUsers \ {fd} : fds[g].ih # h
    BY <1>6, <2>3, OpenHasHandle DEF FileTables, InstancesAreOwned, OpenUsers
  <2>12. Binds(fd, h, file)
    BY <2>6, <2>7, <2>8, <2>9, <2>10, <2>11 DEF Binds
  <2>13. FileTables'
    BY <2>3, <2>6, <2>12, BindKeeps
  <2>14. fds'[fd] = file
    BY <1>3, <2>10 DEF FileTables
  <2> QED
    BY <2>1, <2>6, <2>13, <2>14 DEF Seeks
<1> QED
  BY <1>9, <1>10

\* io_seek, whichever way the file goes.
LEMMA SeekToKeeps ==
  ASSUME FileTables, NEW fd \in Users, fds[fd].open,
         NEW to \in 0 .. Word * Word - 1, NEW off, SeekTo(fd, to, off)
  PROVE  Seeks(fd, to, off)
<1>1. ASSUME last' = [op |-> "seek", fd |-> fd, status |-> "EIO", off |-> off], UNCHANGED <<fds, instances>>
      PROVE  Seeks(fd, to, off)
  BY <1>1, EndsKeeps DEF Seeks
<1>2. ASSUME fds[fd].fat, fds' = [fds EXCEPT ![fd] = At(@, to)], UNCHANGED instances,
             last' = [op |-> "seek", fd |-> fd, status |-> "ESUCCESS", off |-> off]
      PROVE  Seeks(fd, to, off)
  BY <1>2, MoveKeeps DEF Seeks
<1>3. ASSUME ~fds[fd].fat, to <= DeviceEnd, instances' = [instances EXCEPT ![fds[fd].ih] = to],
             fds' = [fds EXCEPT ![fd] = At(@, to)],
             last' = [op |-> "seek", fd |-> fd, status |-> "ESUCCESS", off |-> off]
      PROVE  Seeks(fd, to, off)
  BY <1>3, MoveKeeps DEF Seeks
<1> QED
  BY <1>1, <1>2, <1>3, ReadForwardKeeps DEF SeekTo

\* A read or a write of a file moves it, or leaves everything where it was.
LEMMA TransferKeeps ==
  ASSUME FileTables, NEW fd \in Users, NEW op, NEW n \in Nat, Transfer(op, fd, n)
  PROVE  /\ FileTables' /\ fds'[fd].open
         /\ last'.op = op /\ last'.fd = fd
<1>1. fds[fd].open /\ fd \in Ids /\ fds[fd] \in Slots
  BY DEF Transfer, Users, Ids, FileTables
<1>2. CASE UNCHANGED <<fds, instances>>
  BY <1>1, <1>2, EndsKeeps DEF Transfer, Ends
<1>3. CASE /\ fds[fd].fat => op = "read"
           /\ \E r \in 0 .. n :
                /\ Pos(fds[fd]) + r <= DeviceEnd \/ r = 0
                /\ fds' = [fds EXCEPT ![fd] = At(@, Pos(@) + r)]
                /\ instances' = IF fds[fd].fat THEN instances ELSE [instances EXCEPT ![fds[fd].ih] = @ + r]
           /\ Ends(op, fd, "ESUCCESS")
  <2>1. PICK r \in 0 .. n :
                /\ Pos(fds[fd]) + r <= DeviceEnd \/ r = 0
                /\ fds' = [fds EXCEPT ![fd] = At(@, Pos(@) + r)]
                /\ instances' = IF fds[fd].fat THEN instances ELSE [instances EXCEPT ![fds[fd].ih] = @ + r]
    BY <1>3
  <2>2. PICK pos : pos = Pos(fds[fd]) + r
    OBVIOUS
  <2>3. Word \in Nat /\ Word > 1 /\ DeviceEnd \in Nat /\ DeviceEnd < Word * Word
    BY ArcIoAssumption DEF ArcIoAssumption
  <2>4. Pos(fds[fd]) \in 0 .. Word * Word - 1
    <3>1. PICK a \in 0 .. Word - 1, b \in 0 .. Word - 1 : Pos(fds[fd]) = a * Word + b
      BY <1>1 DEF Pos, Slots
    <3>2. a * Word <= (Word - 1) * Word /\ a * Word \in Nat
      BY <2>3, FewerTimes
    <3>3. (Word - 1) * Word = Word * Word - Word
      BY <2>3
    <3> QED
      BY <2>3, <3>1, <3>2, <3>3
  <2>5. pos \in 0 .. Word * Word - 1
    BY <2>1, <2>2, <2>3, <2>4
  <2>6. ~fds[fd].fat => instances[fds[fd].ih] = Pos(fds[fd]) /\ fds[fd].ih \in Handles
    BY <1>1, OpenHasHandle DEF FileTables, PositionsAgree, OpenUsers
  <2>7. ~fds[fd].fat => pos <= DeviceEnd
    BY <2>1, <2>2, <2>3, <2>4, <2>6 DEF FileTables
  <2>8. fds' = [fds EXCEPT ![fd] = At(@, pos)]
    BY <2>1, <2>2
  <2>9. ~fds[fd].fat => instances' = [instances EXCEPT ![fds[fd].ih] = pos]
    BY <2>1, <2>2, <2>6
  <2>10. fds[fd].fat => instances' = instances
    BY <2>1
  <2>11. FileTables' /\ fds'[fd].open
    BY <1>1, <2>5, <2>7, <2>8, <2>9, <2>10, MoveKeeps
  <2> QED
    BY <1>3, <2>11 DEF Ends
<1> QED
  BY <1>2, <1>3 DEF Transfer

-----------------------------------------------------------------------------
(* The calls keep the invariant. *)

\* What the calls on files leave alone.
KeysStay == UNCHANGED <<typed, taken, pending>>

\* Such a call keeps the invariant if it keeps the tables and ends as a call
\* of its kind does.
LEMMA CallKeeps ==
  ASSUME IoInv, FileTables', KeysStay, loader' \in {0} \cup Users, last'.fd \in Ids, SeekArrives', LoaderIsOpen'
  PROVE  IoInv'
BY DEF IoInv, KeysStay, KeysInOrder

\* io_open
LEMMA OpenIoInv ==
  ASSUME IoInv, NEW kind \in Kinds, NEW readOnly \in BOOLEAN, Open(kind, readOnly)
  PROVE  IoInv'
<1>1. Users \subseteq Ids /\ 0 \in Ids
  BY ArcIoAssumption DEF Users, Ids, ArcIoAssumption
<1>2. FileTables' /\ last'.op = "open" /\ last'.fd \in Ids
  <2>1. CASE UNCHANGED <<fds, instances>>
    <3>1. FileTables'
      BY <2>1, EndsKeeps DEF IoInv
    <3>2. last'.op = "open" /\ last'.fd \in Ids
      <4>1. CASE FreeIds = {} \/ kind = "nodev"
        BY <1>1, <4>1 DEF Open, Ends
      <4>2. CASE FreeIds # {} /\ kind # "nodev"
        <5>1. PICK o \in OpenOutcomes(kind, readOnly) :
                     /\ instances' = o.inst /\ fds' = IF o.fd = 0 THEN fds ELSE [fds EXCEPT ![o.fd] = o.file]
                     /\ Ends("open", o.fd, o.status)
          BY <4>2 DEF Open
        <5> QED
          BY <1>1, <4>2, <5>1, OutcomeKeeps DEF IoInv, Ends
      <4> QED
        BY <4>1, <4>2
    <3> QED
      BY <3>1, <3>2
  <2>2. CASE ~UNCHANGED <<fds, instances>>
    <3>1. FreeIds # {}
      BY <2>2 DEF Open
    <3>2. PICK o \in OpenOutcomes(kind, readOnly) :
                 /\ instances' = o.inst /\ fds' = IF o.fd = 0 THEN fds ELSE [fds EXCEPT ![o.fd] = o.file]
                 /\ Ends("open", o.fd, o.status)
      BY <2>2 DEF Open
    <3> QED
      BY <1>1, <3>1, <3>2, OutcomeKeeps DEF IoInv, Ends
  <2> QED
    BY <2>1, <2>2
<1>3. KeysStay /\ loader' = 0
  BY DEF Open, KeysStay
<1> QED
  BY <1>2, <1>3, CallKeeps DEF SeekArrives, LoaderIsOpen

\* io_close
LEMMA CloseIoInv ==
  ASSUME IoInv, NEW fd \in Ids, Close(fd)
  PROVE  IoInv'
<1>1. KeysStay /\ loader' = 0 /\ last'.op = "close" /\ last'.fd \in Ids
  BY DEF Close, KeysStay, Ends
<1>2. FileTables'
  <2>1. CASE UNCHANGED <<fds, instances>>
    BY <2>1, EndsKeeps DEF IoInv
  <2>2. CASE ~UNCHANGED <<fds, instances>>
    <3>1. /\ fds[fd].open /\ fd \in Users /\ instances' = ClosedInst(fd)
          /\ fds' = [fds EXCEPT ![fd].open = FALSE]
      BY <2>2, ArcIoAssumption DEF Close, Ids, Users, ArcIoAssumption
    <3>2. PICK file : file = [fds[fd] EXCEPT !.open = FALSE]
      OBVIOUS
    <3>3. file \in Slots /\ ~file.open /\ fds' = [fds EXCEPT ![fd] = file]
      BY <3>1, <3>2 DEF IoInv, FileTables, Slots
    <3> QED
      BY <3>1, <3>3, CloseKeeps DEF IoInv
  <2> QED
    BY <2>1, <2>2
<1> QED
  BY <1>1, <1>2, CallKeeps DEF SeekArrives, LoaderIsOpen

\* Read and Write
LEMMA TransferIoInv ==
  ASSUME IoInv, NEW fd \in Users, NEW n \in 1 .. 2, Read(fd, n) \/ Write(fd, n)
  PROVE  IoInv'
<1>1. n \in Nat /\ Users \subseteq Ids
  BY DEF Users, Ids
<1>2. FileTables' /\ last'.op \in {"read", "write"} /\ last'.fd = fd
  BY <1>1, TransferKeeps DEF IoInv, Read, Write
<1>3. KeysStay /\ loader' = 0
  BY DEF Read, Write, KeysStay
<1> QED
  BY <1>1, <1>2, <1>3, CallKeeps DEF SeekArrives, LoaderIsOpen

\* Seek
LEMMA SeekIoInv ==
  ASSUME IoInv, NEW fd \in Users, NEW hi \in 0 .. Word - 1, NEW lo \in 0 .. Word - 1, NEW relative \in BOOLEAN,
         Seek(fd, hi, lo, relative)
  PROVE  IoInv'
<1>1. PICK to, off : /\ to = Target(fds[fd], hi, lo, relative)
                     /\ off = ((IF relative THEN Pos(fds[fd]) ELSE 0) + hi * Word + lo) % (Word * Word)
  OBVIOUS
<1>2. fds[fd].hi \in 0 .. Word - 1 /\ fds[fd].lo \in 0 .. Word - 1 /\ fd \in Ids
  BY DEF IoInv, FileTables, Slots, Users, Ids
<1>3. to \in 0 .. Word * Word - 1 /\ to = off
  BY <1>1, <1>2, TargetIsSum
<1>4. fds[fd].open /\ SeekTo(fd, to, off) /\ KeysStay /\ loader' = 0
  BY <1>1 DEF Seek, KeysStay
<1>5. Seeks(fd, to, off)
  BY <1>3, <1>4, SeekToKeeps DEF IoInv
<1>6. SeekArrives'
  BY <1>3, <1>5 DEF Seeks, SeekArrives, Pos
<1> QED
  BY <1>2, <1>4, <1>5, <1>6, CallKeeps DEF Seeks, LoaderIsOpen

\* load_image's calls
LEMMA LoadingIoInv ==
  ASSUME IoInv, Loading
  PROVE  IoInv'
<1>1. Users \subseteq Ids /\ 0 \in Ids /\ {"cd", "diskfile"} \subseteq Kinds
  BY ArcIoAssumption DEF Users, Ids, Kinds, ArcIoAssumption
<1>2. ASSUME NEW kind \in {"cd", "diskfile"}, LoadOpen(kind) PROVE IoInv'
  <2>1. PICK o \in OpenOutcomes(kind, TRUE) :
               /\ instances' = o.inst /\ fds' = IF o.fd = 0 THEN fds ELSE [fds EXCEPT ![o.fd] = o.file]
               /\ loader' = o.fd /\ Ends("load", o.fd, o.status)
    BY <1>2 DEF LoadOpen
  <2>2. FileTables' /\ o.fd \in {0} \cup Users /\ (o.fd # 0 => fds'[o.fd].open)
    BY <1>1, <1>2, <2>1, OutcomeKeeps DEF IoInv, LoadOpen
  <2>3. KeysStay /\ last'.op = "load" /\ last'.fd = o.fd
    BY <1>2, <2>1 DEF LoadOpen, KeysStay, Ends
  <2> QED
    BY <1>1, <2>1, <2>2, <2>3, CallKeeps DEF SeekArrives, LoaderIsOpen
<1>3. ASSUME LoadSeek PROVE IoInv'
  <2>1. loader \in Users /\ fds[loader].open
    BY <1>3 DEF LoadSeek, IoInv, LoaderIsOpen
  <2>2. PICK to \in 0 .. Word - 1 : SeekTo(loader, to, to)
    BY <1>3 DEF LoadSeek
  <2>3. to \in 0 .. Word * Word - 1
    <3>1. Word \in Nat /\ Word > 1
      BY ArcIoAssumption DEF ArcIoAssumption
    <3>2. 1 * Word <= Word * Word
      BY <3>1, FewerTimes
    <3> QED
      BY <3>1, <3>2
  <2>4. Seeks(loader, to, to)
    BY <2>1, <2>2, <2>3, SeekToKeeps DEF IoInv
  <2>5. KeysStay /\ loader' = loader
    BY <1>3 DEF LoadSeek, KeysStay
  <2>6. SeekArrives' /\ LoaderIsOpen'
    BY <2>4, <2>5 DEF Seeks, SeekArrives, LoaderIsOpen, Pos
  <2> QED
    BY <1>1, <2>1, <2>4, <2>5, <2>6, CallKeeps DEF Seeks
<1>4. ASSUME LoadRead PROVE IoInv'
  <2>1. loader \in Users /\ Transfer("read", loader, 1) /\ KeysStay /\ loader' = loader
    BY <1>4 DEF LoadRead, IoInv, KeysStay
  <2>2. FileTables' /\ fds'[loader].open /\ last'.op = "read" /\ last'.fd = loader
    BY <2>1, TransferKeeps DEF IoInv
  <2> QED
    BY <1>1, <2>1, <2>2, CallKeeps DEF SeekArrives, LoaderIsOpen
<1>5. ASSUME LoadClose PROVE IoInv'
  <2>1. loader \in Users /\ loader' = 0 /\ KeysStay /\ last'.op = "loaded" /\ last'.fd = 0
    BY <1>5 DEF LoadClose, IoInv, KeysStay, Ends
  <2>2. FileTables'
    <3>1. CASE fds[loader].open
      <4>1. PICK file : file = [fds[loader] EXCEPT !.open = FALSE]
        OBVIOUS
      <4>2. file \in Slots /\ ~file.open /\ fds' = [fds EXCEPT ![loader] = file] /\ instances' = ClosedInst(loader)
        BY <1>1, <1>5, <2>1, <3>1, <4>1 DEF IoInv, FileTables, Slots, LoadClose
      <4> QED
        BY <2>1, <3>1, <4>2, CloseKeeps DEF IoInv
    <3>2. CASE ~fds[loader].open
      BY <1>5, <3>2, EndsKeeps DEF IoInv, LoadClose
    <3> QED
      BY <3>1, <3>2
  <2> QED
    BY <1>1, <2>1, <2>2, CallKeeps DEF SeekArrives, LoaderIsOpen
<1> QED
  BY <1>2, <1>3, <1>4, <1>5 DEF Loading

\* The console's calls: keys are handed on in the order they come.
LEMMA KeyboardIoInv ==
  ASSUME IoInv, Keyboard
  PROVE  IoInv'
<1>1. /\ FileTables' /\ loader' = 0 /\ last'.fd = 0 /\ last'.op \in {"read", "status"}
  <2>1. UNCHANGED <<fds, instances>> /\ loader' = 0 /\ last'.fd = 0 /\ last'.op \in {"read", "status"}
    <3>1. CASE ReadKey
      BY <3>1 DEF Keyboard, ReadKey, Ends
    <3>2. CASE GetReadStatus
      <4>1. UNCHANGED <<fds, instances, loader>> /\ Ends("status", 0, last'.status)
        BY <3>2 DEF GetReadStatus, Ends
      <4> QED
        BY <4>1 DEF Keyboard, Ends
    <3> QED
      BY <3>1, <3>2 DEF Keyboard
  <2> QED
    BY <2>1, EndsKeeps DEF IoInv
<1>2. 0 \in Ids /\ MaxKeys \in Nat
  BY ArcIoAssumption DEF Ids, ArcIoAssumption
<1>3. typed \in Nat /\ pending \in Nat /\ taken \in Seq(Nat) /\ Len(taken) \in Nat
  BY <1>2 DEF IoInv
<1>4. /\ typed' \in 0 .. MaxKeys /\ pending' \in 0 .. MaxKeys /\ taken' \in Seq(Nat)
      /\ KeysInOrder'
  <2>1. CASE ReadKey
    <3>1. PICK fresh \in IF pending = 0 THEN {1} ELSE {0, 1} :
             /\ typed + fresh <= MaxKeys /\ typed' = typed + fresh
             /\ taken' = taken \o (IF pending = 0 THEN <<>> ELSE <<pending>>)
                               \o (IF fresh = 0 THEN <<>> ELSE <<typed + 1>>)
      BY <2>1 DEF ReadKey
    <3>2. pending' = 0
      BY <2>1 DEF ReadKey
    <3>3. PICK first_ \in Seq(Nat) : first_ = taken \o (IF pending = 0 THEN <<>> ELSE <<pending>>)
      <4>1. CASE pending = 0
        <5>1. taken \o <<>> \in Seq(Nat)
          BY <1>3
        <5> QED
          BY <4>1, <5>1
      <4>2. CASE pending # 0
        <5>1. taken \o <<pending>> \in Seq(Nat)
          BY <1>3
        <5> QED
          BY <4>2, <5>1
      <4> QED
        BY <4>1, <4>2
    <3>4. /\ Len(first_) = typed /\ \A k \in 1 .. Len(first_) : first_[k] = k
      <4>1. CASE pending = 0
        <5>1. first_ = taken
          BY <1>3, <3>3, <4>1
        <5> QED
          BY <4>1, <5>1 DEF IoInv, KeysInOrder
      <4>2. CASE pending # 0
        <5>1. first_ = Append(taken, pending)
          BY <1>3, <3>3, <4>2
        <5>2. pending = Len(taken) + 1 /\ typed = Len(taken) + 1
          BY <4>2 DEF IoInv, KeysInOrder
        <5> QED
          BY <1>3, <5>1, <5>2 DEF IoInv, KeysInOrder
      <4> QED
        BY <4>1, <4>2
    <3>5. taken' \in Seq(Nat) /\ Len(taken') = typed' /\ \A k \in 1 .. Len(taken') : taken'[k] = k
      <4>1. CASE fresh = 0
        <5>1. taken' = first_
          BY <3>1, <3>3, <4>1
        <5> QED
          BY <1>3, <3>1, <3>4, <4>1, <5>1
      <4>2. CASE fresh = 1
        <5>1. PICK m \in Nat : m = typed + 1
          BY <1>3
        <5>2. taken' = Append(first_, m)
          BY <3>1, <3>3, <4>2, <5>1
        <5>3. typed' = m
          BY <3>1, <4>2, <5>1
        <5>4. taken' \in Seq(Nat) /\ Len(taken') = Len(first_) + 1 /\ taken'[Len(first_) + 1] = m
              /\ \A k \in 1 .. Len(first_) : taken'[k] = first_[k]
          BY <3>3, <5>2
        <5> QED
          BY <1>3, <3>4, <5>1, <5>3, <5>4
      <4> QED
        BY <3>1, <4>1, <4>2
    <3>6. typed' \in 0 .. MaxKeys /\ typed' = Len(taken') + 0
      <4>1. fresh \in {0, 1} /\ typed + fresh <= MaxKeys /\ typed' = typed + fresh
        BY <3>1
      <4>2. typed' \in 0 .. MaxKeys
        BY <1>2, <1>3, <4>1
      <4>3. PICK m \in Nat : m = Len(taken')
        BY <3>5
      <4>4. typed' = m
        BY <3>5, <4>3
      <4> QED
        BY <4>2, <4>3, <4>4
    <3>7. pending' \in 0 .. MaxKeys
      BY <1>2, <3>2
    <3> QED
      <4>1. typed' = Len(taken') + (IF pending' = 0 THEN 0 ELSE 1)
        BY <3>2, <3>6
      <4>2. pending' # 0 => pending' = typed'
        BY <3>2
      <4> QED
        BY <3>5, <3>6, <3>7, <4>1, <4>2 DEF KeysInOrder
  <2>2. CASE GetReadStatus
    <3>1. UNCHANGED taken
      BY <2>2 DEF GetReadStatus
    <3>2. CASE UNCHANGED <<typed, pending>>
      BY <3>1, <3>2 DEF IoInv, KeysInOrder
    <3>3. CASE pending = 0 /\ typed < MaxKeys /\ typed' = typed + 1 /\ pending' = typed + 1
      BY <1>2, <1>3, <3>1, <3>3 DEF IoInv, KeysInOrder
    <3> QED
      BY <2>2, <3>2, <3>3 DEF GetReadStatus
  <2> QED
    BY <2>1, <2>2 DEF Keyboard
<1> QED
  BY <1>1, <1>2, <1>4 DEF IoInv, SeekArrives, LoaderIsOpen

\* Every step keeps it.
LEMMA NextIoInv == IoInv /\ [Next]_ioVars => IoInv'
<1> SUFFICES ASSUME IoInv, [Next]_ioVars PROVE IoInv'
  OBVIOUS
<1>1. CASE UNCHANGED ioVars
  <2>1. UNCHANGED <<fds, instances, typed, taken, pending, last, loader>>
    BY <1>1 DEF ioVars
  <2>2. FileTables'
    BY <2>1, EndsKeeps DEF IoInv
  <2> QED
    BY <2>1, <2>2 DEF IoInv, SeekArrives, LoaderIsOpen, KeysInOrder, Pos
<1>2. CASE Files
  BY <1>2, OpenIoInv, CloseIoInv, TransferIoInv, SeekIoInv DEF Files
<1> QED
  BY <1>1, <1>2, KeyboardIoInv, LoadingIoInv DEF Next

\* The steps of the calls keep the invariant.
LEMMA IoInvariant == Spec => []IoInv
BY InitIoInv, NextIoInv, PTL DEF Spec

\* What LayersSpec runs is, among others, the calls.
LEMMA LayersRunIo == LayersSpec => Spec
<1>1. LayersInit => Init
  BY DEF LayersInit
<1>2. [LayersNext]_<<layer, ioVars, cursorVars, mountVars, dirVars, isoVars, treeVars, loadVars>> => [Next]_ioVars
  BY DEF LayersNext, Next
<1> QED
  BY <1>1, <1>2, PTL DEF LayersSpec, Spec

\* No call of the firmware's file interface leaks an Open Firmware instance or
\* goes on using one that was closed, for a table of any size and whatever Open
\* Firmware refuses (io.c:60-125, 178-209).
THEOREM FilesOwnTheirInstances == LayersSpec => []InstancesAreOwned
<1>1. IoInv => InstancesAreOwned
  BY DEF IoInv, FileTables
<1> QED
  BY <1>1, IoInvariant, LayersRunIo, PTL

\* Keys reach the caller as they were typed, none lost and none twice, for any
\* number of them (io.c:211-262).
THEOREM KeysReachTheCaller == LayersSpec => []KeysInOrder
<1>1. IoInv => KeysInOrder
  BY DEF IoInv
<1> QED
  BY <1>1, IoInvariant, LayersRunIo, PTL

\* The position the firmware keeps is the instance's own, and a seek that
\* succeeds arrives where it was sent: the halves of a LARGE_INTEGER are added
\* with their carry (io.c:127-209).
THEOREM SeeksArriveWhereSent == LayersSpec => []SeeksArrive
<1>1. IoInv => SeeksArrive
  BY DEF IoInv, FileTables, SeeksArrive
<1> QED
  BY <1>1, IoInvariant, LayersRunIo, PTL

-----------------------------------------------------------------------------
(* The volume (fat.c:141-230). *)

\* While the open is under way, what the cache calls sector 0 is sector 0 of
\* the partition.
CacheIsThePartition == cacheSec # -1 => cacheSec = 0 /\ cacheLba = partLba

VolumeInv ==
  /\ partLba \in Nat
  /\ at \in {"found", "bpb"} => CacheIsThePartition
  /\ Mount!BpbOfPartition

\* Every entry of every table begins at a sector.
TablesAreSound == table \in Tables

\* The entry that bears a number is one of the table's.
LEMMA EntryIsInTable ==
  ASSUME TablesAreSound, NEW n
  PROVE  Mount!EntryOf(n).lba \in Nat
<1> DEFINE entry == {k \in DOMAIN table : Mount!Counts(table[k]) /\ Mount!NumberOf(k) = n}
<1>1. Mount!EntryOf(n) = IF entry = {} THEN [type |-> "none", lba |-> 0] ELSE table[CHOOSE k \in entry : TRUE]
  BY DEF Mount!EntryOf
<1>2. \A k \in DOMAIN table : table[k].lba \in Nat
  BY LayersAssumption DEF TablesAreSound, LayersAssumption, Mount!FatOpenAssumption
<1>3. CASE entry = {}
  BY <1>1, <1>3
<1>4. CASE entry # {}
  <2>1. (CHOOSE k \in entry : TRUE) \in entry
    BY <1>4
  <2> QED
    BY <1>1, <1>2, <1>4, <2>1
<1> QED
  BY <1>3, <1>4

\* Opening a volume keeps it.
LEMMA VolumeKeeps ==
  ASSUME TablesAreSound, VolumeInv, Mount!Next
  PROVE  VolumeInv'
<1>1. ASSUME NEW n \in Parts, Mount!Open(n) PROVE VolumeInv'
  BY <1>1 DEF Mount!Open, VolumeInv, CacheIsThePartition, Mount!BpbOfPartition
<1>2. CASE Mount!FindPartition
  <2>1. Mount!EntryOf(part).lba \in Nat
    BY EntryIsInTable
  <2> QED
    BY <1>2, <2>1 DEF Mount!FindPartition, Mount!Fail, Mount!SectorAfterMount, VolumeInv, CacheIsThePartition, Mount!BpbOfPartition
<1>3. CASE Mount!ReadBpb
  BY <1>3 DEF Mount!ReadBpb, Mount!part_sector, Mount!Fail, VolumeInv, CacheIsThePartition, Mount!BpbOfPartition
<1>4. CASE Mount!Close
  BY <1>4 DEF Mount!Close, VolumeInv, CacheIsThePartition, Mount!BpbOfPartition
<1> QED
  BY <1>1, <1>2, <1>3, <1>4 DEF Mount!Next

-----------------------------------------------------------------------------
(* The directory (fat.c:109-138, 207-230). *)

\* A search runs over sectors the disk has.
SearchIsOnDisk ==
  search.on => search.sec .. search.sec + search.left - 1 \subseteq DOMAIN disk.secs

LookupInv ==
  /\ disk \in Disks
  /\ search \in [on : BOOLEAN, clus : DirClusters \cup {0}, sec : Nat, left : Nat]
  /\ SearchIsOnDisk
  /\ Dir!EndsAtFile
  /\ dir = IF found = Dir!NotFound THEN RootClus ELSE found.clus
  /\ found.is_dir => dir \in DirClusters \cup {0}

\* The sectors of a directory cluster are the disk's.
LEMMA ClusterIsOnDisk ==
  ASSUME NEW d \in Disks, NEW c \in DirClusters
  PROVE  /\ Dir!cluster_sector(c) \in Nat
         /\ Dir!cluster_sector(c) .. Dir!cluster_sector(c) + Spc - 1 \subseteq DOMAIN d.secs
<1>1. /\ RootSecs \in Nat /\ Spc \in Nat /\ c \in Nat /\ c >= 2
      /\ RootSecs + (c - 2) * Spc + 1 .. RootSecs + (c - 1) * Spc \subseteq DOMAIN d.secs
  BY LayersAssumption DEF LayersAssumption, Dir!FatDirAssumption
<1>2. (c - 1) * Spc = (c - 2) * Spc + Spc /\ (c - 2) * Spc \in Nat
  BY <1>1
<1> QED
  BY <1>1, <1>2 DEF Dir!cluster_sector

\* Looking names up keeps it.
LEMMA LookupKeeps ==
  ASSUME LookupInv, Dir!Next
  PROVE  LookupInv'
<1>1. /\ RootSecs \in Nat /\ Spc \in Nat /\ RootClus \in DirClusters \cup {0} /\ 0 \notin DirClusters
      /\ \A c \in DirClusters : disk.next[c] \in DirClusters \cup {0}
      /\ \A s \in DOMAIN disk.secs : \A k \in DOMAIN disk.secs[s] :
            k \in Nat /\ (disk.secs[s][k].kind = "dir" => disk.secs[s][k].clus \in DirClusters)
      /\ 1 .. RootSecs \subseteq DOMAIN disk.secs
  BY LayersAssumption DEF LayersAssumption, Dir!FatDirAssumption, LookupInv
<1>2. ASSUME NEW s, Dir!Return(s), s = "ESUCCESS" => path = <<>> /\ ~found.is_dir PROVE LookupInv'
  BY <1>1, <1>2 DEF Dir!Return, Dir!Idle, LookupInv, SearchIsOnDisk, Dir!EndsAtFile
<1>3. CASE Dir!NextName
  <2>1. CASE path = <<>>
    BY <1>2, <1>3, <2>1 DEF Dir!NextName, Dir!Ending
  <2>2. CASE path # <<>> /\ ~found.is_dir
    BY <1>2, <1>3, <2>2 DEF Dir!NextName
  <2>3. CASE path # <<>> /\ found.is_dir
    <3>1. /\ search' = IF dir # 0 THEN [on |-> TRUE, clus |-> dir, sec |-> Dir!cluster_sector(dir), left |-> Spc]
                       ELSE [on |-> TRUE, clus |-> 0, sec |-> 1, left |-> RootSecs]
          /\ UNCHANGED <<disk, path, dir, found, status>> /\ status = "busy"
      BY <1>3, <2>3 DEF Dir!NextName
    <3>2. dir \in DirClusters \cup {0}
      BY <2>3 DEF LookupInv
    <3>3. SearchIsOnDisk'
      <4>1. CASE dir # 0
        BY <1>1, <3>1, <3>2, <4>1, ClusterIsOnDisk DEF SearchIsOnDisk, LookupInv
      <4>2. CASE dir = 0
        BY <1>1, <3>1, <4>2 DEF SearchIsOnDisk
      <4> QED
        BY <4>1, <4>2
    <3>4. search' \in [on : BOOLEAN, clus : DirClusters \cup {0}, sec : Nat, left : Nat]
      BY <1>1, <3>1, <3>2, ClusterIsOnDisk DEF LookupInv
    <3> QED
      BY <2>3, <3>1, <3>3, <3>4 DEF LookupInv, Dir!EndsAtFile
  <2> QED
    BY <2>1, <2>2, <2>3
<1>4. CASE Dir!ReadSector
  <2>1. status = "busy" /\ search.on /\ search.left > 0
    BY <1>4 DEF Dir!ReadSector
  <2>2. search.sec \in Nat /\ search.left \in Nat /\ search.sec .. search.sec + search.left - 1 \subseteq DOMAIN disk.secs
    BY <2>1 DEF LookupInv, SearchIsOnDisk
  <2>3. search.sec \in DOMAIN disk.secs
    BY <2>1, <2>2
  <2>4. PICK stops : stops = Dir!Stops(disk.secs[search.sec])
    OBVIOUS
  <2>5. CASE stops = {}
    <3>1. search' = [search EXCEPT !.sec = @ + 1, !.left = @ - 1] /\ UNCHANGED <<disk, path, dir, found, status>>
      BY <1>4, <2>4, <2>5 DEF Dir!ReadSector
    <3>2. /\ search'.on = search.on /\ search'.sec = search.sec + 1 /\ search'.left = search.left - 1
          /\ search' \in [on : BOOLEAN, clus : DirClusters \cup {0}, sec : Nat, left : Nat]
      <4>1. search \in [on : BOOLEAN, clus : DirClusters \cup {0}, sec : Nat, left : Nat]
        BY DEF LookupInv
      <4>2. PICK sec, left : sec = search.sec + 1 /\ left = search.left - 1 /\ sec \in Nat /\ left \in Nat
        BY <2>1, <2>2
      <4>3. search' = [search EXCEPT !.sec = sec, !.left = left]
        BY <3>1, <4>2
      <4> QED
        BY <4>1, <4>2, <4>3
    <3>3. SearchIsOnDisk'
      BY <2>1, <2>2, <3>1, <3>2 DEF SearchIsOnDisk
    <3> QED
      BY <3>1, <3>2, <3>3 DEF LookupInv, Dir!EndsAtFile
  <2>6. CASE stops # {}
    <3>1. stops \subseteq DOMAIN disk.secs[search.sec] /\ stops \subseteq Nat
      BY <1>1, <2>3, <2>4 DEF Dir!Stops
    <3>2. PICK e : e = disk.secs[search.sec][Dir!Min(stops)]
      OBVIOUS
    <3>3. e.kind = "dir" => e.clus \in DirClusters
      <4>1. Dir!Min(stops) \in stops
        BY <2>6, <3>1, SmallestExists DEF Dir!Min
      <4> QED
        BY <1>1, <2>3, <3>1, <3>2, <4>1
    <3>4. CASE e.kind = "end"
      BY <1>2, <1>4, <2>4, <2>6, <3>2, <3>4 DEF Dir!ReadSector
    <3>5. CASE e.kind # "end"
      <4>1. /\ found' = [clus |-> e.clus, is_dir |-> e.kind = "dir"]
            /\ dir' = e.clus /\ search' = Dir!Idle /\ UNCHANGED <<disk, status>>
        BY <1>4, <2>4, <2>6, <3>2, <3>5 DEF Dir!ReadSector
      <4>2. found' # Dir!NotFound
        BY <1>1, <3>3, <4>1 DEF Dir!NotFound
      <4> QED
        BY <1>1, <2>1, <3>3, <4>1, <4>2 DEF LookupInv, SearchIsOnDisk, Dir!EndsAtFile, Dir!Idle, Dir!NotFound
    <3> QED
      BY <3>4, <3>5
  <2> QED
    BY <2>5, <2>6
<1>5. CASE Dir!NextSectors
  <2>1. status = "busy" /\ search.on /\ search.clus \in DirClusters \cup {0}
    BY <1>5 DEF Dir!NextSectors, LookupInv, SearchIsOnDisk
  <2>2. CASE search.clus = 0 \/ Dir!NextCluster(search.clus) = 0
    BY <1>2, <1>5, <2>2 DEF Dir!NextSectors
  <2>3. CASE ~ (search.clus = 0 \/ Dir!NextCluster(search.clus) = 0)
    <3>1. PICK c : c = Dir!NextCluster(search.clus)
      OBVIOUS
    <3>2. c \in DirClusters
      BY <1>1, <2>1, <2>3, <3>1 DEF Dir!NextCluster
    <3>3. /\ search' = [on |-> TRUE, clus |-> c, sec |-> Dir!cluster_sector(c), left |-> Spc]
          /\ UNCHANGED <<disk, path, dir, found, status>>
      BY <1>5, <2>3, <3>1 DEF Dir!NextSectors
    <3>4. SearchIsOnDisk'
      BY <1>1, <3>2, <3>3, ClusterIsOnDisk DEF SearchIsOnDisk, LookupInv
    <3>5. search' \in [on : BOOLEAN, clus : DirClusters \cup {0}, sec : Nat, left : Nat]
      BY <1>1, <3>2, <3>3, ClusterIsOnDisk DEF LookupInv
    <3> QED
      BY <2>1, <3>3, <3>4, <3>5 DEF LookupInv, Dir!EndsAtFile
  <2> QED
    BY <2>2, <2>3
<1>6. CASE Dir!Fail
  BY <1>2, <1>6 DEF Dir!Fail
<1> QED
  BY <1>3, <1>4, <1>5, <1>6 DEF Dir!Next

\* The layers begin with it, and each leaves the other's part alone.
LEMMA InitOpenInv == LayersInit => TablesAreSound /\ VolumeInv /\ LookupInv
<1> SUFFICES ASSUME LayersInit PROVE TablesAreSound /\ VolumeInv /\ LookupInv
  OBVIOUS
<1>1. Mount!Init /\ Dir!Init
  BY DEF LayersInit
<1>2. TablesAreSound /\ VolumeInv
  BY <1>1 DEF Mount!Init, TablesAreSound, VolumeInv, CacheIsThePartition, Mount!BpbOfPartition
<1>3. LookupInv
  BY <1>1, LayersAssumption
  DEF LayersAssumption, Dir!FatDirAssumption, Dir!Init, Dir!Idle, Dir!NotFound, Dir!EndsAtFile, LookupInv, SearchIsOnDisk
<1> QED
  BY <1>2, <1>3

\* Every step of every layer keeps it.
LEMMA NextOpenInv ==
  TablesAreSound /\ VolumeInv /\ LookupInv
  /\ [LayersNext]_<<layer, ioVars, cursorVars, mountVars, dirVars, isoVars, treeVars, loadVars>>
  => (TablesAreSound /\ VolumeInv /\ LookupInv)'
<1> SUFFICES ASSUME TablesAreSound, VolumeInv, LookupInv,
                    [LayersNext]_<<layer, ioVars, cursorVars, mountVars, dirVars, isoVars, treeVars, loadVars>>
             PROVE  (TablesAreSound /\ VolumeInv /\ LookupInv)'
  OBVIOUS
<1>1. UNCHANGED mountVars \/ Mount!Next
  BY DEF LayersNext
<1>2. UNCHANGED dirVars \/ Dir!Next
  BY DEF LayersNext
<1>3. TablesAreSound' /\ VolumeInv'
  <2>1. CASE UNCHANGED mountVars
    BY <2>1 DEF mountVars, TablesAreSound, VolumeInv, CacheIsThePartition, Mount!BpbOfPartition
  <2>2. CASE Mount!Next
    <3>1. UNCHANGED table
      BY <2>2 DEF Mount!Next, Mount!Open, Mount!FindPartition, Mount!ReadBpb, Mount!Close
    <3> QED
      BY <2>2, <3>1, VolumeKeeps DEF TablesAreSound
  <2> QED
    BY <1>1, <2>1, <2>2
<1>4. LookupInv'
  <2>1. CASE UNCHANGED dirVars
    BY <2>1 DEF dirVars, LookupInv, SearchIsOnDisk, Dir!EndsAtFile
  <2> QED
    BY <1>2, <2>1, LookupKeeps
<1> QED
  BY <1>3, <1>4

\* fat_open takes its parameters from the partition that was asked for, though
\* the sector is one the cache may hold, and ends at a file and never by way of
\* one, for every table, every disk and every path (fat.c:141-230).
THEOREM VolumesAreOpened == LayersSpec => []OpensTheVolume
<1>1. TablesAreSound /\ VolumeInv /\ LookupInv => OpensTheVolume
  BY DEF VolumeInv, LookupInv, OpensTheVolume
<1> QED
  BY <1>1, InitOpenInv, NextOpenInv, PTL DEF LayersSpec

-----------------------------------------------------------------------------
(* load_image (load.c:100-260). *)

Stages == {"idle", "open", "headers", "claim", "table", "section", "placed"}
Callers == {"main", "arc_Load", "arc_Execute"}

\* What everything of the loader is.
LoadTypes ==
  /\ call \in [stage : Stages, program : Programs \cup {Loader!NoProgram}, by : Callers,
               section : Nat, fault : BOOLEAN, free : BOOLEAN]
  /\ call.stage # "idle" => call.program \in Programs
  /\ loaded \in Seq(Programs)
  /\ DOMAIN ram = Loader!Memory
  /\ fileBase \in Nat /\ isOpen \in BOOLEAN
  /\ Loader!LoadTypeOK

\* The file is open just while load_image reads it, and a CD's is read from
\* its first byte on.
FileInv ==
  /\ isOpen <=> (call.stage \in {"headers", "claim", "table", "section"})
  /\ call.stage = "open" => fileBase = 0
  /\ call.stage \in {"headers", "claim", "table", "section"} => fileBase = Loader!Origin(call.program)

\* The pages of the image that is being placed are its own.
PagesInv ==
  call.stage \in {"table", "section"} =>
    /\ Loader!Pages(call.program) \subseteq claimed /\ noted = Loader!Pages(call.program)
    /\ \A k \in 1 .. Len(loaded) : Loader!Pages(call.program) \cap Loader!Pages(loaded[k]) = {}

\* The first n sections of p are in memory, and 0 elsewhere.
PlacedTo(p, n) ==
  \A b \in 0 .. p.size - 1 :
    /\ \A k \in 1 .. n : b \in Loader!Extent(p.sections[k]) => ram[p.base + b] = <<p.name, p.sections[k].roff + b - p.sections[k].va>>
    /\ (\A k \in 1 .. n : b \notin Loader!Extent(p.sections[k])) => ram[p.base + b] = Loader!Zero

SectionsInv ==
  /\ call.stage = "table" => PlacedTo(call.program, 0)
  /\ call.stage = "section" => /\ call.section \in 1 .. Len(call.program.sections) + 1
                               /\ PlacedTo(call.program, call.section - 1)
                               /\ Len(call.program.sections) <= MaxSections

\* main() loads the first image and nobody else does, and what is to be
\* returned from has been placed.
CallersInv ==
  /\ call.stage # "idle" => (call.by = "main" <=> running = "arcfw")
  /\ running = "halted" => call.stage = "idle"
  /\ running = "arcfw" => loaded = IF call.stage = "placed" THEN <<call.program>> ELSE <<>>
  /\ running = "arcfw" /\ call.stage = "placed" => noted = Loader!Pages(call.program)
  /\ call.stage = "placed" => \E k \in 1 .. Len(loaded) : loaded[k] = call.program
  /\ Loader!EntersTheLoaded

\* How the call will end, as far as it is known.
EndingInv ==
  /\ call.stage # "idle" => ~call.fault
  /\ call.stage \in {"open", "headers", "claim"} /\ call.free => Loader!Pages(call.program) \cap claimed = {}
  /\ call.stage = "placed" => loadStatus = "ESUCCESS"
  /\ Loader!LoadIsDecided

LoadInv == LoadTypes /\ FileInv /\ PagesInv /\ SectionsInv /\ CallersInv /\ EndingInv /\ Loader!ImageIsPlaced

-----------------------------------------------------------------------------
(* Images and pages. *)

\* What the assumption says of one image.
LEMMA ImageIsSound ==
  ASSUME NEW p \in Programs
  PROVE  /\ p.name \notin {"arcfw", "halted"} /\ p.cd \in BOOLEAN
         /\ p.base \in Nat /\ p.size \in Nat /\ p.start \in Nat /\ p.length \in Nat
         /\ p.sections \in Seq([va : Nat, vsize : Nat, rsize : Nat, roff : Nat])
         /\ \A j, k \in 1 .. Len(p.sections) : j # k => Loader!Extent(p.sections[j]) \cap Loader!Extent(p.sections[k]) = {}
         /\ Loader!Origin(p) \in Nat
BY LayersAssumption DEF LayersAssumption, Loader!ArcLoadAssumption, Loader!Origin

\* An image lies in memory, and its bytes are the addresses of its span.
LEMMA SpanIsMemory ==
  ASSUME NEW p \in Programs
  PROVE  /\ Loader!Span(p) \subseteq Loader!Memory
         /\ \A b \in 0 .. p.size - 1 : p.base + b \in Loader!Span(p)
         /\ \A a \in Loader!Span(p) : a \in Nat
<1>1. Loader!Span(p) \subseteq Loader!Memory
  BY DEF Loader!Memory
<1> QED
  BY <1>1, ImageIsSound DEF Loader!Span

\* Images without a page in common have no byte in common.
LEMMA PagesApart ==
  ASSUME NEW p, NEW q, Loader!Pages(p) \cap Loader!Pages(q) = {}
  PROVE  Loader!Span(p) \cap Loader!Span(q) = {}
BY DEF Loader!Pages

\* Where a section's data lies is where it is both in the file and in memory.
LEMMA ExtentIs ==
  ASSUME NEW s \in [va : Nat, vsize : Nat, rsize : Nat, roff : Nat], NEW b \in Nat
  PROVE  /\ Loader!InMemory(s) \in Nat
         /\ b \in Loader!Extent(s) <=> (s.roff # 0 /\ b >= s.va /\ b < s.va + s.rsize /\ (s.vsize = 0 \/ b < s.va + s.vsize))
BY DEF Loader!Extent, Loader!InMemory

\* An image all of whose sections are placed is what the linker meant.
LEMMA PlacedIsMeant ==
  ASSUME NEW p \in Programs, PlacedTo(p, Len(p.sections)), NEW b \in 0 .. p.size - 1
  PROVE  ram[p.base + b] = Loader!Meant(p, b)
<1> DEFINE covers == {k \in 1 .. Len(p.sections) :
                        p.sections[k].roff # 0 /\ b >= p.sections[k].va /\ b < p.sections[k].va + p.sections[k].rsize
                        /\ (p.sections[k].vsize = 0 \/ b < p.sections[k].va + p.sections[k].vsize)}
           k0 == CHOOSE k \in covers : TRUE
<1>1. \A k \in 1 .. Len(p.sections) : p.sections[k] \in [va : Nat, vsize : Nat, rsize : Nat, roff : Nat]
  <2>1. p.sections \in Seq([va : Nat, vsize : Nat, rsize : Nat, roff : Nat])
    BY ImageIsSound
  <2> QED
    BY <2>1, ElementOfSeq
<1>2. b \in Nat
  BY ImageIsSound
<1>3. Loader!Meant(p, b) = IF covers = {} THEN Loader!Zero ELSE <<p.name, p.sections[k0].roff + b - p.sections[k0].va>>
  BY Zenon DEF Loader!Meant
<1>4. \A k \in 1 .. Len(p.sections) : b \in Loader!Extent(p.sections[k]) <=> k \in covers
  BY <1>1, <1>2, ExtentIs
<1> HIDE DEF covers
<1>5. CASE covers = {}
  BY <1>3, <1>4, <1>5 DEF PlacedTo
<1>6. CASE covers # {}
  <2>1. k0 \in covers
    BY <1>6
  <2>2. k0 \in 1 .. Len(p.sections)
    BY <2>1 DEF covers
  <2> HIDE DEF k0
  <2> QED
    BY <1>3, <1>4, <1>6, <2>1, <2>2 DEF PlacedTo
<1> QED
  BY <1>5, <1>6

-----------------------------------------------------------------------------
(* The steps of load_image. *)

\* The images that were placed stay as they are while their bytes do.
LEMMA ImagesStay ==
  ASSUME Loader!ImageIsPlaced, UNCHANGED <<ram, dirty, loaded>>, claimed \subseteq claimed'
  PROVE  Loader!ImageIsPlaced'
<1>1. \A k \in 1 .. Len(loaded) :
        /\ \A b \in 0 .. loaded[k].size - 1 : ram[loaded[k].base + b] = Loader!Meant(loaded[k], b)
        /\ Loader!Span(loaded[k]) \cap dirty = {} /\ Loader!Pages(loaded[k]) \subseteq claimed
  BY Zenon DEF Loader!ImageIsPlaced
<1> QED
  BY <1>1 DEF Loader!ImageIsPlaced, Loader!Span, Loader!Pages

\* A call that fails closes the file and leaves what was placed.
LEMMA OutKeeps ==
  ASSUME LoadInv, call.stage \in {"open", "headers", "claim", "table", "section"},
         NEW s, s # "ESUCCESS", NEW fault \in BOOLEAN, Loader!OutOf(s, fault),
         ~fault /\ call.free => ~Loader!Sound(call.program),
         UNCHANGED <<fileBase, ram, dirty, noted, described, loaded>>, claimed \subseteq claimed'
  PROVE  LoadInv'
<1> USE DEF LoadInv
<1>1. /\ call' \in [stage : Stages, program : Programs \cup {Loader!NoProgram}, by : Callers,
                    section : Nat, fault : BOOLEAN, free : BOOLEAN]
      /\ call'.stage = "idle" /\ call'.program = call.program /\ call'.by = call.by
      /\ call'.fault = fault /\ call'.free = call.free
  BY DEF Loader!OutOf, LoadTypes, Stages
<1>2. isOpen' = FALSE /\ loadStatus' = s /\ running' = IF call.by = "main" THEN "halted" ELSE running
  BY DEF Loader!OutOf
<1>3. LoadTypes'
  BY <1>1, <1>2 DEF LoadTypes, Loader!LoadTypeOK, Loader!Memory, Loader!Span, Stages
<1>3a. ~isOpen' /\ call'.stage = "idle"
  BY <1>1, <1>2
<1>4. FileInv'
  BY <1>3a DEF FileInv
<1>7. PagesInv'
  BY <1>1 DEF PagesInv
<1>8. SectionsInv'
  BY <1>1 DEF SectionsInv
<1>5. CallersInv'
  BY <1>1, <1>2 DEF CallersInv, Loader!EntersTheLoaded, Loader!Pages
<1>6. EndingInv'
  BY <1>1, <1>2 DEF EndingInv, Loader!LoadIsDecided, Loader!Sound
<1> QED
  BY <1>3, <1>4, <1>5, <1>6, <1>7, <1>8, ImagesStay

\* The call begins.
LEMMA BeginKeeps ==
  ASSUME LoadInv, NEW p \in Programs, NEW by \in Callers, by = "main" <=> running = "arcfw", Loader!load_image(p, by)
  PROVE  LoadInv'
<1> USE DEF LoadInv
<1>1. /\ call.stage = "idle" /\ running # "halted"
      /\ call' = [Loader!Idle EXCEPT !.stage = "open", !.program = p, !.by = by, !.free = Loader!Pages(p) \cap claimed = {}]
      /\ fileBase' = 0 /\ loadStatus' = "none"
      /\ UNCHANGED <<isOpen, ram, dirty, claimed, noted, described, loaded, running>>
  BY DEF Loader!load_image, Loader!At, Loader!BaseAtFirst
<1>2. call' = [stage |-> "open", program |-> p, by |-> by, section |-> 0, fault |-> FALSE, free |-> (Loader!Pages(p) \cap claimed = {})]
  BY <1>1 DEF Loader!Idle
<1>7. call' \in [stage : Stages, program : Programs \cup {Loader!NoProgram}, by : Callers,
                    section : Nat, fault : BOOLEAN, free : BOOLEAN]
  BY <1>2 DEF Stages
<1>8. call'.stage = "open" /\ call'.program = p /\ call'.by = by /\ call'.fault = FALSE
      /\ call'.free = (Loader!Pages(p) \cap claimed = {})
  BY <1>2
<1>3. LoadTypes'
  BY <1>1, <1>7, <1>8 DEF LoadTypes, Loader!LoadTypeOK, Loader!Memory, Loader!Span, Stages
<1>4. FileInv' /\ PagesInv' /\ SectionsInv'
  BY <1>1, <1>8 DEF FileInv, PagesInv, SectionsInv
<1>5. CallersInv'
  BY <1>1, <1>8 DEF CallersInv, Loader!EntersTheLoaded, Loader!Pages
<1>6. EndingInv'
  BY <1>1, <1>8 DEF EndingInv, Loader!LoadIsDecided, Loader!Sound, Loader!Pages, Loader!Span, FileInv
<1> QED
  BY <1>1, <1>3, <1>4, <1>5, <1>6, ImagesStay

\* A stage is left for the next one, which is not that of the sections.
LEMMA GoingIs ==
  ASSUME LoadTypes, NEW stage \in Stages, Loader!Going(stage)
  PROVE  /\ call' \in [stage : Stages, program : Programs \cup {Loader!NoProgram}, by : Callers,
                       section : Nat, fault : BOOLEAN, free : BOOLEAN]
         /\ call'.stage = stage /\ call'.program = call.program /\ call'.by = call.by
         /\ call'.section = call.section /\ call'.fault = call.fault /\ call'.free = call.free
BY DEF LoadTypes, Loader!Going

\* The file is opened.
LEMMA OpenKeeps ==
  ASSUME LoadInv, Loader!Open
  PROVE  LoadInv'
<1> USE DEF LoadInv
<1>1. /\ call.stage = "open" /\ running # "halted" /\ isOpen'
      /\ fileBase' = IF call.program.cd THEN call.program.start ELSE fileBase
      /\ UNCHANGED <<ram, dirty, loadStatus, claimed, noted, described, loaded, running>>
  BY DEF Loader!Open, Loader!At, Loader!Untouched
<1>2. /\ call' \in [stage : Stages, program : Programs \cup {Loader!NoProgram}, by : Callers,
                       section : Nat, fault : BOOLEAN, free : BOOLEAN]
      /\ call'.stage = "headers" /\ call'.program = call.program /\ call'.by = call.by
      /\ call'.fault = call.fault /\ call'.free = call.free
  BY GoingIs DEF Loader!Open, Stages
<1>3. call.program \in Programs /\ isOpen' = TRUE
  BY <1>1 DEF LoadTypes, Loader!Open
<1>4. fileBase' = Loader!Origin(call.program)
  BY <1>1, <1>3 DEF FileInv, Loader!Origin
<1>5. LoadTypes'
  BY <1>1, <1>2, <1>3, <1>4, ImageIsSound DEF LoadTypes, Loader!LoadTypeOK, Loader!Memory, Loader!Span, Stages
<1>6. FileInv' /\ PagesInv' /\ SectionsInv'
  BY <1>1, <1>2, <1>3, <1>4 DEF FileInv, PagesInv, SectionsInv, Loader!Origin
<1>7. CallersInv'
  BY <1>1, <1>2 DEF CallersInv, Loader!EntersTheLoaded, Loader!Pages
<1>8. EndingInv'
  BY <1>1, <1>2 DEF EndingInv, Loader!LoadIsDecided, Loader!Sound, Loader!Pages, Loader!Span
<1> QED
  BY <1>1, <1>5, <1>6, <1>7, <1>8, ImagesStay

\* A call of Open Firmware fails.
LEMMA FailsKeeps ==
  ASSUME LoadInv, Loader!Fails
  PROVE  LoadInv'
<1>1. call.stage \in {"open", "headers", "claim", "table", "section"}
  BY DEF Loader!Fails, Loader!At
<1>2. PICK s \in {"ENOENT", "EIO"} : Loader!OutOf(s, TRUE)
  BY DEF Loader!Fails
<1> QED
  BY <1>1, <1>2, OutKeeps DEF Loader!Fails

\* The headers are refused only if the image is not sound.
LEMMA HeadersKeeps ==
  ASSUME LoadInv, Loader!Headers
  PROVE  LoadInv'
<1> USE DEF LoadInv
<1>1. /\ call.stage = "headers" /\ running # "halted"
      /\ UNCHANGED <<fileBase, ram, dirty, claimed, noted, described, loaded>>
  BY DEF Loader!Headers, Loader!At
<1>2. call.program \in Programs /\ fileBase = Loader!Origin(call.program)
  BY <1>1 DEF LoadTypes, FileInv
<1>3. Loader!ByteAt(call.program, 0, 0)[2] = 0
  BY <1>2, ImageIsSound DEF Loader!ByteAt
<1>4. CASE call.program.header \in {"coff", "pe"}
  <2>1. Loader!Going("claim") /\ UNCHANGED <<isOpen, loadStatus, running>>
    BY <1>3, <1>4 DEF Loader!Headers
  <2>2. /\ call' \in [stage : Stages, program : Programs \cup {Loader!NoProgram}, by : Callers,
                         section : Nat, fault : BOOLEAN, free : BOOLEAN]
        /\ call'.stage = "claim" /\ call'.program = call.program /\ call'.by = call.by
        /\ call'.fault = call.fault /\ call'.free = call.free
    BY <2>1, GoingIs DEF Stages
  <2>3. LoadTypes'
    BY <1>1, <1>2, <2>1, <2>2 DEF LoadTypes, Loader!LoadTypeOK, Loader!Memory, Loader!Span, Stages
  <2>4. FileInv' /\ PagesInv' /\ SectionsInv'
    BY <1>1, <1>2, <2>1, <2>2 DEF FileInv, PagesInv, SectionsInv, Loader!Origin
  <2>5. CallersInv'
    BY <1>1, <2>1, <2>2 DEF CallersInv, Loader!EntersTheLoaded, Loader!Pages
  <2>6. EndingInv'
    BY <1>1, <2>1, <2>2 DEF EndingInv, Loader!LoadIsDecided, Loader!Sound, Loader!Pages, Loader!Span
  <2> QED
    BY <1>1, <2>3, <2>4, <2>5, <2>6, ImagesStay
<1>5. CASE call.program.header \notin {"coff", "pe"}
  <2>1. Loader!OutOf("ENOEXEC", FALSE)
    BY <1>5 DEF Loader!Headers, Loader!Out
  <2> QED
    BY <1>1, <1>5, <2>1, OutKeeps DEF Loader!Sound
<1> QED
  BY <1>4, <1>5

\* What is written elsewhere leaves the images that were placed.
LEMMA OthersStay ==
  ASSUME Loader!ImageIsPlaced, loaded \in Seq(Programs), NEW A,
         \A k \in 1 .. Len(loaded) : A \cap Loader!Span(loaded[k]) = {},
         \A a \in Loader!Memory \ A : ram'[a] = ram[a],
         dirty' \subseteq dirty \cup A, claimed \subseteq claimed', loaded' = loaded
  PROVE  Loader!ImageIsPlaced'
<1>1. \A k \in 1 .. Len(loaded) :
        /\ \A b \in 0 .. loaded[k].size - 1 : ram[loaded[k].base + b] = Loader!Meant(loaded[k], b)
        /\ Loader!Span(loaded[k]) \cap dirty = {} /\ Loader!Pages(loaded[k]) \subseteq claimed
  BY Zenon DEF Loader!ImageIsPlaced
<1>2. \A k \in 1 .. Len(loaded) : loaded[k] \in Programs
  BY ElementOfSeq
<1>3. \A k \in 1 .. Len(loaded) : \A b \in 0 .. loaded[k].size - 1 :
        loaded[k].base + b \in Loader!Memory \ A
  BY <1>2, SpanIsMemory
<1>4. \A k \in 1 .. Len(loaded) :
        /\ \A b \in 0 .. loaded[k].size - 1 : ram'[loaded[k].base + b] = Loader!Meant(loaded[k], b)
        /\ Loader!Span(loaded[k]) \cap dirty' = {} /\ Loader!Pages(loaded[k]) \subseteq claimed'
  BY <1>1, <1>3
<1> QED
  BY <1>4 DEF Loader!ImageIsPlaced, Loader!Span, Loader!Pages

\* The pages are claimed and their bytes are 0, or the call fails.
LEMMA ClaimKeeps ==
  ASSUME LoadInv, Loader!Claim
  PROVE  LoadInv'
<1> USE DEF LoadInv
<1> DEFINE p == call.program
<1>1. /\ call.stage = "claim" /\ running # "halted" /\ UNCHANGED <<fileBase, described, loaded>>
  BY DEF Loader!Claim, Loader!At
<1>2. p \in Programs
  BY <1>1 DEF LoadTypes
<1>3. CASE /\ Loader!Pages(p) \cap claimed = {}
           /\ claimed' = claimed \cup Loader!Pages(p) /\ noted' = Loader!Pages(p)
           /\ ram' = [a \in Loader!Memory |-> IF a \in Loader!Span(p) THEN Loader!Zero ELSE ram[a]]
           /\ dirty' = dirty \cup Loader!Span(p)
           /\ Loader!Going("table") /\ UNCHANGED <<isOpen, loadStatus, running>>
  <2>1. /\ call' \in [stage : Stages, program : Programs \cup {Loader!NoProgram}, by : Callers,
                         section : Nat, fault : BOOLEAN, free : BOOLEAN]
        /\ call'.stage = "table" /\ call'.program = p /\ call'.by = call.by
        /\ call'.fault = call.fault /\ call'.free = call.free
    BY <1>3, GoingIs DEF Stages
  <2>2. \A k \in 1 .. Len(loaded) : Loader!Pages(loaded[k]) \subseteq claimed
    BY Zenon DEF Loader!ImageIsPlaced
  <2>3. \A k \in 1 .. Len(loaded) : Loader!Pages(p) \cap Loader!Pages(loaded[k]) = {}
    BY <1>3, <2>2
  <2>4. Loader!Memory' = Loader!Memory
    BY DEF Loader!Memory, Loader!Span
  <2>5. LoadTypes'
    <3>1. dirty' \subseteq Loader!Memory /\ noted' \subseteq claimed' /\ described' \subseteq claimed' /\ DOMAIN ram' = Loader!Memory
      BY <1>1, <1>2, <1>3, SpanIsMemory DEF LoadTypes, Loader!LoadTypeOK
    <3> QED
      BY <1>1, <1>2, <1>3, <2>1, <2>4, <3>1 DEF LoadTypes, Loader!LoadTypeOK, Stages
  <2>6. FileInv' /\ PagesInv'
    BY <1>1, <1>3, <2>1, <2>3 DEF FileInv, PagesInv, Loader!Origin, Loader!Pages, Loader!Span
  <2>7. PlacedTo(p, 0)'
    BY <1>2, <1>3, <2>1, SpanIsMemory DEF PlacedTo, Loader!Zero
  <2>8. SectionsInv'
    BY <2>1, <2>7 DEF SectionsInv, PlacedTo
  <2>9. CallersInv'
    BY <1>1, <1>3, <2>1 DEF CallersInv, Loader!EntersTheLoaded, Loader!Pages
  <2>10. EndingInv'
    BY <1>1, <1>3, <2>1 DEF EndingInv, Loader!LoadIsDecided, Loader!Sound
  <2>11. Loader!ImageIsPlaced'
    <3>1. \A k \in 1 .. Len(loaded) : Loader!Span(p) \cap Loader!Span(loaded[k]) = {}
      BY <2>3, PagesApart
    <3>2. \A a \in Loader!Memory \ Loader!Span(p) : ram'[a] = ram[a]
      BY <1>3
    <3>3. loaded \in Seq(Programs)
      BY DEF LoadTypes
    <3> QED
      BY <1>1, <1>3, <3>1, <3>2, <3>3, OthersStay
  <2> QED
    BY <2>5, <2>6, <2>8, <2>9, <2>10, <2>11
<1>4. CASE /\ \/ Loader!Pages(p) \cap claimed # {} /\ UNCHANGED claimed
              \/ Loader!Pages(p) \cap claimed = {} /\ claimed' = claimed \cup Loader!Pages(p)
           /\ Loader!OutOf("ENOMEM", Loader!Pages(p) \cap claimed = {})
           /\ UNCHANGED <<noted, ram, dirty>>
  <2> DEFINE fault == Loader!Pages(p) \cap claimed = {}
  <2>1. ~fault => ~call.free
    BY <1>1 DEF EndingInv
  <2>2. fault \in BOOLEAN /\ Loader!OutOf("ENOMEM", fault) /\ claimed \subseteq claimed'
    BY <1>4
  <2> HIDE DEF fault
  <2> QED
    BY <1>1, <1>4, <2>1, <2>2, OutKeeps
<1> QED
  BY <1>3, <1>4 DEF Loader!Claim

\* A table that fits is read.
LEMMA TableKeeps ==
  ASSUME LoadInv, Loader!Table
  PROVE  LoadInv'
<1> USE DEF LoadInv
<1>1. /\ call.stage = "table" /\ running # "halted"
      /\ UNCHANGED <<fileBase, ram, dirty, claimed, noted, described, loaded>>
  BY DEF Loader!Table, Loader!At
<1>2. call.program \in Programs
  BY <1>1 DEF LoadTypes
<1>3. Len(call.program.sections) \in Nat /\ MaxSections \in Nat
  BY <1>2, ImageIsSound, LayersAssumption DEF LayersAssumption, Loader!ArcLoadAssumption
<1>4. CASE Len(call.program.sections) > MaxSections
  <2>1. Loader!OutOf("ENOEXEC", FALSE)
    BY <1>4 DEF Loader!Table, Loader!Out
  <2>2. ~Loader!Sound(call.program)
    BY <1>3, <1>4 DEF Loader!Sound
  <2> QED
    BY <1>1, <2>1, <2>2, OutKeeps
<1>5. CASE ~(Len(call.program.sections) > MaxSections)
  <2>1. call' = [call EXCEPT !.stage = "section", !.section = 1] /\ UNCHANGED <<isOpen, loadStatus, running>>
    BY <1>5 DEF Loader!Table
  <2>2. /\ call' \in [stage : Stages, program : Programs \cup {Loader!NoProgram}, by : Callers,
                         section : Nat, fault : BOOLEAN, free : BOOLEAN]
        /\ call'.stage = "section" /\ call'.program = call.program /\ call'.by = call.by /\ call'.section = 1
        /\ call'.fault = call.fault /\ call'.free = call.free
    BY <2>1 DEF Stages, LoadTypes
  <2>3. LoadTypes'
    BY <1>1, <1>2, <2>1, <2>2 DEF LoadTypes, Loader!LoadTypeOK, Loader!Memory, Loader!Span, Stages
  <2>4. FileInv' /\ PagesInv'
    BY <1>1, <2>1, <2>2 DEF FileInv, PagesInv, Loader!Origin, Loader!Pages, Loader!Span
  <2>5. PlacedTo(call.program, 0)
    BY <1>1 DEF SectionsInv
  <2>7. (call.section - 1)' = 0
    BY <2>2
  <2>8. SectionsInv'
    <3>1. PlacedTo(call.program, call.section - 1)'
      BY <1>1, <2>2, <2>5, <2>7 DEF PlacedTo, Loader!Extent, Loader!InMemory
    <3> QED
      BY <1>3, <1>5, <2>2, <3>1 DEF SectionsInv
  <2>9. CallersInv'
    BY <1>1, <2>1, <2>2 DEF CallersInv, Loader!EntersTheLoaded, Loader!Pages
  <2>10. EndingInv'
    BY <1>1, <2>1, <2>2 DEF EndingInv, Loader!LoadIsDecided, Loader!Sound
  <2> QED
    BY <1>1, <2>3, <2>4, <2>8, <2>9, <2>10, ImagesStay
<1> QED
  BY <1>4, <1>5

\* One more section is in memory: it is there as the file has it, and the
\* earlier ones do not lie where it does.
LEMMA OneMorePlaced ==
  ASSUME NEW p \in Programs, NEW n \in 1 .. Len(p.sections), PlacedTo(p, n - 1), DOMAIN ram = Loader!Memory,
         \A b \in 0 .. p.size - 1 :
           ram'[p.base + b] = IF b \in Loader!Extent(p.sections[n]) THEN <<p.name, p.sections[n].roff + b - p.sections[n].va>>
                              ELSE ram[p.base + b],
         NEW m, m = n
  PROVE  \A b \in 0 .. p.size - 1 :
           /\ \A k \in 1 .. m : b \in Loader!Extent(p.sections[k]) => ram'[p.base + b] = <<p.name, p.sections[k].roff + b - p.sections[k].va>>
           /\ (\A k \in 1 .. m : b \notin Loader!Extent(p.sections[k])) => ram'[p.base + b] = Loader!Zero
<1> SUFFICES ASSUME NEW b \in 0 .. p.size - 1
             PROVE  /\ \A k \in 1 .. n : b \in Loader!Extent(p.sections[k]) => ram'[p.base + b] = <<p.name, p.sections[k].roff + b - p.sections[k].va>>
                    /\ (\A k \in 1 .. n : b \notin Loader!Extent(p.sections[k])) => ram'[p.base + b] = Loader!Zero
  OBVIOUS
<1>1. \A j, k \in 1 .. Len(p.sections) : j # k => Loader!Extent(p.sections[j]) \cap Loader!Extent(p.sections[k]) = {}
  BY ImageIsSound
<1>2. Len(p.sections) \in Nat
  BY ImageIsSound
<1>3. /\ \A k \in 1 .. n - 1 : b \in Loader!Extent(p.sections[k]) => ram[p.base + b] = <<p.name, p.sections[k].roff + b - p.sections[k].va>>
      /\ (\A k \in 1 .. n - 1 : b \notin Loader!Extent(p.sections[k])) => ram[p.base + b] = Loader!Zero
  BY DEF PlacedTo
<1>4. \A k \in 1 .. n : k \in 1 .. n - 1 \/ k = n
  BY <1>2
<1>5. \A k \in 1 .. n - 1 : k \in 1 .. n /\ k \in 1 .. Len(p.sections) /\ k # n
  BY <1>2
<1>6. CASE b \in Loader!Extent(p.sections[n])
  <2>1. \A k \in 1 .. n - 1 : b \notin Loader!Extent(p.sections[k])
    BY <1>1, <1>5, <1>6
  <2>2. n \in 1 .. n
    BY <1>2
  <2> QED
    BY <1>4, <1>6, <2>1, <2>2
<1>7. CASE b \notin Loader!Extent(p.sections[n])
  BY <1>3, <1>4, <1>5, <1>7
<1> QED
  BY <1>6, <1>7

\* A section without data in the file needs none, and one that is read lies
\* where the linker put it.
LEMMA WhereASectionLies ==
  ASSUME NEW p \in Programs, NEW n \in 1 .. Len(p.sections)
  PROVE  /\ p.sections[n] \in [va : Nat, vsize : Nat, rsize : Nat, roff : Nat]
         /\ Loader!InMemory(p.sections[n]) \in Nat
         /\ p.sections[n].rsize = 0 \/ p.sections[n].roff = 0 => Loader!Extent(p.sections[n]) = {}
         /\ p.sections[n].roff # 0 =>
              Loader!Extent(p.sections[n]) = p.sections[n].va .. p.sections[n].va + Loader!InMemory(p.sections[n]) - 1
<1>1. p.sections \in Seq([va : Nat, vsize : Nat, rsize : Nat, roff : Nat])
  BY ImageIsSound
<1>2. p.sections[n] \in [va : Nat, vsize : Nat, rsize : Nat, roff : Nat]
  BY <1>1, ElementOfSeq
<1> QED
  BY <1>2 DEF Loader!Extent, Loader!InMemory

\* A section that leaves the image or the file makes it unsound.
LEMMA UnsoundBySection ==
  ASSUME NEW p \in Programs, NEW k \in 1 .. Len(p.sections),
         \/ p.sections[k].va + Loader!InMemory(p.sections[k]) > p.size
         \/ p.sections[k].roff + Loader!InMemory(p.sections[k]) > p.length
  PROVE  ~Loader!Sound(p)
<1>1. /\ p.sections[k] \in [va : Nat, vsize : Nat, rsize : Nat, roff : Nat]
      /\ Loader!InMemory(p.sections[k]) \in Nat
  BY WhereASectionLies
<1>2. p.size \in Nat /\ p.length \in Nat
  BY ImageIsSound
<1> SUFFICES ASSUME Loader!Sound(p) PROVE FALSE
  OBVIOUS
<1>3. /\ p.sections[k].va + Loader!InMemory(p.sections[k]) <= p.size
      /\ p.sections[k].roff + Loader!InMemory(p.sections[k]) <= p.length
  BY DEF Loader!Sound
<1> QED
  BY <1>1, <1>2, <1>3

\* What is written of a section that is read: its extent, from where the file
\* has it.
LEMMA WhatASectionWrites ==
  ASSUME NEW p \in Programs, NEW s \in [va : Nat, vsize : Nat, rsize : Nat, roff : Nat], NEW to, to = p.base + s.va,
         s.roff # 0, ~(s.va + Loader!InMemory(s) > p.size), fileBase = Loader!Origin(p),
         ram' = [a \in Loader!Memory |-> IF a \in to .. to + Loader!InMemory(s) - 1
                                         THEN Loader!ByteAt(p, s.roff, a - to) ELSE ram[a]]
  PROVE  /\ to .. to + Loader!InMemory(s) - 1 \subseteq Loader!Span(p)
         /\ \A b \in 0 .. p.size - 1 :
              ram'[p.base + b] = IF b \in Loader!Extent(s) THEN <<p.name, s.roff + b - s.va>> ELSE ram[p.base + b]
<1>1. /\ p.base \in Nat /\ p.size \in Nat /\ Loader!Origin(p) \in Nat
      /\ s.va \in Nat /\ s.roff \in Nat /\ Loader!InMemory(s) \in Nat
  BY ImageIsSound, ExtentIs
<1>2. Loader!Extent(s) = s.va .. s.va + Loader!InMemory(s) - 1
  BY DEF Loader!Extent
<1>3. to \in Nat
  BY <1>1
<1>4. to .. to + Loader!InMemory(s) - 1 \subseteq Loader!Span(p)
  BY <1>1, <1>3 DEF Loader!Span
<1>5. ASSUME NEW b \in 0 .. p.size - 1
      PROVE  ram'[p.base + b] = IF b \in Loader!Extent(s) THEN <<p.name, s.roff + b - s.va>> ELSE ram[p.base + b]
  <2> b \in Int
    BY <1>1
  <2>1. p.base + b \in Loader!Memory
    BY SpanIsMemory
  <2>2. b \in Loader!Extent(s) <=> p.base + b \in to .. to + Loader!InMemory(s) - 1
    <3>1. \A c, v, n, x \in Int : x \in v .. v + n - 1 <=> c + x \in c + v .. c + v + n - 1
      OBVIOUS
    <3>2. b \in s.va .. s.va + Loader!InMemory(s) - 1
            <=> p.base + b \in p.base + s.va .. p.base + s.va + Loader!InMemory(s) - 1
      BY <1>1, <3>1
    <3> QED
      BY <1>2, <3>2
  <2>3. fileBase + s.roff + ((p.base + b) - to) - Loader!Origin(p) = s.roff + b - s.va
    <3>1. (p.base + b) - to = b - s.va
      BY <1>1
    <3> QED
      BY <1>1, <3>1
  <2>4. ASSUME NEW a \in Loader!Memory, a = p.base + b
        PROVE  ram'[a] = IF b \in Loader!Extent(s) THEN <<p.name, s.roff + b - s.va>> ELSE ram[a]
    <3>1. ram'[a] = IF a \in to .. to + Loader!InMemory(s) - 1 THEN Loader!ByteAt(p, s.roff, a - to) ELSE ram[a]
      OBVIOUS
    <3>2. a \in to .. to + Loader!InMemory(s) - 1 <=> b \in Loader!Extent(s)
      BY <2>2, <2>4
    <3>3. Loader!ByteAt(p, s.roff, a - to) = <<p.name, s.roff + b - s.va>>
      BY <2>3, <2>4 DEF Loader!ByteAt
    <3> QED
      BY <3>1, <3>2, <3>3
  <2> QED
    BY <2>1, <2>4
<1> QED
  BY <1>4, <1>5

\* A file that ends too early makes the image unsound.
LEMMA UnsoundByLength ==
  ASSUME NEW p \in Programs, NEW k \in 1 .. Len(p.sections), fileBase = Loader!Origin(p),
         ~Loader!Delivers(p, p.sections[k].roff, Loader!InMemory(p.sections[k]))
  PROVE  ~Loader!Sound(p)
<1>1. /\ p.sections[k] \in [va : Nat, vsize : Nat, rsize : Nat, roff : Nat]
      /\ Loader!InMemory(p.sections[k]) \in Nat
  BY WhereASectionLies
<1>2. p.length \in Nat /\ p.cd \in BOOLEAN
  BY ImageIsSound
<1>3. fileBase = 0
  BY DEF Loader!Delivers, Loader!Origin
<1>4. p.sections[k].roff + Loader!InMemory(p.sections[k]) > p.length
  BY <1>1, <1>2, <1>3 DEF Loader!Delivers
<1> QED
  BY <1>4, UnsoundBySection

\* The next section is placed, or refused because the image is not sound.
LEMMA SectionKeeps ==
  ASSUME LoadInv, Loader!Section
  PROVE  LoadInv'
<1> USE DEF LoadInv
<1> DEFINE p  == call.program
           s  == p.sections[call.section]
           n  == Loader!InMemory(s)
           to == p.base + s.va
<1>1. /\ call.stage = "section" /\ running # "halted" /\ call.section <= Len(p.sections)
      /\ UNCHANGED <<fileBase, claimed, noted, described, loaded>>
  BY DEF Loader!Section, Loader!At
<1>2. p \in Programs /\ fileBase = Loader!Origin(p) /\ call.section \in 1 .. Len(p.sections) /\ call.section \in Nat
  BY <1>1, ImageIsSound DEF LoadTypes, FileInv, SectionsInv
<1>3. /\ s \in [va : Nat, vsize : Nat, rsize : Nat, roff : Nat] /\ n \in Nat
      /\ s.rsize = 0 \/ s.roff = 0 => Loader!Extent(s) = {}
      /\ s.roff # 0 => Loader!Extent(s) = s.va .. s.va + n - 1
  BY <1>2, WhereASectionLies
<1>4. PlacedTo(p, call.section - 1) /\ Len(p.sections) <= MaxSections
  BY <1>1 DEF SectionsInv
<1>5. ASSUME call' = [call EXCEPT !.section = @ + 1], UNCHANGED <<isOpen, loadStatus, running>>,
             dirty' \subseteq dirty \cup Loader!Span(p), dirty' \subseteq Loader!Memory, DOMAIN ram' = Loader!Memory,
             \A a \in Loader!Memory \ Loader!Span(p) : ram'[a] = ram[a],
             \A b \in 0 .. p.size - 1 :
               ram'[p.base + b] = IF b \in Loader!Extent(s) THEN <<p.name, s.roff + b - s.va>> ELSE ram[p.base + b]
      PROVE  LoadInv'
  <2>1. /\ call' \in [stage : Stages, program : Programs \cup {Loader!NoProgram}, by : Callers,
                         section : Nat, fault : BOOLEAN, free : BOOLEAN]
        /\ call'.stage = "section" /\ call'.program = p /\ call'.by = call.by /\ call'.section = call.section + 1
        /\ call'.fault = call.fault /\ call'.free = call.free
    BY <1>1, <1>2, <1>5 DEF LoadTypes
  <2>2. LoadTypes'
    <3>1. Loader!Memory' = Loader!Memory
      BY DEF Loader!Memory, Loader!Span
    <3> QED
      BY <1>1, <1>2, <1>5, <2>1, <3>1 DEF LoadTypes, Loader!LoadTypeOK, Stages
  <2>3. FileInv' /\ PagesInv'
    BY <1>1, <1>5, <2>1 DEF FileInv, PagesInv, Loader!Origin, Loader!Pages, Loader!Span
  <2>4. SectionsInv'
    <3>1. (call.section - 1)' = call.section /\ call.program' = p
      BY <1>2, <2>1
    <3>2. DOMAIN ram = Loader!Memory
      BY DEF LoadTypes
    <3>3. \A b \in 0 .. p.size - 1 :
            /\ \A k \in 1 .. (call.section - 1)' : b \in Loader!Extent(p.sections[k]) => ram'[p.base + b] = <<p.name, p.sections[k].roff + b - p.sections[k].va>>
            /\ (\A k \in 1 .. (call.section - 1)' : b \notin Loader!Extent(p.sections[k])) => ram'[p.base + b] = Loader!Zero
      <4>1. call.section \in 1 .. Len(p.sections) /\ (call.section - 1)' = call.section
        BY <1>2, <3>1
      <4> HIDE <1>5
      <4> QED
        BY <1>2, <1>4, <1>5, <3>2, <4>1, OneMorePlaced
    <3>4. PlacedTo(call.program, call.section - 1)'
      BY <3>1, <3>3 DEF PlacedTo, Loader!Extent, Loader!InMemory, Loader!Zero
    <3>5. call'.section \in 1 .. Len(p.sections) + 1
      BY <1>2, <2>1, ImageIsSound
    <3> QED
      BY <1>4, <2>1, <3>4, <3>5 DEF SectionsInv
  <2>5. CallersInv'
    BY <1>1, <1>5, <2>1 DEF CallersInv, Loader!EntersTheLoaded, Loader!Pages
  <2>6. EndingInv'
    BY <1>1, <1>5, <2>1 DEF EndingInv, Loader!LoadIsDecided, Loader!Sound
  <2>7. Loader!ImageIsPlaced'
    <3>1. \A k \in 1 .. Len(loaded) : Loader!Span(p) \cap Loader!Span(loaded[k]) = {}
      BY <1>1, PagesApart DEF PagesInv
    <3>2. loaded \in Seq(Programs)
      BY DEF LoadTypes
    <3> QED
      BY <1>1, <1>5, <3>1, <3>2, OthersStay
  <2> QED
    BY <2>2, <2>3, <2>4, <2>5, <2>6, <2>7
<1>6. CASE s.rsize = 0 \/ s.roff = 0
  <2>1. call' = [call EXCEPT !.section = @ + 1] /\ UNCHANGED <<isOpen, loadStatus, running, ram, dirty>>
    BY <1>6 DEF Loader!Section
  <2>2. DOMAIN ram = Loader!Memory /\ dirty \subseteq Loader!Memory
    BY DEF LoadTypes, Loader!LoadTypeOK
  <2> QED
    BY <1>3, <1>5, <1>6, <2>1, <2>2
<1>7. CASE ~(s.rsize = 0 \/ s.roff = 0) /\ s.va + n > p.size
  <2>1. Loader!OutOf("ENOEXEC", FALSE) /\ UNCHANGED <<ram, dirty>>
    BY <1>7 DEF Loader!Section, Loader!Out
  <2>2. ~Loader!Sound(p)
    BY <1>2, <1>7, UnsoundBySection
  <2> QED
    BY <1>1, <2>1, <2>2, OutKeeps
<1>8. CASE ~(s.rsize = 0 \/ s.roff = 0) /\ ~(s.va + n > p.size) /\ ~Loader!Delivers(p, s.roff, n)
  <2>1. Loader!OutOf("EIO", FALSE) /\ UNCHANGED <<ram, dirty>>
    BY <1>8 DEF Loader!Section, Loader!Out
  <2>2. ~Loader!Sound(p)
    BY <1>2, <1>8, UnsoundByLength
  <2> QED
    BY <1>1, <2>1, <2>2, OutKeeps
<1>9. CASE ~(s.rsize = 0 \/ s.roff = 0) /\ ~(s.va + n > p.size) /\ Loader!Delivers(p, s.roff, n)
  <2>1. /\ call' = [call EXCEPT !.section = @ + 1] /\ UNCHANGED <<isOpen, loadStatus, running>>
        /\ ram' = [a \in Loader!Memory |-> IF a \in to .. to + n - 1 THEN Loader!ByteAt(p, s.roff, a - to) ELSE ram[a]]
        /\ dirty' = dirty \cup (to .. to + n - 1)
    BY <1>9 DEF Loader!Section
  <2>7. Loader!Span(p) \subseteq Loader!Memory /\ dirty \subseteq Loader!Memory
    BY <1>2, SpanIsMemory DEF LoadTypes, Loader!LoadTypeOK
  <2>8. /\ to .. to + Loader!InMemory(s) - 1 \subseteq Loader!Span(p)
        /\ \A b \in 0 .. p.size - 1 :
             ram'[p.base + b] = IF b \in Loader!Extent(s) THEN <<p.name, s.roff + b - s.va>> ELSE ram[p.base + b]
    <3>1. s.roff # 0 /\ ~(s.va + Loader!InMemory(s) > p.size) /\ to = p.base + s.va
      BY <1>9
    <3>2. s \in [va : Nat, vsize : Nat, rsize : Nat, roff : Nat]
      BY <1>3
    <3>3. p \in Programs /\ fileBase = Loader!Origin(p)
      BY <1>2
    <3>4. ram' = [a \in Loader!Memory |-> IF a \in to .. to + Loader!InMemory(s) - 1
                                          THEN Loader!ByteAt(p, s.roff, a - to) ELSE ram[a]]
      BY <2>1
    <3> HIDE DEF s, to, n, p
    <3> QED
      BY Zenon, <3>1, <3>2, <3>3, <3>4, WhatASectionWrites
  <2>9. \A a \in Loader!Memory \ Loader!Span(p) : ram'[a] = ram[a]
    BY <2>1, <2>8
  <2>10. dirty' \subseteq dirty \cup Loader!Span(p) /\ dirty' \subseteq Loader!Memory /\ DOMAIN ram' = Loader!Memory
    BY <2>1, <2>7, <2>8
  <2> QED
    BY <1>5, <2>1, <2>8, <2>9, <2>10, SMTT(30)
<1> QED
  BY <1>6, <1>7, <1>8, <1>9

\* The image is complete, swept and among those that were loaded.
LEMMA PlacedKeeps ==
  ASSUME LoadInv, Loader!Placed
  PROVE  LoadInv'
<1> USE DEF LoadInv
<1> DEFINE p == call.program
<1>1. /\ call.stage = "section" /\ running # "halted" /\ call.section > Len(p.sections)
      /\ dirty' = dirty \ Loader!Span(p) /\ loaded' = Append(loaded, p)
      /\ Loader!OutOf("ESUCCESS", FALSE) /\ UNCHANGED <<fileBase, ram, claimed, noted, described>>
  BY DEF Loader!Placed, Loader!At, Loader!Out, Loader!Swept
<1>2. p \in Programs /\ loaded \in Seq(Programs) /\ Len(loaded) \in Nat
  BY <1>1 DEF LoadTypes
<1>3. /\ call' \in [stage : Stages, program : Programs \cup {Loader!NoProgram}, by : Callers,
                       section : Nat, fault : BOOLEAN, free : BOOLEAN]
      /\ call'.stage = "placed" /\ call'.program = p /\ call'.by = call.by
      /\ call'.fault = FALSE /\ call'.free = call.free
      /\ loadStatus' = "ESUCCESS" /\ ~isOpen' /\ isOpen' \in BOOLEAN /\ running' = running
  BY <1>1 DEF LoadTypes, Loader!OutOf, Stages
<1>4. /\ loaded' \in Seq(Programs) /\ Len(loaded') = Len(loaded) + 1 /\ loaded'[Len(loaded) + 1] = p
      /\ \A k \in 1 .. Len(loaded) : loaded'[k] = loaded[k]
  BY <1>1, <1>2
<1>5. LoadTypes'
  <2>1. Loader!Memory' = Loader!Memory
    BY DEF Loader!Memory, Loader!Span
  <2> QED
    BY <1>1, <1>2, <1>3, <1>4, <2>1 DEF LoadTypes, Loader!LoadTypeOK, Stages
<1>6. FileInv' /\ PagesInv' /\ SectionsInv'
  BY <1>3 DEF FileInv, PagesInv, SectionsInv
<1>7. CallersInv'
  <2>1. running = "arcfw" => loaded' = <<p>>
    BY <1>1, <1>2 DEF CallersInv
  <2>2. noted' = Loader!Pages(p)
    BY <1>1 DEF PagesInv
  <2>3. Loader!EntersTheLoaded'
    <3> SUFFICES ASSUME running \notin {"arcfw", "halted"}
                 PROVE  /\ \E k \in 1 .. Len(loaded') : loaded'[k].name = running
                        /\ described = Loader!Pages(loaded'[1])
      BY <1>1, <1>3 DEF Loader!EntersTheLoaded, Loader!Pages, Loader!Span
    <3>1. PICK k \in 1 .. Len(loaded) : loaded[k].name = running
      BY DEF CallersInv, Loader!EntersTheLoaded
    <3>2. described = Loader!Pages(loaded[1])
      BY DEF CallersInv, Loader!EntersTheLoaded
    <3>3. k \in 1 .. Len(loaded') /\ loaded'[k] = loaded[k] /\ loaded'[1] = loaded[1]
      BY <1>2, <1>4
    <3> QED
      BY <3>1, <3>2, <3>3
  <2>4. \E k \in 1 .. Len(loaded') : loaded'[k] = p
    BY <1>2, <1>4
  <2> QED
    BY <1>1, <1>3, <2>1, <2>2, <2>3, <2>4 DEF CallersInv, Loader!Pages, Loader!Span
<1>8. EndingInv'
  BY <1>3 DEF EndingInv, Loader!LoadIsDecided
<1>9. Loader!ImageIsPlaced'
  <2>1. \A k \in 1 .. Len(loaded) :
          /\ \A b \in 0 .. loaded[k].size - 1 : ram[loaded[k].base + b] = Loader!Meant(loaded[k], b)
          /\ Loader!Span(loaded[k]) \cap dirty = {} /\ Loader!Pages(loaded[k]) \subseteq claimed
    BY Zenon DEF Loader!ImageIsPlaced
  <2>2. PlacedTo(p, Len(p.sections))
    <3>1. call.section - 1 = Len(p.sections)
      <4>1. p.sections \in Seq([va : Nat, vsize : Nat, rsize : Nat, roff : Nat])
        BY <1>2, ImageIsSound
      <4>2. Len(p.sections) \in Nat
        BY <4>1
      <4>3. call.section \in 1 .. Len(p.sections) + 1
        BY <1>1 DEF SectionsInv
      <4> QED
        BY <1>1, <4>2, <4>3
    <3>2. PlacedTo(p, call.section - 1)
      BY <1>1 DEF SectionsInv
    <3> QED
      BY <3>1, <3>2
  <2>3. \A b \in 0 .. p.size - 1 : ram[p.base + b] = Loader!Meant(p, b)
    BY <1>2, <2>2, PlacedIsMeant
  <2>4. Loader!Pages(p) \subseteq claimed /\ Loader!Span(p) \cap dirty' = {}
    BY <1>1 DEF PagesInv
  <2>5. \A k \in 1 .. Len(loaded') : k \in 1 .. Len(loaded) \/ (k = Len(loaded) + 1 /\ loaded'[k] = p)
    BY <1>2, <1>4
  <2>6. \A k \in 1 .. Len(loaded') :
          /\ \A b \in 0 .. loaded'[k].size - 1 : ram'[loaded'[k].base + b] = Loader!Meant(loaded'[k], b)
          /\ Loader!Span(loaded'[k]) \cap dirty' = {} /\ Loader!Pages(loaded'[k]) \subseteq claimed'
    <3> TAKE k \in 1 .. Len(loaded')
    <3>1. CASE k \in 1 .. Len(loaded)
      BY <1>1, <1>4, <2>1, <3>1
    <3>2. CASE loaded'[k] = p
      BY <1>1, <2>3, <2>4, <3>2
    <3> QED
      BY <2>5, <3>1, <3>2
  <2> QED
    BY <2>6 DEF Loader!ImageIsPlaced, Loader!Span, Loader!Pages
<1> QED
  BY <1>5, <1>6, <1>7, <1>8, <1>9

\* The caller has its answer: main() describes the loader's pages and enters
\* it, arc_Execute enters what it loaded.
LEMMA ReturnKeeps ==
  ASSUME LoadInv, Loader!Return
  PROVE  LoadInv'
<1> USE DEF LoadInv
<1> DEFINE p == call.program
<1>1. /\ call.stage = "placed" /\ running # "halted" /\ Loader!Going("idle")
      /\ described' = IF call.by = "main" THEN noted ELSE described
      /\ running' = IF call.by \in {"main", "arc_Execute"} THEN p.name ELSE running
      /\ UNCHANGED <<fileBase, isOpen, ram, dirty, claimed, noted, loaded, loadStatus>>
  BY DEF Loader!Return, Loader!At, Loader!DescribedAfter
<1>2. /\ call' \in [stage : Stages, program : Programs \cup {Loader!NoProgram}, by : Callers,
                       section : Nat, fault : BOOLEAN, free : BOOLEAN]
      /\ call'.stage = "idle" /\ call'.program = p /\ call'.by = call.by
      /\ call'.fault = call.fault /\ call'.free = call.free
  BY <1>1, GoingIs DEF Stages
<1>3. p \in Programs /\ p.name \notin {"arcfw", "halted"} /\ loaded \in Seq(Programs)
  BY <1>1, ImageIsSound DEF LoadTypes
<1>4. running' \in {"arcfw", "halted"} \cup {q.name : q \in Programs}
  BY <1>1, <1>3 DEF LoadTypes, Loader!LoadTypeOK
<1>5. LoadTypes'
  <2>1. Loader!Memory' = Loader!Memory
    BY DEF Loader!Memory, Loader!Span
  <2> QED
    BY <1>1, <1>2, <1>3, <1>4, <2>1 DEF LoadTypes, Loader!LoadTypeOK, Stages
<1>6. FileInv' /\ PagesInv' /\ SectionsInv'
  BY <1>1, <1>2 DEF FileInv, PagesInv, SectionsInv
<1>7. CallersInv'
  <2>1. running' # "arcfw" /\ running' # "halted"
    BY <1>1, <1>3 DEF CallersInv
  <2>2. \E k \in 1 .. Len(loaded) : loaded[k].name = running'
    <3>1. CASE call.by \in {"main", "arc_Execute"}
      BY <1>1, <3>1 DEF CallersInv
    <3>2. CASE call.by \notin {"main", "arc_Execute"}
      BY <1>1, <3>2 DEF CallersInv, Loader!EntersTheLoaded
    <3> QED
      BY <3>1, <3>2
  <2>3. described' = Loader!Pages(loaded[1])
    <3>1. CASE call.by = "main"
      <4>1. loaded = <<p>> /\ described' = Loader!Pages(p)
        BY <1>1, <3>1 DEF CallersInv
      <4> QED
        BY <4>1
    <3>2. CASE call.by # "main"
      BY <1>1, <3>2 DEF CallersInv, Loader!EntersTheLoaded
    <3> QED
      BY <3>1, <3>2
  <2> QED
    BY <1>1, <1>2, <2>1, <2>2, <2>3 DEF CallersInv, Loader!EntersTheLoaded, Loader!Pages, Loader!Span
<1>8. EndingInv'
  BY <1>1, <1>2 DEF EndingInv, Loader!LoadIsDecided, Loader!Sound
<1> QED
  BY <1>1, <1>5, <1>6, <1>7, <1>8, ImagesStay

\* A program that was loaded is entered.
LEMMA InvokeKeeps ==
  ASSUME LoadInv, Loader!arc_Invoke
  PROVE  LoadInv'
<1> USE DEF LoadInv
<1>1. /\ running \notin {"arcfw", "halted"} /\ call.stage = "idle"
      /\ UNCHANGED <<call, fileBase, isOpen, ram, dirty, claimed, noted, described, loaded, loadStatus>>
  BY DEF Loader!arc_Invoke, Loader!At
<1>2. PICK k \in 1 .. Len(loaded) : running' = loaded[k].name
  BY DEF Loader!arc_Invoke
<1>3. loaded[k] \in Programs
  BY ElementOfSeq DEF LoadTypes
<1>4. running' \notin {"arcfw", "halted"} /\ running' \in {q.name : q \in Programs}
  BY <1>2, <1>3, ImageIsSound
<1>5. LoadTypes'
  <2>1. Loader!Memory' = Loader!Memory
    BY DEF Loader!Memory, Loader!Span
  <2> QED
    BY <1>1, <1>4, <2>1 DEF LoadTypes, Loader!LoadTypeOK
<1>6. FileInv' /\ PagesInv' /\ SectionsInv'
  BY <1>1 DEF FileInv, PagesInv, SectionsInv
<1>7. CallersInv'
  BY <1>1, <1>2, <1>4 DEF CallersInv, Loader!EntersTheLoaded, Loader!Pages, Loader!Span
<1>8. EndingInv'
  BY <1>1 DEF EndingInv, Loader!LoadIsDecided, Loader!Sound
<1> QED
  BY <1>1, <1>5, <1>6, <1>7, <1>8, ImagesStay

\* What does not touch the loader keeps what holds of it.
LEMMA LoadStays ==
  ASSUME LoadInv, UNCHANGED loadVars
  PROVE  LoadInv'
<1> USE DEF LoadInv, loadVars
<1>1. LoadTypes'
  BY DEF LoadTypes, Loader!LoadTypeOK, Loader!Memory, Loader!Span
<1>2. FileInv' /\ PagesInv'
  BY DEF FileInv, PagesInv, Loader!Origin, Loader!Pages, Loader!Span
<1>3. SectionsInv'
  BY DEF SectionsInv, PlacedTo, Loader!Extent, Loader!InMemory
<1>4. CallersInv'
  BY DEF CallersInv, Loader!EntersTheLoaded, Loader!Pages, Loader!Span
<1>5. EndingInv'
  BY DEF EndingInv, Loader!LoadIsDecided, Loader!Sound, Loader!Pages, Loader!Span
<1> QED
  BY <1>1, <1>2, <1>3, <1>4, <1>5, ImagesStay

LEMMA InitLoadInv ==
  ASSUME Loader!LoadInit
  PROVE  LoadInv
<1> USE DEF Loader!LoadInit, Loader!Idle
<1>1. call \in [stage : Stages, program : Programs \cup {Loader!NoProgram}, by : Callers,
                section : Nat, fault : BOOLEAN, free : BOOLEAN]
  BY DEF Stages, Callers
<1>2. call.stage = "idle" /\ call.program = Loader!NoProgram /\ call.by = "main" /\ ~call.fault
  OBVIOUS
<1>3. LoadTypes
  <2>1. loaded \in Seq(Programs) /\ DOMAIN ram = Loader!Memory
    OBVIOUS
  <2>2. Loader!LoadTypeOK
    BY <1>2 DEF Loader!LoadTypeOK
  <2> QED
    BY <1>1, <1>2, <2>1, <2>2 DEF LoadTypes
<1>4. FileInv /\ PagesInv /\ SectionsInv
  BY <1>2 DEF FileInv, PagesInv, SectionsInv
<1>5. CallersInv
  BY <1>2 DEF CallersInv, Loader!EntersTheLoaded
<1>6. EndingInv
  BY <1>2 DEF EndingInv, Loader!LoadIsDecided
<1>7. Loader!ImageIsPlaced
  BY DEF Loader!ImageIsPlaced
<1> QED
  BY <1>3, <1>4, <1>5, <1>6, <1>7 DEF LoadInv

LEMMA NextLoadInv ==
  ASSUME LoadInv, [LayersNext]_<<layer, ioVars, cursorVars, mountVars, dirVars, isoVars, treeVars, loadVars>>
  PROVE  LoadInv'
<1>1. CASE Loader!LoadNext
  <2>1. ASSUME Loader!arcfw_main PROVE LoadInv'
    BY <2>1, BeginKeeps DEF Loader!arcfw_main, Callers
  <2>2. ASSUME Loader!arc_Load PROVE LoadInv'
    BY <2>2, BeginKeeps DEF Loader!arc_Load, Callers
  <2>3. ASSUME Loader!arc_Execute PROVE LoadInv'
    BY <2>3, BeginKeeps DEF Loader!arc_Execute, Callers
  <2> QED
    BY <1>1, <2>1, <2>2, <2>3, InvokeKeeps, OpenKeeps, FailsKeeps, HeadersKeeps, ClaimKeeps, TableKeeps, SectionKeeps,
       PlacedKeeps, ReturnKeeps DEF Loader!LoadNext
<1>2. CASE UNCHANGED loadVars
  BY <1>2, LoadStays
<1> QED
  BY <1>1, <1>2 DEF LayersNext

\* Every image that was placed is in memory byte for byte and stays so, no
\* program runs that was not placed, main()'s is described with the pages it
\* has, and a sound image is placed unless something failed (load.c:100-260).
THEOREM ProgramsAreLoaded == LayersSpec => []LoadsPrograms
<1>1. LayersInit => LoadInv
  BY InitLoadInv DEF LayersInit
<1>2. LoadInv /\ [LayersNext]_<<layer, ioVars, cursorVars, mountVars, dirVars, isoVars, treeVars, loadVars>> => LoadInv'
  BY NextLoadInv
<1>3. LoadInv => LoadsPrograms
  BY DEF LoadInv, CallersInv, EndingInv, LoadsPrograms, Loader!LoadsPrograms
<1> QED
  BY <1>1, <1>2, <1>3, PTL DEF LayersSpec

-----------------------------------------------------------------------------
(* Reads along a cluster chain (fat.c:236-276). *)

\* What the clusters and the sizes are.
LEMMA ClustersAre ==
  /\ Clusters \subseteq Nat \ {0} /\ ClusterBytes \in Nat \ {0}
  /\ Fats \subseteq [Clusters -> Nat] /\ Sizes \subseteq Nat
  /\ Positions \subseteq Nat /\ Lengths \subseteq Nat /\ MaxReads \in Nat
BY LayersAssumption DEF LayersAssumption, File!FatFileAssumption

\* A position is its cluster's index and its offset there.
LEMMA Place ==
  ASSUME NEW p \in Nat
  PROVE  /\ p \div ClusterBytes \in Nat /\ p % ClusterBytes \in 0 .. ClusterBytes - 1
         /\ p = (p \div ClusterBytes) * ClusterBytes + (p % ClusterBytes)
         /\ (p \div ClusterBytes) * ClusterBytes \in Nat
<1>1. ClusterBytes \in Nat \ {0}
  BY ClustersAre
<1>2. p \div ClusterBytes \in Nat /\ p % ClusterBytes \in 0 .. ClusterBytes - 1
  BY <1>1
<1>3. p = (p \div ClusterBytes) * ClusterBytes + (p % ClusterBytes)
  BY <1>1
<1> QED
  BY <1>1, <1>2, <1>3

\* Another place, x bytes behind the beginning of cluster q.
LEMMA Behind ==
  ASSUME NEW q \in Nat, NEW x \in Nat
  PROVE  /\ (q * ClusterBytes + x) \div ClusterBytes = q + x \div ClusterBytes
         /\ (q * ClusterBytes + x) % ClusterBytes = x % ClusterBytes
<1> DEFINE w == ClusterBytes
<1>1. w \in Nat \ {0}
  BY ClustersAre
<1>2. q * w \in Nat /\ x \div w \in Nat /\ x % w \in 0 .. w - 1 /\ x = (x \div w) * w + (x % w)
  BY <1>1, Place
<1> HIDE DEF w
<1>3. q * w + x = (q + x \div w) * w + (x % w)
  <2>1. \A a, b, c \in Nat : a * c + b * c = (a + b) * c
    OBVIOUS
  <2> QED
    BY <1>1, <1>2, <2>1
<1>4. \A a \in Nat, r \in 0 .. w - 1 : (a * w + r) \div w = a /\ (a * w + r) % w = r
  BY <1>1
<1> QED
  BY <1>1, <1>2, <1>3, <1>4 DEF w

\* A byte before the end of m clusters lies in one of them.
LEMMA Within ==
  ASSUME NEW m \in Nat, NEW x \in Nat, x < m * ClusterBytes
  PROVE  x \div ClusterBytes < m
<1> DEFINE w == ClusterBytes
<1>1. w \in Nat \ {0} /\ x \div w \in Nat /\ x % w \in 0 .. w - 1 /\ x = (x \div w) * w + (x % w)
  BY ClustersAre, Place
<1> HIDE DEF w
<1>2. SUFFICES ASSUME x \div w >= m PROVE FALSE
  BY <1>1 DEF w
<1>3. \A a, b \in Nat : a >= b => a * w >= b * w
  BY <1>1
<1>4. (x \div w) * w >= m * w
  BY <1>1, <1>2, <1>3
<1>5. (x \div w) * w \in Nat /\ m * w \in Nat
  BY <1>1
<1> QED
  BY <1>1, <1>4, <1>5 DEF w

\* An earlier position lies in no later cluster.
LEMMA Earlier ==
  ASSUME NEW p \in Nat, NEW r \in Nat, p <= r
  PROVE  p \div ClusterBytes <= r \div ClusterBytes
<1> DEFINE w == ClusterBytes
<1>1. /\ w \in Nat \ {0}
      /\ r \div w \in Nat /\ r % w \in 0 .. w - 1 /\ r = (r \div w) * w + (r % w)
  BY ClustersAre, Place
<1>2. \A m \in Nat : (m + 1) * w = m * w + w /\ m * w \in Nat
  BY <1>1
<1>3. p < (r \div w + 1) * w
  BY <1>1, <1>2
<1>4. p \div w < r \div w + 1
  BY <1>1, <1>3, Within
<1>5. p \div w \in Nat
  BY Place
<1> HIDE DEF w
<1>6. p \div w <= r \div w
  BY <1>1, <1>4, <1>5
<1> QED
  BY <1>6 DEF w

-----------------------------------------------------------------------------
(* The chain. *)

\* Where the chain leads.
Numbers == Clusters \cup {0}

\* The chain begins at the first cluster and follows the FAT.
ChainOf ==
  /\ File!ClusterOf \in [Nat -> Numbers] /\ File!ClusterOf[0] = first
  /\ \A i \in Nat : File!ClusterOf[i + 1] = File!fat_next(File!ClusterOf[i])

\* Every FAT and every first cluster have a chain.
LEMMA ChainIs == first \in Clusters => ChainOf
<1> SUFFICES ASSUME first \in Clusters PROVE ChainOf
  OBVIOUS
<1> DEFINE next == [c \in Numbers |-> File!fat_next(c)]
           Right(f) == f = [i \in Nat |-> IF i = 0 THEN first ELSE File!fat_next(f[i - 1])]
<1>1. \A c : File!fat_next(c) \in Numbers
  BY DEF File!fat_next, Numbers
<1>2. next \in [Numbers -> Numbers] /\ first \in Numbers
  BY <1>1 DEF Numbers
<1> HIDE DEF next
<1>3. PICK f : Forever(f, Numbers, next, first)
  BY <1>2, IterationExists
<1>4. Right(f)
  <2>1. \A i \in Nat : i # 0 => i - 1 \in Nat /\ (i - 1) + 1 = i
    OBVIOUS
  <2>2. \A i \in Nat : i # 0 => f[i] = File!fat_next(f[i - 1])
    BY <1>3, <2>1 DEF next, Forever
  <2> QED
    BY <1>3, <2>2 DEF Forever
<1>5. Right(File!ClusterOf)
  <2>1. File!ClusterOf = CHOOSE g : Right(g)
    BY Zenon DEF File!ClusterOf
  <2> HIDE DEF Right
  <2> QED
    BY <1>4, <2>1
<1> DEFINE C == File!ClusterOf
<1> HIDE DEF C
<1>6. C = [i \in Nat |-> IF i = 0 THEN first ELSE File!fat_next(C[i - 1])]
  BY <1>5 DEF C
<1>7. C[0] = first /\ \A i \in Nat : C[i + 1] = File!fat_next(C[i])
  BY <1>6
<1>8. C \in [Nat -> Numbers]
  BY <1>1, <1>2, <1>6
<1> QED
  BY <1>7, <1>8 DEF C, ChainOf

\* The chain is the file's, and no read changes it.
LEMMA ChainStays ==
  ASSUME ChainOf, ChainOf', UNCHANGED File!fileVars
  PROVE  File!ClusterOf' = File!ClusterOf
<1> DEFINE next == [c \in Numbers |-> File!fat_next(c)]
           f == File!ClusterOf
           g == File!ClusterOf'
<1>1. \A c \in Numbers : next[c] = File!fat_next(c) /\ next[c] = File!fat_next(c)'
  BY DEF File!fat_next, File!fileVars
<1> HIDE DEF next
<1>2. /\ f \in [Nat -> Numbers] /\ g \in [Nat -> Numbers] /\ f[0] = g[0]
      /\ \A i \in Nat : f[i + 1] = next[f[i]] /\ g[i + 1] = next[g[i]]
  <2>1. /\ f \in [Nat -> Numbers] /\ g \in [Nat -> Numbers] /\ f[0] = g[0]
    BY DEF ChainOf, File!fileVars
  <2>2. \A i \in Nat : f[i + 1] = next[f[i]]
    BY <1>1, <2>1 DEF ChainOf
  <2>3. \A i \in Nat : g[i + 1] = next[g[i]]
    BY <1>1, <2>1 DEF ChainOf, File!fat_next, File!fileVars
  <2> QED
    BY <2>1, <2>2, <2>3
<1> HIDE DEF f, g
<1>3. Forever(f, Numbers, next, f[0]) /\ Forever(g, Numbers, next, f[0])
  BY <1>2 DEF Forever
<1>5. f = g
  BY <1>3, OneWay
<1> QED
  BY <1>5 DEF f, g

\* A chain that has ended has no further cluster.
LEMMA ChainEnds ==
  ASSUME ChainOf, NEW i \in Nat, NEW j \in Nat, i <= j, File!ClusterOf[j] # 0
  PROVE  File!ClusterOf[i] # 0
<1> DEFINE C == File!ClusterOf
           S == {k \in Nat : i <= k /\ C[k] # 0}
<1>1. SUFFICES ASSUME C[i] = 0 PROVE FALSE
  OBVIOUS
<1>2. \A k \in Nat : C[k] = 0 => C[k + 1] = 0
  <2>1. File!fat_next(0) = 0
    BY ClustersAre DEF File!fat_next
  <2> QED
    BY <2>1 DEF ChainOf
<1> HIDE DEF C
<1>3. PICK x \in S : \A y \in S : x <= y
  <2>1. S \in SUBSET Nat /\ S # {}
    BY DEF C
  <2> HIDE DEF S
  <2> QED
    BY <2>1, SmallestExists
<1>4. x \in Nat /\ i <= x /\ C[x] # 0 /\ x # i
  BY <1>1, <1>3
<1>5. x - 1 \in Nat /\ i <= x - 1 /\ x - 1 \notin S /\ (x - 1) + 1 = x
  BY <1>3, <1>4
<1>6. C[x - 1] = 0
  BY <1>5
<1> QED
  BY <1>2, <1>4, <1>5, <1>6

\* A sound file has a cluster for each of its bytes.
LEMMA SoundHasAll ==
  ASSUME ChainOf, File!Sound, size \in Nat, NEW p \in Nat, p < size, NEW i \in Nat, i <= p \div ClusterBytes
  PROVE  File!ClusterOf[i] \in Clusters
<1>1. File!ClusterOf[(size - 1) \div ClusterBytes] # 0
  BY DEF File!Sound
<1>2. size - 1 \in Nat /\ p <= size - 1
  OBVIOUS
<1>3. p \div ClusterBytes <= (size - 1) \div ClusterBytes /\ (size - 1) \div ClusterBytes \in Nat /\ p \div ClusterBytes \in Nat
  BY <1>2, Earlier, Place
<1>4. i <= (size - 1) \div ClusterBytes
  BY <1>3
<1>5. File!ClusterOf[i] # 0
  BY <1>1, <1>3, <1>4, ChainEnds
<1> QED
  BY <1>5 DEF ChainOf, Numbers

-----------------------------------------------------------------------------
(* What holds between the turns of fat_read. *)

Bytes == Seq(Nat \X Nat)
Reads == [at : {"seek", "extend", "transfer"}, start : Nat, asked : Nat, pos : Nat, n : Nat, out : Bytes,
          run : Nat, avail : Nat]
Results == [status : {"none", "success", "EIO"}, pos : Nat, asked : Nat, out : Bytes]

FileTypes ==
  /\ fat \in [Clusters -> Nat] /\ first \in Clusters /\ size \in Sizes
  /\ curIdx \in Nat /\ curClus \in Numbers /\ reads \in 0 .. MaxReads
  /\ read.at = "idle" \/ read \in Reads
  /\ result \in Results

\* out are the file's bytes from start on.
GivesTheFile(start, out) ==
  \A k \in 1 .. Len(out) : out[k] = <<File!ClusterOf[(start + k - 1) \div ClusterBytes], (start + k - 1) % ClusterBytes>>

\* A read in progress: what is done and what is left are what was wanted.
ProgressInv ==
  read.at # "idle" =>
    /\ read.start < size /\ read.n >= 1 /\ read.pos >= read.start
    /\ read.pos + read.n = read.start + File!Wanted(read.start, read.asked)
    /\ Len(read.out) = read.pos - read.start
    /\ File!Sound => GivesTheFile(read.start, read.out)

\* The run that is read next ends where the cursor's cluster does, and its
\* clusters follow one another on the disk as in the chain.
RunInv ==
  read.at \in {"extend", "transfer"} =>
    /\ read.avail >= 1 /\ read.pos \div ClusterBytes <= curIdx
    /\ read.pos + read.avail = (curIdx + 1) * ClusterBytes
    /\ File!Sound => \A j \in read.pos \div ClusterBytes .. curIdx :
                       File!ClusterOf[j] = read.run + (j - read.pos \div ClusterBytes)

ReadInv == FileTypes /\ ProgressInv /\ RunInv /\ File!ReadsAreFaithful

\* No read wants more than there is.
LEMMA WantedIs ==
  ASSUME NEW pos \in Nat, NEW n \in Nat, size \in Nat
  PROVE  /\ File!Wanted(pos, n) \in Nat
         /\ pos >= size => File!Wanted(pos, n) = 0
         /\ pos < size => /\ pos + File!Wanted(pos, n) <= size
                          /\ File!Wanted(pos, n) = IF n <= size - pos THEN n ELSE size - pos
BY DEF File!Wanted

\* What holds of the chain and the file holds on.
LEMMA FileStays ==
  ASSUME FileTypes, FileTypes', UNCHANGED File!fileVars
  PROVE  /\ ChainOf /\ ChainOf' /\ File!ClusterOf' = File!ClusterOf
         /\ File!Sound' <=> File!Sound
         /\ \A pos, n : File!Wanted(pos, n)' = File!Wanted(pos, n)
<1>1. first \in Clusters => ChainOf
  BY ChainIs
<1>2. (first \in Clusters => ChainOf)'
  BY ChainIs, PTL
<1>3. ChainOf /\ ChainOf'
  BY <1>1, <1>2 DEF FileTypes
<1>4. File!ClusterOf' = File!ClusterOf
  BY <1>3, ChainStays
<1>5. File!Sound' <=> File!Sound
  BY <1>4 DEF File!Sound, File!fileVars
<1>6. \A pos, n : File!Wanted(pos, n)' = File!Wanted(pos, n)
  BY DEF File!Wanted, File!fileVars
<1> QED
  BY <1>3, <1>4, <1>5, <1>6

\* A result that is the read's own is the file's, as far as it got.
LEMMA ReturnIs ==
  ASSUME ReadInv, NEW s \in {"success", "EIO"}, NEW c \in Reads, File!Return(s, c),
         c.start < size, File!Sound => GivesTheFile(c.start, c.out),
         s = "success" => Len(c.out) = File!Wanted(c.start, c.asked),
         curIdx' \in Nat, curClus' \in Numbers
  PROVE  /\ FileTypes' /\ ProgressInv' /\ RunInv' /\ File!SoundReadsTheFile' /\ File!ReadsEnough'
         /\ UNCHANGED File!fileVars
<1>1. /\ result' = [status |-> s, pos |-> c.start, asked |-> c.asked, out |-> c.out]
      /\ read' = File!Idle /\ UNCHANGED <<File!fileVars, reads>>
  BY DEF File!Return
<1>2. read'.at = "idle"
  BY <1>1 DEF File!Idle
<1>3. FileTypes'
  BY <1>1, <1>2 DEF ReadInv, FileTypes, File!fileVars, Results, Reads
<1>4. ProgressInv' /\ RunInv'
  BY <1>2 DEF ProgressInv, RunInv
<1>5. /\ ChainOf /\ ChainOf' /\ File!ClusterOf' = File!ClusterOf
      /\ File!Sound' <=> File!Sound
  BY <1>1, <1>3, FileStays DEF ReadInv
<1>6. result'.out = c.out /\ result'.pos = c.start /\ result'.asked = c.asked /\ result'.status = s /\ size' = size
  BY <1>1 DEF File!fileVars
<1>7. File!SoundReadsTheFile'
  BY <1>5, <1>6 DEF File!SoundReadsTheFile, File!ReadsTheFile, GivesTheFile
<1>8. File!ReadsEnough'
  <2>1. c.start \in Nat /\ c.asked \in Nat /\ size \in Nat
    BY ClustersAre DEF Reads, ReadInv, FileTypes
  <2>2. s = "success" => Len(c.out) = IF c.asked <= size - c.start THEN c.asked ELSE size - c.start
    BY <2>1, WantedIs
  <2>3. ~(c.start >= size)
    BY <2>1
  <2> QED
    BY <1>6, <2>2, <2>3 DEF File!ReadsEnough
<1> QED
  BY <1>1, <1>3, <1>4, <1>7, <1>8

\* The cursor and the results stay right while they stay as they are.
LEMMA RestStays ==
  ASSUME ReadInv, FileTypes', UNCHANGED File!fileVars
  PROVE  /\ UNCHANGED <<curIdx, curClus>> => File!CursorOnChain'
         /\ UNCHANGED result => File!SoundReadsTheFile' /\ File!ReadsEnough'
         /\ \A start, out : GivesTheFile(start, out)' = GivesTheFile(start, out)
         /\ File!ClusterOf' = File!ClusterOf /\ (File!Sound' <=> File!Sound)
<1>1. File!ClusterOf' = File!ClusterOf /\ (File!Sound' <=> File!Sound)
  BY FileStays DEF ReadInv
<1>2. UNCHANGED <<curIdx, curClus>> => File!CursorOnChain'
  BY <1>1 DEF ReadInv, File!ReadsAreFaithful, File!CursorOnChain
<1>3. UNCHANGED result => File!SoundReadsTheFile'
  BY <1>1 DEF ReadInv, File!ReadsAreFaithful, File!SoundReadsTheFile, File!ReadsTheFile
<1>4. UNCHANGED result => File!ReadsEnough'
  BY DEF ReadInv, File!ReadsAreFaithful, File!ReadsEnough, File!fileVars
<1>5. \A start, out : GivesTheFile(start, out)' = GivesTheFile(start, out)
  BY <1>1 DEF GivesTheFile
<1> QED
  BY <1>1, <1>2, <1>3, <1>4, <1>5

\* fat_read is called.
LEMMA BeginReadKeeps ==
  ASSUME ReadInv, NEW pos \in Positions, NEW n \in Lengths, File!Begin(pos, n)
  PROVE  ReadInv'
<1> DEFINE want == File!Wanted(pos, n)
<1>1. /\ read.at = "idle" /\ reads < MaxReads /\ reads' = reads + 1
      /\ UNCHANGED <<File!fileVars, curIdx, curClus>>
  BY DEF File!Begin
<1>2. pos \in Nat /\ n \in Nat /\ size \in Nat /\ reads' \in 0 .. MaxReads
  BY <1>1, ClustersAre DEF ReadInv, FileTypes
<1>3. CASE want = 0
  <2>1. /\ result' = [File!NoResult EXCEPT !.status = "success", !.pos = pos, !.asked = n] /\ read' = read
    BY <1>3 DEF File!Begin
  <2>2. result' = [status |-> "success", pos |-> pos, asked |-> n, out |-> <<>>]
    BY <2>1 DEF File!NoResult
  <2>3. FileTypes'
    <3>1. <<>> \in Bytes
      BY DEF Bytes
    <3>2. result' \in Results
      BY <1>2, <2>2, <3>1 DEF Results
    <3> QED
      BY <1>1, <1>2, <2>1, <3>2 DEF ReadInv, FileTypes, File!fileVars
  <2>4. ProgressInv' /\ RunInv'
    BY <1>1, <2>1 DEF ProgressInv, RunInv
  <2>5. File!CursorOnChain'
    BY <1>1, <2>3, RestStays
  <2>6. File!SoundReadsTheFile'
    BY <2>2 DEF File!SoundReadsTheFile, File!ReadsTheFile
  <2>7. File!ReadsEnough'
    <3>1. pos < size => 0 = IF n <= size - pos THEN n ELSE size - pos
      BY <1>2, <1>3, WantedIs
    <3>2. result'.out = <<>> /\ result'.pos = pos /\ result'.asked = n /\ size' = size
      BY <1>1, <2>2 DEF File!fileVars
    <3> QED
      BY <1>2, <3>1, <3>2 DEF File!ReadsEnough
  <2> QED
    BY <2>3, <2>4, <2>5, <2>6, <2>7 DEF ReadInv, File!ReadsAreFaithful
<1>4. CASE want # 0
  <2>1. read' = File!Call(pos, n, want) /\ result' = File!NoResult
    BY <1>4 DEF File!Begin
  <2>2. want \in Nat /\ want >= 1 /\ pos < size
    BY <1>2, <1>4, WantedIs
  <2> HIDE DEF want
  <2>3. read' = [at |-> "seek", start |-> pos, asked |-> n, pos |-> pos, n |-> want, out |-> <<>>, run |-> 0, avail |-> 0]
    BY <2>1 DEF File!Call
  <2>4. result' = [status |-> "none", pos |-> 0, asked |-> 0, out |-> <<>>]
    BY <2>1 DEF File!NoResult
  <2>5. FileTypes'
    <3>1. <<>> \in Bytes
      BY DEF Bytes
    <3>2. result' \in Results /\ read' \in Reads
      BY <1>2, <2>2, <2>3, <2>4, <3>1 DEF Results, Reads
    <3> QED
      BY <1>1, <1>2, <3>2 DEF ReadInv, FileTypes, File!fileVars
  <2>6. File!Wanted(pos, n)' = want
    BY <1>1 DEF File!Wanted, File!fileVars, want
  <2>7. ProgressInv'
    <3>1. read'.start = pos /\ read'.pos = pos /\ read'.n = want /\ read'.out = <<>> /\ read'.asked = n /\ size' = size
      BY <1>1, <2>3 DEF File!fileVars
    <3>2. File!Wanted(read.start, read.asked)' = want
      BY <2>6, <3>1 DEF File!Wanted
    <3>3. GivesTheFile(read.start, read.out)'
      BY <3>1 DEF GivesTheFile
    <3> QED
      BY <1>2, <2>2, <3>1, <3>2, <3>3 DEF ProgressInv
  <2>8. RunInv'
    BY <2>3 DEF RunInv
  <2>9. File!CursorOnChain'
    BY <1>1, <2>5, RestStays
  <2>10. File!SoundReadsTheFile' /\ File!ReadsEnough'
    BY <2>4 DEF File!SoundReadsTheFile, File!ReadsTheFile, File!ReadsEnough
  <2> QED
    BY <2>5, <2>7, <2>8, <2>9, <2>10 DEF ReadInv, File!ReadsAreFaithful
<1> QED
  BY <1>3, <1>4

\* The walk starts over.
LEMMA RewindKeeps ==
  ASSUME ReadInv, File!Rewind
  PROVE  ReadInv'
<1>1. /\ read.at = "seek" /\ curIdx' = 0 /\ curClus' = first
      /\ UNCHANGED <<File!fileVars, read, result, reads>>
  BY DEF File!Rewind
<1>2. FileTypes'
  BY <1>1 DEF ReadInv, FileTypes, File!fileVars, Numbers
<1>3. ProgressInv'
  BY <1>1, <1>2, RestStays DEF ReadInv, ProgressInv, File!Wanted, File!fileVars
<1>4. RunInv'
  BY <1>1 DEF RunInv
<1>5. File!CursorOnChain'
  <2>1. ChainOf /\ File!ClusterOf' = File!ClusterOf
    BY <1>1, <1>2, FileStays DEF ReadInv
  <2>2. first \in Clusters /\ first # 0
    BY ClustersAre DEF ReadInv, FileTypes
  <2> QED
    BY <1>1, <2>1, <2>2 DEF ChainOf, File!CursorOnChain
<1> QED
  BY <1>1, <1>2, <1>3, <1>4, <1>5, RestStays DEF ReadInv, File!ReadsAreFaithful

\* What is left of a read lies in the file.
LEMMA LeftInside ==
  ASSUME ReadInv, read.at # "idle"
  PROVE  /\ read \in Reads /\ size \in Nat /\ read.start \in Nat /\ read.pos \in Nat /\ read.n \in Nat
         /\ read.asked \in Nat /\ read.avail \in Nat /\ read.run \in Nat
         /\ read.pos + read.n <= size /\ read.pos < size
<1>1. /\ read \in Reads /\ size \in Nat
  BY ClustersAre DEF ReadInv, FileTypes
<1>2. /\ read.start \in Nat /\ read.pos \in Nat /\ read.n \in Nat
      /\ read.asked \in Nat /\ read.avail \in Nat /\ read.run \in Nat
  BY <1>1 DEF Reads
<1>3. read.start < size /\ read.n >= 1 /\ read.pos + read.n = read.start + File!Wanted(read.start, read.asked)
  BY DEF ReadInv, ProgressInv
<1>4. read.start + File!Wanted(read.start, read.asked) <= size
  BY <1>1, <1>2, <1>3, WantedIs
<1> QED
  BY <1>1, <1>2, <1>3, <1>4

\* The cursor walks one cluster on, and of a sound file never off its chain.
LEMMA WalkKeeps ==
  ASSUME ReadInv, File!Walk
  PROVE  ReadInv'
<1>1. /\ read.at = "seek" /\ read.pos \div ClusterBytes > curIdx /\ curClus' = File!fat_next(curClus)
  BY DEF File!Walk
<1>2. curClus' \in Numbers /\ curIdx \in Nat /\ read \in Reads
  BY <1>1 DEF File!fat_next, Numbers, ReadInv, FileTypes
<1>3. ChainOf
  <2>1. first \in Clusters => ChainOf
    BY ChainIs
  <2> QED
    BY <2>1 DEF ReadInv, FileTypes
<1>4. File!Sound => curClus' = File!ClusterOf[curIdx + 1] /\ curClus' # 0
  <2> SUFFICES ASSUME File!Sound PROVE curClus' = File!ClusterOf[curIdx + 1] /\ curClus' # 0
    OBVIOUS
  <2>1. curClus = File!ClusterOf[curIdx]
    BY DEF ReadInv, File!ReadsAreFaithful, File!CursorOnChain
  <2>2. curClus' = File!ClusterOf[curIdx + 1]
    BY <1>1, <1>2, <1>3, <2>1 DEF ChainOf
  <2>3. read.pos \in Nat /\ size \in Nat /\ read.pos < size
    BY <1>1, LeftInside
  <2>4. read.pos \div ClusterBytes \in Nat
    BY <2>3, Place
  <2>5. curIdx + 1 \in Nat /\ curIdx + 1 <= read.pos \div ClusterBytes
    BY <1>1, <1>2, <2>4
  <2>6. File!ClusterOf[curIdx + 1] \in Clusters
    BY <1>3, <2>3, <2>5, SoundHasAll
  <2> QED
    BY <2>2, <2>6, ClustersAre
<1>5. CASE curClus' = 0
  <2>1. File!Return("EIO", read) /\ curIdx' = curIdx
    BY <1>5 DEF File!Walk
  <2>2. read.start < size /\ (File!Sound => GivesTheFile(read.start, read.out))
    BY <1>1 DEF ReadInv, ProgressInv
  <2>3. /\ FileTypes' /\ ProgressInv' /\ RunInv' /\ File!SoundReadsTheFile' /\ File!ReadsEnough'
        /\ UNCHANGED File!fileVars
    BY <1>2, <2>1, <2>2, ReturnIs
  <2>4. File!CursorOnChain'
    BY <1>4, <1>5, <2>3, RestStays DEF File!CursorOnChain
  <2> QED
    BY <2>3, <2>4 DEF ReadInv, File!ReadsAreFaithful
<1>6. CASE curClus' # 0
  <2>1. curIdx' = curIdx + 1 /\ UNCHANGED <<File!fileVars, read, result, reads>>
    BY <1>6 DEF File!Walk
  <2>2. FileTypes'
    BY <1>2, <2>1 DEF ReadInv, FileTypes, File!fileVars
  <2>3. ProgressInv'
    BY <2>1, <2>2, RestStays DEF ReadInv, ProgressInv, File!Wanted, File!fileVars
  <2>4. RunInv'
    BY <1>1, <2>1 DEF RunInv
  <2>5. File!CursorOnChain'
    BY <1>4, <2>1, <2>2, RestStays DEF File!CursorOnChain
  <2> QED
    BY <2>1, <2>2, <2>3, <2>4, <2>5, RestStays DEF ReadInv, File!ReadsAreFaithful
<1> QED
  BY <1>5, <1>6

\* A call that fails returns what it has, and leaves the cursor on its chain.
LEMMA FaultKeeps ==
  ASSUME ReadInv, File!Fault
  PROVE  ReadInv'
<1>1. File!Return("EIO", read) /\ UNCHANGED <<curIdx, curClus>> /\ read.at # "idle"
  BY DEF File!Fault
<1>2. read \in Reads /\ read.start < size /\ (File!Sound => GivesTheFile(read.start, read.out))
  BY <1>1 DEF ReadInv, ProgressInv, FileTypes
<1>3. curIdx' \in Nat /\ curClus' \in Numbers
  BY <1>1 DEF ReadInv, FileTypes
<1>4. /\ FileTypes' /\ ProgressInv' /\ RunInv' /\ File!SoundReadsTheFile' /\ File!ReadsEnough'
      /\ UNCHANGED File!fileVars
  BY <1>1, <1>2, <1>3, ReturnIs
<1> QED
  BY <1>1, <1>4, RestStays DEF ReadInv, File!ReadsAreFaithful

\* A run begins at the cursor.
LEMMA ArriveKeeps ==
  ASSUME ReadInv, File!Arrive
  PROVE  ReadInv'
<1> DEFINE off == read.pos % ClusterBytes
<1>1. /\ read.at = "seek" /\ read.pos \div ClusterBytes = curIdx
      /\ read' = [read EXCEPT !.at = "extend", !.run = curClus, !.avail = ClusterBytes - off]
      /\ UNCHANGED <<File!fileVars, curIdx, curClus, result, reads>>
  BY DEF File!Arrive
<1>2. read \in Reads /\ read.pos \in Nat /\ curClus \in Nat /\ curIdx \in Nat
  BY <1>1, LeftInside, ClustersAre DEF ReadInv, FileTypes, Numbers
<1>3. /\ off \in Nat /\ ClusterBytes - off \in Nat /\ ClusterBytes - off >= 1
      /\ read.pos = curIdx * ClusterBytes + off /\ ClusterBytes \in Nat
  <2>1. ClusterBytes \in Nat \ {0}
    BY ClustersAre
  <2>2. off \in 0 .. ClusterBytes - 1 /\ read.pos = (read.pos \div ClusterBytes) * ClusterBytes + off
    BY <1>2, Place
  <2> HIDE DEF off
  <2>3. off \in Nat /\ ClusterBytes - off \in Nat /\ ClusterBytes - off >= 1
    BY <2>1, <2>2
  <2> QED
    BY <1>1, <2>1, <2>2, <2>3
<1> HIDE DEF off
<1>4. read' \in Reads /\ read'.start = read.start /\ read'.asked = read.asked /\ read'.pos = read.pos
      /\ read'.n = read.n /\ read'.out = read.out /\ read'.run = curClus /\ read'.avail = ClusterBytes - off
      /\ read'.at = "extend"
  BY <1>1, <1>2, <1>3 DEF Reads
<1>5. FileTypes'
  BY <1>1, <1>4 DEF ReadInv, FileTypes, File!fileVars
<1>6. ProgressInv'
  <2>2. GivesTheFile(read.start, read.out)' <=> GivesTheFile(read.start, read.out)
    BY <1>1, <1>4, <1>5, RestStays DEF GivesTheFile
  <2>3. File!Sound' <=> File!Sound
    BY <1>1, <1>5, RestStays
  <2> QED
    BY <1>1, <1>4, <2>2, <2>3 DEF ReadInv, ProgressInv, File!Wanted, File!fileVars
<1>7. RunInv'
  <2>1. read.pos + (ClusterBytes - off) = (curIdx + 1) * ClusterBytes
    BY <1>2, <1>3
  <2>2. File!Sound' => curClus = File!ClusterOf[curIdx]
    BY <1>1, <1>5, RestStays DEF ReadInv, File!ReadsAreFaithful, File!CursorOnChain
  <2>3. \A j \in curIdx .. curIdx : j = curIdx /\ j - curIdx = 0 /\ curClus + 0 = curClus
    BY <1>2
  <2>4. File!Sound' => \A j \in curIdx .. curIdx : File!ClusterOf[j] = curClus + (j - curIdx)
    BY <2>2, <2>3
  <2>5. read'.pos \div ClusterBytes = curIdx
    BY <1>1, <1>4
  <2> QED
    BY <1>1, <1>2, <1>3, <1>4, <1>5, <2>1, <2>4, <2>5, RestStays DEF RunInv
<1> QED
  BY <1>1, <1>5, <1>6, <1>7, RestStays DEF ReadInv, File!ReadsAreFaithful

\* The run grows by a cluster that follows on the disk, which is the next of
\* the chain.
LEMMA ExtendKeeps ==
  ASSUME ReadInv, File!Extend
  PROVE  ReadInv'
<1>1. /\ read.at = "extend" /\ read.avail < read.n /\ UNCHANGED <<File!fileVars, result, reads>>
  BY DEF File!Extend
<1>2. /\ read \in Reads /\ read.pos \in Nat /\ read.avail \in Nat /\ read.run \in Nat
      /\ curClus \in Numbers /\ curClus \in Nat /\ curIdx \in Nat /\ ClusterBytes \in Nat
  BY <1>1, LeftInside, ClustersAre DEF ReadInv, FileTypes, Numbers
<1>3. CASE File!fat_next(curClus) = curClus + 1
  <2>1. /\ curClus' = curClus + 1 /\ curIdx' = curIdx + 1
        /\ read' = [read EXCEPT !.avail = @ + ClusterBytes]
    BY <1>3 DEF File!Extend
  <2>2. read' \in Reads /\ read'.start = read.start /\ read'.asked = read.asked /\ read'.pos = read.pos
        /\ read'.n = read.n /\ read'.out = read.out /\ read'.run = read.run /\ read'.avail = read.avail + ClusterBytes
        /\ read'.at = "extend"
    BY <1>1, <1>2, <2>1 DEF Reads
  <2>3. curClus' \in Numbers
    BY <1>3, <2>1 DEF File!fat_next, Numbers
  <2>4. FileTypes'
    BY <1>1, <1>2, <2>1, <2>2, <2>3 DEF ReadInv, FileTypes, File!fileVars
  <2>5. File!ClusterOf' = File!ClusterOf /\ (File!Sound' <=> File!Sound)
    BY <1>1, <2>4, RestStays
  <2>6. ProgressInv'
    <3>1. GivesTheFile(read.start, read.out)' <=> GivesTheFile(read.start, read.out)
      BY <2>2, <2>5 DEF GivesTheFile
    <3> QED
      BY <1>1, <2>2, <2>5, <3>1 DEF ReadInv, ProgressInv, File!Wanted, File!fileVars
  <2>7. ASSUME File!Sound PROVE curClus' = File!ClusterOf[curIdx + 1] /\ curClus' # 0 /\ curClus = File!ClusterOf[curIdx]
    <3>1. ChainOf
      <4>1. first \in Clusters => ChainOf
        BY ChainIs
      <4> QED
        BY <4>1 DEF ReadInv, FileTypes
    <3>2. curClus = File!ClusterOf[curIdx]
      BY <2>7 DEF ReadInv, File!ReadsAreFaithful, File!CursorOnChain
    <3>3. File!ClusterOf[curIdx + 1] = curClus + 1
      BY <1>2, <1>3, <3>1, <3>2 DEF ChainOf
    <3> QED
      BY <1>2, <2>1, <3>2, <3>3
  <2>8. File!CursorOnChain'
    BY <2>1, <2>5, <2>7 DEF File!CursorOnChain
  <2>9. RunInv'
    <3> DEFINE q == read.pos \div ClusterBytes
    <3>1. /\ read.avail >= 1 /\ q <= curIdx /\ read.pos + read.avail = (curIdx + 1) * ClusterBytes
          /\ File!Sound => \A j \in q .. curIdx : File!ClusterOf[j] = read.run + (j - q)
      BY <1>1 DEF ReadInv, RunInv
    <3>2. q \in Nat
      BY <1>2, Place
    <3> HIDE DEF q
    <3>3. read.pos + (read.avail + ClusterBytes) = ((curIdx + 1) + 1) * ClusterBytes
      <4>1. ((curIdx + 1) + 1) * ClusterBytes = (curIdx + 1) * ClusterBytes + ClusterBytes
        BY <1>2
      <4>2. (curIdx + 1) * ClusterBytes \in Nat
        BY <1>2
      <4> QED
        BY <1>2, <3>1, <4>1, <4>2
    <3>4. ASSUME File!Sound, NEW j \in q .. curIdx + 1 PROVE File!ClusterOf[j] = read.run + (j - q)
      <4>1. CASE j \in q .. curIdx
        BY <3>1, <3>4, <4>1
      <4>2. CASE j = curIdx + 1
        <5>1. curIdx \in q .. curIdx
          BY <1>2, <3>1, <3>2
        <5>2. curClus = read.run + (curIdx - q) /\ File!ClusterOf[curIdx + 1] = curClus + 1
          BY <2>1, <2>7, <3>1, <3>4, <5>1
        <5> QED
          BY <1>2, <3>2, <4>2, <5>2
      <4> QED
        BY <1>2, <3>2, <4>1, <4>2
    <3>5. read'.pos \div ClusterBytes = q
      BY <2>2 DEF q
    <3> QED
      BY <1>2, <2>1, <2>2, <2>5, <3>1, <3>2, <3>3, <3>4, <3>5 DEF RunInv
  <2> QED
    BY <1>1, <2>4, <2>6, <2>8, <2>9, RestStays DEF ReadInv, File!ReadsAreFaithful
<1>4. CASE File!fat_next(curClus) # curClus + 1
  <2>1. read' = [read EXCEPT !.at = "transfer"] /\ UNCHANGED <<curIdx, curClus>>
    BY <1>4 DEF File!Extend
  <2>2. read' \in Reads /\ read'.start = read.start /\ read'.asked = read.asked /\ read'.pos = read.pos
        /\ read'.n = read.n /\ read'.out = read.out /\ read'.run = read.run /\ read'.avail = read.avail
        /\ read'.at = "transfer"
    BY <1>1, <1>2, <2>1 DEF Reads
  <2>4. FileTypes'
    BY <1>1, <2>1, <2>2 DEF ReadInv, FileTypes, File!fileVars
  <2>5. File!ClusterOf' = File!ClusterOf /\ (File!Sound' <=> File!Sound)
    BY <1>1, <2>4, RestStays
  <2>6. ProgressInv'
    <3>1. GivesTheFile(read.start, read.out)' <=> GivesTheFile(read.start, read.out)
      BY <2>2, <2>5 DEF GivesTheFile
    <3> QED
      BY <1>1, <2>2, <2>5, <3>1 DEF ReadInv, ProgressInv, File!Wanted, File!fileVars
  <2>7. RunInv'
    BY <1>1, <2>1, <2>2, <2>5 DEF ReadInv, RunInv
  <2> QED
    BY <1>1, <2>1, <2>4, <2>6, <2>7, RestStays DEF ReadInv, File!ReadsAreFaithful
<1> QED
  BY <1>3, <1>4

\* A byte of the run is the file's.
LEMMA RunIsTheFile ==
  ASSUME ReadInv, File!Sound, read.at \in {"extend", "transfer"}, NEW i \in Nat, i < read.avail
  PROVE  File!ByteAt(read.run, (read.pos % ClusterBytes) + i)
           = <<File!ClusterOf[(read.pos + i) \div ClusterBytes], (read.pos + i) % ClusterBytes>>
<1> DEFINE w == ClusterBytes
           q == read.pos \div w
           off == read.pos % w
           x == off + i
           d == x \div w
<1>1. /\ read.pos \in Nat /\ read.avail \in Nat /\ read.run \in Nat /\ curIdx \in Nat /\ w \in Nat \ {0}
  BY LeftInside, ClustersAre DEF ReadInv, FileTypes
<1>2. q \in Nat /\ off \in 0 .. w - 1 /\ read.pos = q * w + off /\ q * w \in Nat
  BY <1>1, Place
<1>3. x \in Nat /\ d \in Nat
  <2>1. x \in Nat
    <3> HIDE DEF off
    <3> QED
      BY <1>1, <1>2
  <2> QED
    BY <2>1, Place
<1>4. /\ q <= curIdx /\ read.pos + read.avail = (curIdx + 1) * w
      /\ \A j \in q .. curIdx : File!ClusterOf[j] = read.run + (j - q)
  BY DEF ReadInv, RunInv
<1>5. (q * w + x) \div w = q + d /\ (q * w + x) % w = x % w
  BY <1>2, <1>3, Behind
<1>6. File!ByteAt(read.run, x) = <<read.run + d, x % w>>
  BY DEF File!ByteAt
<1> HIDE DEF off, q
<1>7. read.pos + i = q * w + x
  BY <1>1, <1>2
<1>8. (curIdx + 1) * w = q * w + (curIdx + 1 - q) * w /\ curIdx + 1 - q \in Nat
  <2> DEFINE m == curIdx + 1 - q
  <2>1. m \in Nat /\ curIdx + 1 = q + m
    BY <1>1, <1>2, <1>4
  <2> HIDE DEF m
  <2>2. (q + m) * w = q * w + m * w
    BY <1>1, <1>2, <2>1
  <2> QED
    BY <2>1, <2>2 DEF m
<1>9. x < (curIdx + 1 - q) * w
  <2> DEFINE t == (curIdx + 1 - q) * w
             u == q * w
  <2>1. t \in Nat /\ u \in Nat /\ u + off + read.avail = u + t
    BY <1>1, <1>2, <1>4, <1>8
  <2> HIDE DEF t, u
  <2>2. off + i < t
    BY <1>1, <1>2, <2>1
  <2> QED
    BY <2>2 DEF t
<1>10. d < curIdx + 1 - q
  BY <1>3, <1>8, <1>9, Within
<1> HIDE DEF d, x
<1>11. q + d \in q .. curIdx /\ (q + d) - q = d
  BY <1>1, <1>2, <1>3, <1>10
<1>12. File!ClusterOf[q + d] = read.run + d
  BY <1>4, <1>11
<1> QED
  BY <1>5, <1>6, <1>7, <1>12 DEF off, x

\* One string of bytes behind another.
LEMMA Joined ==
  ASSUME NEW s \in Bytes, NEW t \in Bytes
  PROVE  /\ s \o t \in Bytes /\ Len(s \o t) = Len(s) + Len(t) /\ Len(s) \in Nat /\ Len(t) \in Nat
         /\ \A k \in 1 .. Len(s) : (s \o t)[k] = s[k]
         /\ \A h \in 1 .. Len(t) : (s \o t)[Len(s) + h] = t[h]
BY SMTT(30) DEF Bytes

\* A part of a run is read.
LEMMA RunReadKeeps ==
  ASSUME ReadInv, File!Transfer
  PROVE  ReadInv'
<1> DEFINE chunk == IF read.avail < read.n THEN read.avail ELSE read.n
           off == read.pos % ClusterBytes
           more == [k \in 1 .. chunk |-> File!ByteAt(read.run, off + k - 1)]
           now == [read EXCEPT !.at = "seek", !.pos = @ + chunk, !.n = @ - chunk, !.out = @ \o more]
<1>1. /\ read.at \in {"extend", "transfer"} /\ UNCHANGED <<curIdx, curClus>>
      /\ IF now.n > 0 THEN read' = now /\ UNCHANGED <<File!fileVars, result, reads>> ELSE File!Return("success", now)
  BY DEF File!Transfer
<1>2. /\ read \in Reads /\ size \in Nat /\ read.start \in Nat /\ read.pos \in Nat /\ read.n \in Nat
      /\ read.asked \in Nat /\ read.avail \in Nat /\ read.run \in Nat /\ read.avail >= 1 /\ read.n >= 1
  BY <1>1, LeftInside DEF ReadInv, ProgressInv, RunInv
<1>3. chunk \in Nat /\ chunk >= 1 /\ chunk <= read.n /\ chunk <= read.avail
  BY <1>2
<1>4. /\ read.start < size /\ read.pos >= read.start
      /\ read.pos + read.n = read.start + File!Wanted(read.start, read.asked)
      /\ Len(read.out) = read.pos - read.start
      /\ File!Sound => GivesTheFile(read.start, read.out)
      /\ File!Wanted(read.start, read.asked) \in Nat
  BY <1>1, <1>2, WantedIs DEF ReadInv, ProgressInv
<1> HIDE DEF chunk
<1>5. more \in Bytes /\ Len(more) = chunk /\ \A k \in 1 .. chunk : more[k] = File!ByteAt(read.run, off + k - 1)
  <2>1. off \in Nat /\ ClusterBytes \in Nat \ {0}
    BY <1>2, Place, ClustersAre
  <2> HIDE DEF off
  <2>2. \A k \in 1 .. chunk : off + (k - 1) \in Nat
    BY <1>3, <2>1
  <2>3. \A x \in Nat : File!ByteAt(read.run, x) \in Nat \X Nat
    <3> TAKE x \in Nat
    <3>1. x \div ClusterBytes \in Nat /\ x % ClusterBytes \in Nat
      BY <2>1, Place
    <3> QED
      BY <1>2, <3>1 DEF File!ByteAt
  <2>4. \A k \in 1 .. chunk : File!ByteAt(read.run, off + k - 1) \in Nat \X Nat
    BY <2>2, <2>3
  <2> QED
    BY <1>3, <2>4 DEF Bytes
<1>6. \A k \in 1 .. chunk : off + k - 1 = off + (k - 1) /\ k - 1 \in Nat /\ k - 1 < read.avail
  BY <1>2, <1>3
<1>7. File!Sound => \A k \in 1 .. chunk :
        more[k] = <<File!ClusterOf[(read.pos + (k - 1)) \div ClusterBytes], (read.pos + (k - 1)) % ClusterBytes>>
  BY <1>1, <1>5, <1>6, RunIsTheFile
<1> HIDE DEF more, off
<1>8. /\ now \in Reads /\ now.at = "seek" /\ now.start = read.start /\ now.asked = read.asked
      /\ now.pos = read.pos + chunk /\ now.n = read.n - chunk /\ now.out = read.out \o more
  <2>1. read.out \in Bytes /\ read.pos + chunk \in Nat /\ read.n - chunk \in Nat
    BY <1>2, <1>3 DEF Reads
  <2>2. read.out \o more \in Bytes
    BY <1>5, <2>1, Joined
  <2> HIDE DEF more, chunk
  <2> QED
    BY <1>2, <2>1, <2>2 DEF Reads
<1>9. read.out \in Bytes /\ Len(read.out) \in Nat
  BY <1>2 DEF Reads, Bytes
<1> HIDE DEF now
<1>10. Len(now.out) = now.pos - read.start
  <2>1. Len(now.out) = Len(read.out) + chunk
    BY <1>5, <1>8, <1>9, Joined
  <2>2. Len(read.out) = read.pos - read.start /\ now.pos = read.pos + chunk
    BY <1>4, <1>8
  <2> QED
    BY <1>2, <1>3, <2>1, <2>2
<1>11. File!Sound => GivesTheFile(now.start, now.out)
  <2> SUFFICES ASSUME File!Sound, NEW k \in 1 .. Len(now.out)
               PROVE  now.out[k] = <<File!ClusterOf[(read.start + k - 1) \div ClusterBytes], (read.start + k - 1) % ClusterBytes>>
    BY <1>8 DEF GivesTheFile
  <2>1. CASE k \in 1 .. Len(read.out)
    <3>1. now.out[k] = read.out[k]
      BY <1>5, <1>8, <1>9, <2>1, Joined
    <3> QED
      BY <1>4, <2>1, <3>1 DEF GivesTheFile
  <2>2. CASE k \notin 1 .. Len(read.out)
    <3> DEFINE h == k - Len(read.out)
    <3>1. h \in 1 .. chunk /\ k = Len(read.out) + h
      <4>1. Len(now.out) = Len(read.out) + chunk
        BY <1>5, <1>8, <1>9, Joined
      <4> QED
        BY <1>3, <1>9, <2>2, <4>1
    <3>2. now.out[k] = more[h]
      BY <1>5, <1>8, <1>9, <3>1, Joined
    <3>3. read.start + (k - 1) = read.pos + (h - 1)
      <4>1. k \in Int /\ h \in Int /\ k = (read.pos - read.start) + h
        BY <1>3, <1>4, <1>9, <3>1
      <4>2. \A a, b, x, y \in Int : x = (b - a) + y => a + (x - 1) = b + (y - 1)
        OBVIOUS
      <4>3. read.start \in Int /\ read.pos \in Int
        BY <1>2
      <4> HIDE DEF h
      <4> QED
        BY <4>1, <4>2, <4>3
    <3> HIDE DEF h
    <3> QED
      BY <1>7, <3>1, <3>2, <3>3
  <2> QED
    BY <2>1, <2>2
<1>12. CASE now.n > 0
  <2>1. read' = now /\ UNCHANGED <<File!fileVars, result, reads>>
    BY <1>1, <1>12
  <2>2. FileTypes'
    BY <1>1, <1>8, <2>1 DEF ReadInv, FileTypes, File!fileVars
  <2>3. File!ClusterOf' = File!ClusterOf /\ (File!Sound' <=> File!Sound)
    BY <2>1, <2>2, RestStays
  <2>4. ProgressInv'
    <3>1. GivesTheFile(read.start, read.out)' <=> GivesTheFile(now.start, now.out)
      BY <2>1, <2>3 DEF GivesTheFile
    <3>2. now.pos >= read.start /\ now.n >= 1 /\ now.pos + now.n = read.pos + read.n
      <4>1. now.pos = read.pos + chunk /\ now.n = read.n - chunk /\ now.n > 0 /\ read.pos >= read.start
        BY <1>4, <1>8, <1>12
      <4> QED
        BY <1>2, <1>3, <4>1
    <3>3. File!Wanted(read.start, read.asked)' = File!Wanted(read.start, read.asked)
      BY <1>8, <2>1 DEF File!Wanted, File!fileVars
    <3> QED
      BY <1>4, <1>8, <1>10, <1>11, <2>1, <2>3, <3>1, <3>2, <3>3 DEF ProgressInv, File!fileVars
  <2>5. RunInv'
    BY <1>8, <2>1 DEF RunInv
  <2> QED
    BY <1>1, <2>1, <2>2, <2>4, <2>5, RestStays DEF ReadInv, File!ReadsAreFaithful
<1>13. CASE ~(now.n > 0)
  <2>1. File!Return("success", now)
    BY <1>1, <1>13
  <2>2. Len(now.out) = File!Wanted(now.start, now.asked)
    BY <1>2, <1>3, <1>4, <1>8, <1>10, <1>13
  <2>3. curIdx' \in Nat /\ curClus' \in Numbers
    BY <1>1 DEF ReadInv, FileTypes
  <2>4. /\ FileTypes' /\ ProgressInv' /\ RunInv' /\ File!SoundReadsTheFile' /\ File!ReadsEnough'
        /\ UNCHANGED File!fileVars
    BY <1>4, <1>8, <1>11, <2>1, <2>2, <2>3, ReturnIs
  <2> QED
    BY <1>1, <2>4, RestStays DEF ReadInv, File!ReadsAreFaithful
<1> QED
  BY <1>12, <1>13

\* What does not touch the file keeps what holds of it.
LEMMA ReadStays ==
  ASSUME ReadInv, UNCHANGED cursorVars
  PROVE  ReadInv'
<1>1. UNCHANGED <<File!fileVars, curIdx, curClus, read, result, reads>>
  BY DEF cursorVars, File!fileVars
<1>2. FileTypes'
  BY <1>1 DEF ReadInv, FileTypes, File!fileVars
<1>3. File!ClusterOf' = File!ClusterOf /\ (File!Sound' <=> File!Sound)
  BY <1>1, <1>2, RestStays
<1>4. GivesTheFile(read.start, read.out)' <=> GivesTheFile(read.start, read.out)
  BY <1>1, <1>3 DEF GivesTheFile
<1>5. ProgressInv'
  BY <1>1, <1>3, <1>4 DEF ReadInv, ProgressInv, File!Wanted, File!fileVars
<1>6. RunInv'
  BY <1>1, <1>3 DEF ReadInv, RunInv
<1> QED
  BY <1>1, <1>2, <1>5, <1>6, RestStays DEF ReadInv, File!ReadsAreFaithful

LEMMA InitReadInv ==
  ASSUME File!Init
  PROVE  ReadInv
<1>1. /\ fat \in Fats /\ first \in Clusters /\ size \in Sizes /\ curIdx = 0 /\ curClus = first /\ reads = 0
      /\ read.at = "idle" /\ result = [status |-> "none", pos |-> 0, asked |-> 0, out |-> <<>>]
  BY DEF File!Init, File!Idle, File!NoResult
<1>2. <<>> \in Bytes
  BY DEF Bytes
<1>3. FileTypes
  <2>1. result \in Results
    BY <1>1, <1>2 DEF Results
  <2> QED
    BY <1>1, <2>1, ClustersAre DEF FileTypes, Numbers
<1>4. ProgressInv /\ RunInv
  BY <1>1 DEF ProgressInv, RunInv
<1>5. File!CursorOnChain
  <2>1. first \in Clusters => ChainOf
    BY ChainIs
  <2> QED
    BY <1>1, <2>1, ClustersAre DEF ChainOf, File!CursorOnChain
<1>6. File!SoundReadsTheFile /\ File!ReadsEnough
  BY <1>1 DEF File!SoundReadsTheFile, File!ReadsTheFile, File!ReadsEnough
<1> QED
  BY <1>3, <1>4, <1>5, <1>6 DEF ReadInv, File!ReadsAreFaithful

LEMMA NextReadInv ==
  ASSUME ReadInv, [LayersNext]_<<layer, ioVars, cursorVars, mountVars, dirVars, isoVars, treeVars, loadVars>>
  PROVE  ReadInv'
<1>1. CASE File!Next
  BY <1>1, BeginReadKeeps, RewindKeeps, WalkKeeps, ArriveKeeps, ExtendKeeps, RunReadKeeps, FaultKeeps DEF File!Next
<1>2. CASE UNCHANGED cursorVars
  BY <1>2, ReadStays
<1> QED
  BY <1>1, <1>2 DEF LayersNext

LEMMA ReadInvariant == LayersSpec => []ReadInv
<1>1. LayersInit => ReadInv
  BY InitReadInv DEF LayersInit
<1>2. ReadInv /\ [LayersNext]_<<layer, ioVars, cursorVars, mountVars, dirVars, isoVars, treeVars, loadVars>> => ReadInv'
  BY NextReadInv
<1> QED
  BY <1>1, <1>2, PTL DEF LayersSpec

\* An instance stands where it was sent, and a read of a sound file gives that
\* file's bytes, all that were asked for, however earlier reads ended
\* (io.c:127-209, fat.c:236-276).
THEOREM ReadsGiveTheFile == LayersSpec => []ReadsAreFaithful
<1>1. ReadInv => File!ReadsAreFaithful
  BY DEF ReadInv
<1>2. SeeksArrive /\ File!ReadsAreFaithful => ReadsAreFaithful
  BY DEF ReadsAreFaithful
<1> QED
  BY <1>1, <1>2, ReadInvariant, SeeksArriveWhereSent, PTL
-----------------------------------------------------------------------------
(* Which entry a name leads to (fat.c:109-138, io.c:263-283). *)

\* A chain begins at d, and each of its clusters is the next of the one before.
ChainsFrom(w, next, d) ==
  /\ w \in Seq(DirClusters) /\ Len(w) > 0 /\ w[1] = d
  /\ \A i \in 1 .. Len(w) - 1 : next[w[i]] = w[i + 1]

\* One link more, where there is one.
Linked(next, w) == IF next[w[Len(w)]] = 0 THEN w ELSE Append(w, next[w[Len(w)]])

LEMMA LinkChains ==
  ASSUME NEW next, NEW d, NEW w, ChainsFrom(w, next, d), \A c \in DirClusters : next[c] \in DirClusters \cup {0}
  PROVE  ChainsFrom(Linked(next, w), next, d)
<1>1. w \in Seq(DirClusters) /\ Len(w) \in Nat /\ Len(w) > 0 /\ w[1] = d /\ w[Len(w)] \in DirClusters
      /\ \A i \in 1 .. Len(w) - 1 : next[w[i]] = w[i + 1]
  BY DEF ChainsFrom
<1>2. CASE next[w[Len(w)]] = 0
  BY <1>2 DEF Linked
<1>3. CASE next[w[Len(w)]] # 0
  <2> DEFINE c == next[w[Len(w)]]
             v == Append(w, c)
  <2>1. c \in DirClusters
    BY <1>1, <1>3
  <2> HIDE DEF c
  <2>2. /\ v \in Seq(DirClusters) /\ Len(v) = Len(w) + 1 /\ v[Len(w) + 1] = c
        /\ \A i \in 1 .. Len(w) : v[i] = w[i]
    BY <1>1, <2>1
  <2> HIDE DEF v
  <2>3. ASSUME NEW i \in 1 .. Len(v) - 1 PROVE next[v[i]] = v[i + 1]
    <3>1. CASE i = Len(w)
      BY <1>1, <2>2, <3>1 DEF c
    <3>2. CASE i # Len(w)
      <4>1. i \in 1 .. Len(w) - 1 /\ i \in 1 .. Len(w) /\ i + 1 \in 1 .. Len(w)
        BY <1>1, <2>2, <3>2
      <4> QED
        BY <1>1, <2>2, <4>1
    <3> QED
      BY <3>1, <3>2
  <2>4. v[1] = d /\ Len(v) > 0
    BY <1>1, <2>2
  <2>5. ChainsFrom(v, next, d)
    BY <2>2, <2>3, <2>4 DEF ChainsFrom
  <2>6. Linked(next, w) = v
    BY <1>3 DEF Linked, v, c
  <2> QED
    BY <2>5, <2>6
<1> QED
  BY <1>2, <1>3

\* FatDir counts clusters as FiniteSets does.
LEMMA DirCounts ==
  /\ Dir!Cardinality(DirClusters) = Cardinality(DirClusters)
  /\ Dir!IsFiniteSet(DirClusters) <=> IsFiniteSet(DirClusters)
BY Zenon DEF Dir!Cardinality, Cardinality, Dir!IsFiniteSet, IsFiniteSet

\* The links of a chain, one after the other, are a chain.
LEMMA LinksChain ==
  ASSUME NEW next, NEW d \in DirClusters, \A c \in DirClusters : next[c] \in DirClusters \cup {0},
         IsFiniteSet(DirClusters)
  PROVE  ChainsFrom(Dir!Chain(next, d), next, d)
<1> DEFINE n == Dir!Cardinality(DirClusters)
           D == {w \in Seq(DirClusters) : ChainsFrom(w, next, d)}
           start == <<d>>
           stepping == [k \in 1 .. n |-> [w \in D |-> Linked(next, w)]]
           links == Dir!Links(next, d)
           Is(g) == g = [k \in 0 .. n |-> IF k = 0 THEN <<d>>
                                          ELSE IF next[g[k - 1][Len(g[k - 1])]] = 0 THEN g[k - 1]
                                          ELSE Append(g[k - 1], next[g[k - 1][Len(g[k - 1])]])]
<1>1. n \in Nat
  BY FS_CardinalityType, DirCounts
<1>2. start \in D
  BY DEF ChainsFrom
<1>3. \A w \in D : Linked(next, w) \in D
  BY LinkChains DEF ChainsFrom
<1>4. StayIn(D, stepping, n)
  <2> HIDE DEF D, n
  <2> QED
    BY <1>3, Zenon DEF StayIn
<1>5. PICK f : Takes(f, D, start, stepping, n)
  <2> HIDE DEF D, n, start, stepping
  <2> QED
    BY <1>1, <1>2, <1>4, RecursionExists, Zenon
<1>6. \A k \in 1 .. n : f[k] = Linked(next, f[k - 1])
  <2> HIDE DEF D
  <2>1. \A k \in 1 .. n : f[k - 1] \in D
    BY <1>1, <1>5 DEF Takes
  <2> QED
    BY <1>5, <2>1 DEF Takes
<1> HIDE DEF D, stepping
<1>7. Is(f)
  <2>1. \A k \in 0 .. n : k = 0 \/ k \in 1 .. n
    BY <1>1
  <2>2. f = [k \in 0 .. n |-> f[k]] /\ f[0] = <<d>>
    BY <1>5 DEF Takes
  <2> HIDE DEF n
  <2> QED
    BY <1>6, <2>1, <2>2, Zenon DEF Linked
<1>8. links = CHOOSE g : Is(g)
  BY Zenon DEF Dir!Links
<1>9. Is(links)
  <2> HIDE DEF links, Is
  <2> QED
    BY <1>7, <1>8, Zenon
<1> HIDE DEF links
<1>10. links[0] = start /\ \A k \in 1 .. n : links[k] = Linked(next, links[k - 1])
  <2>1. 0 \in 0 .. n /\ \A k \in 1 .. n : k \in 0 .. n /\ k # 0
    BY <1>1
  <2> HIDE DEF n
  <2> QED
    BY <1>9, <2>1, Zenon DEF Linked
<1> HIDE DEF Is, start, n
<1>11. \A k \in 0 .. n : links[k] \in D
  <2> DEFINE S == {k \in 0 .. n : links[k] \in D}
  <2>1. 0 \in S
    BY <1>1, <1>2, <1>10
  <2>2. \A k \in 1 .. n : k - 1 \in S => k \in S
    BY <1>1, <1>3, <1>10
  <2> HIDE DEF S
  <2>3. \A k \in 0 .. n : k \in S
    BY <1>1, <2>1, <2>2, InductionTo
  <2> QED
    BY <2>3 DEF S
<1>12. links[n] \in D
  BY <1>1, <1>11
<1>13. Dir!Chain(next, d) = links[n]
  BY Zenon DEF Dir!Chain, links, n
<1> QED
  BY <1>12, <1>13 DEF D

\* The sectors of a chain are those of its clusters, one cluster after the other.
LEMMA ChainSectors ==
  ASSUME NEW d \in DirClusters, Spc \in Nat, Len(Dir!Chain(disk.next, d)) \in Nat
  PROVE  /\ DOMAIN Dir!Sectors(d) = 1 .. Len(Dir!Chain(disk.next, d)) * Spc
         /\ \A i \in 1 .. Len(Dir!Chain(disk.next, d)), j \in 0 .. Spc - 1 :
              /\ (i - 1) * Spc + 1 + j \in DOMAIN Dir!Sectors(d)
              /\ Dir!Sectors(d)[(i - 1) * Spc + 1 + j] = Dir!cluster_sector(Dir!Chain(disk.next, d)[i]) + j
<1> DEFINE w == Dir!Chain(disk.next, d)
           n == Len(w)
<1>1. d # 0
  BY LayersAssumption DEF LayersAssumption, Dir!FatDirAssumption
<1>2. Dir!Sectors(d) = [k \in 1 .. n * Spc |-> Dir!cluster_sector(w[((k - 1) \div Spc) + 1]) + ((k - 1) % Spc)]
  BY <1>1, Zenon DEF Dir!Sectors
<1>3. n \in Nat
  OBVIOUS
<1> HIDE DEF w, n
<1>4. ASSUME NEW i \in 1 .. n, NEW j \in 0 .. Spc - 1
      PROVE  /\ (i - 1) * Spc + 1 + j \in 1 .. n * Spc
             /\ (((i - 1) * Spc + 1 + j) - 1) \div Spc + 1 = i /\ (((i - 1) * Spc + 1 + j) - 1) % Spc = j
  <2>1. Spc \in Nat \ {0} /\ i - 1 \in Nat
    BY <1>3
  <2>2. (i - 1) * Spc \in Nat /\ i * Spc = (i - 1) * Spc + Spc /\ i * Spc <= n * Spc
    <3>1. i * Spc <= n * Spc
      BY <1>3, <2>1, FewerTimes
    <3>2. (i - 1) * Spc \in Nat /\ i * Spc = (i - 1) * Spc + Spc
      BY <1>3, <2>1
    <3> QED
      BY <3>1, <3>2
  <2>3. \A a \in Nat, r \in 0 .. Spc - 1 : (a * Spc + r) \div Spc = a /\ (a * Spc + r) % Spc = r
    BY <2>1
  <2>4. ((i - 1) * Spc + 1 + j) - 1 = (i - 1) * Spc + j
    BY <2>2
  <2>5. ((i - 1) * Spc + j) \div Spc = i - 1 /\ ((i - 1) * Spc + j) % Spc = j
    BY <2>1, <2>3
  <2>6. (i - 1) * Spc + 1 + j \in 1 .. n * Spc
    <3>1. n * Spc \in Nat
      BY <1>3
    <3> QED
      BY <2>1, <2>2, <3>1
  <2> QED
    BY <2>1, <2>4, <2>5, <2>6
<1>5. DOMAIN Dir!Sectors(d) = 1 .. n * Spc
  BY <1>2
<1>6. ASSUME NEW i \in 1 .. n, NEW j \in 0 .. Spc - 1
      PROVE  /\ (i - 1) * Spc + 1 + j \in DOMAIN Dir!Sectors(d)
             /\ Dir!Sectors(d)[(i - 1) * Spc + 1 + j] = Dir!cluster_sector(w[i]) + j
  <2> DEFINE k == (i - 1) * Spc + 1 + j
  <2>1. k \in 1 .. n * Spc /\ (k - 1) \div Spc + 1 = i /\ (k - 1) % Spc = j
    BY <1>4
  <2> HIDE DEF k
  <2>2. k \in DOMAIN Dir!Sectors(d) /\ Dir!Sectors(d)[k] = Dir!cluster_sector(w[i]) + j
    BY <1>2, <1>5, <2>1, Zenon
  <2> QED
    BY <2>2 DEF k
<1> QED
  BY <1>5, <1>6, Zenon DEF w, n

\* What the links of a disk's directory make up.
LEMMA DirectoryChains ==
  ASSUME LookupInv, NEW d \in DirClusters
  PROVE  /\ ChainsFrom(Dir!Chain(disk.next, d), disk.next, d)
         /\ Len(Dir!Chain(disk.next, d)) \in Nat \ {0}
         /\ disk.next[Dir!Chain(disk.next, d)[Len(Dir!Chain(disk.next, d))]] = 0
         /\ \A i \in 1 .. Len(Dir!Chain(disk.next, d)) : Dir!Chain(disk.next, d)[i] \in DirClusters
<1>1. /\ \A c \in DirClusters : disk.next[c] \in DirClusters \cup {0}
      /\ disk.next[Dir!Chain(disk.next, d)[Len(Dir!Chain(disk.next, d))]] = 0
      /\ IsFiniteSet(DirClusters)
  BY LayersAssumption, DirCounts DEF LayersAssumption, Dir!FatDirAssumption, LookupInv
<1>2. ChainsFrom(Dir!Chain(disk.next, d), disk.next, d)
  BY <1>1, LinksChain, Zenon
<1> HIDE DEF ChainsFrom
<1>3. Dir!Chain(disk.next, d) \in Seq(DirClusters) /\ Len(Dir!Chain(disk.next, d)) > 0
  BY <1>2 DEF ChainsFrom
<1> QED
  BY <1>1, <1>2, <1>3

\* Where the sectors of a directory are.
LEMMA SectorsAre ==
  ASSUME LookupInv, dir \in DirClusters \cup {0}
  PROVE  \A k \in DOMAIN Dir!Sectors(dir) : k \in Nat \ {0} /\ Dir!Sectors(dir)[k] \in DOMAIN disk.secs
<1>1. RootSecs \in Nat /\ Spc \in Nat /\ 0 \notin DirClusters /\ disk \in Disks /\ 1 .. RootSecs \subseteq DOMAIN disk.secs
  BY LayersAssumption DEF LayersAssumption, Dir!FatDirAssumption, LookupInv
<1>2. CASE dir = 0
  <2>1. Dir!Sectors(dir) = [k \in 1 .. RootSecs |-> k]
    BY <1>2, Zenon DEF Dir!Sectors
  <2> QED
    BY <1>1, <2>1
<1>3. CASE dir \in DirClusters
  <2> DEFINE w == Dir!Chain(disk.next, dir)
             n == Len(w)
  <2>1. n \in Nat /\ \A i \in 1 .. n : w[i] \in DirClusters
    BY <1>3, DirectoryChains
  <2>2. /\ DOMAIN Dir!Sectors(dir) = 1 .. n * Spc
        /\ \A i \in 1 .. n, j \in 0 .. Spc - 1 : Dir!Sectors(dir)[(i - 1) * Spc + 1 + j] = Dir!cluster_sector(w[i]) + j
    BY <1>1, <1>3, <2>1, ChainSectors
  <2> HIDE DEF w, n
  <2>3. ASSUME NEW k \in 1 .. n * Spc PROVE Dir!Sectors(dir)[k] \in DOMAIN disk.secs
    <3> DEFINE a == (k - 1) \div Spc
               j == (k - 1) - a * Spc
    <3>1. Spc \in Nat \ {0}
      <4>1. CASE Spc = 0
        BY <2>1, <4>1
      <4> QED
        BY <1>1, <4>1
    <3>2. k - 1 \in Nat /\ n * Spc \in Nat
      BY <1>1, <2>1
    <3>3. a \in Nat /\ a * Spc <= k - 1 /\ k - 1 < (a + 1) * Spc
      BY <3>1, <3>2, Quotient
    <3> HIDE DEF a
    <3>4. a * Spc \in Nat /\ (a + 1) * Spc = a * Spc + Spc
      BY <3>1, <3>3
    <3>5. j \in 0 .. Spc - 1 /\ k = a * Spc + 1 + j
      BY <3>1, <3>2, <3>3, <3>4
    <3> HIDE DEF j
    <3>6. a < n
      <4>1. CASE n <= a
        <5>1. n * Spc <= a * Spc
          BY <2>1, <3>1, <3>3, <4>1, FewerTimes
        <5> QED
          BY <3>2, <3>3, <3>4, <5>1
      <4> QED
        BY <2>1, <3>3, <4>1
    <3> DEFINE i == a + 1
    <3>7. i \in 1 .. n /\ i - 1 = a
      BY <2>1, <3>3, <3>6
    <3> HIDE DEF i
    <3>8. Dir!Sectors(dir)[k] = Dir!cluster_sector(w[i]) + j
      BY <2>2, <3>5, <3>7
    <3>9. w[i] \in DirClusters
      BY <2>1, <3>7
    <3>10. /\ Dir!cluster_sector(w[i]) \in Nat
           /\ Dir!cluster_sector(w[i]) .. Dir!cluster_sector(w[i]) + Spc - 1 \subseteq DOMAIN disk.secs
      BY <1>1, <3>9, ClusterIsOnDisk
    <3> QED
      BY <3>1, <3>5, <3>8, <3>10
  <2> QED
    BY <1>1, <2>1, <2>2, <2>3
<1> QED
  BY <1>2, <1>3

\* Nothing in the first pos sectors of the directory ends the search.
Passed(pos) ==
  \A i \in 1 .. pos : i \in DOMAIN Dir!Sectors(dir) /\ Dir!Stops(disk.secs[Dir!Sectors(dir)[i]]) = {}

\* The sectors in hand follow them,
InHand(s, pos) ==
  \A j \in 0 .. s.left - 1 : pos + 1 + j \in DOMAIN Dir!Sectors(dir) /\ Dir!Sectors(dir)[pos + 1 + j] = s.sec + j

\* and are the last of the fixed root, or those of a cluster of the chain.
Belongs(s, pos) ==
  \/ s.clus = 0 /\ dir = 0 /\ pos + s.left = RootSecs
  \/ /\ s.clus # 0 /\ dir \in DirClusters
     /\ \E i \in 1 .. Len(Dir!Chain(disk.next, dir)) :
          s.clus = Dir!Chain(disk.next, dir)[i] /\ pos + s.left = i * Spc

SearchInv == search.on => \E pos \in Nat : Passed(pos) /\ InHand(search, pos) /\ Belongs(search, pos)

\* The parts of a step that goes on in the same directory.
LEMMA SearchGoesOn ==
  ASSUME UNCHANGED <<disk, path, dir>>, NEW s, search' = s, NEW pos \in Nat, Passed(pos), InHand(s, pos), Belongs(s, pos)
  PROVE  SearchInv'
<1>0. Dir!Sectors(dir)' = Dir!Sectors(dir)
  BY Zenon DEF Dir!Sectors, Dir!cluster_sector
<1>1. Passed(pos)'
  BY <1>0, Zenon DEF Passed, Dir!Stops, Dir!Live, Dir!FirstName
<1>2. InHand(search, pos)'
  BY <1>0, Zenon DEF InHand
<1>3. Belongs(search, pos)'
  BY DEF Belongs
<1> QED
  BY <1>1, <1>2, <1>3 DEF SearchInv

\* The places of a directory.
LEMMA PlacesAre ==
  ASSUME NEW q
  PROVE  q \in Dir!Places(dir) <=> /\ q = <<q[1], q[2]>> /\ q[1] \in DOMAIN Dir!Sectors(dir)
                                   /\ q[2] \in DOMAIN disk.secs[Dir!Sectors(dir)[q[1]]]
<1>1. ASSUME NEW s \in DOMAIN Dir!Sectors(dir), NEW k \in DOMAIN disk.secs[Dir!Sectors(dir)[s]]
      PROVE  <<s, k>> \in Dir!Places(dir)
  BY <1>1 DEF Dir!Places
<1>2. ASSUME q \in Dir!Places(dir)
      PROVE  \E s \in DOMAIN Dir!Sectors(dir) : \E k \in DOMAIN disk.secs[Dir!Sectors(dir)[s]] : q = <<s, k>>
  BY <1>2 DEF Dir!Places
<1> QED
  BY <1>1, <1>2

\* An entry in a sector where nothing stops is not looked for and ends nothing.
LEMMA PassedOver ==
  ASSUME NEW q \in Dir!Places(dir), NEW es, es = disk.secs[Dir!Sectors(dir)[q[1]]], q[2] \notin Dir!Stops(es)
  PROVE  Dir!EntryAt(dir, q).kind # "end" /\ q \notin Dir!Named(dir, Dir!FirstName)
<1>1. Dir!EntryAt(dir, q) = es[q[2]]
  BY DEF Dir!EntryAt
<1>2. q[2] \in DOMAIN es
  BY PlacesAre
<1>3. es[q[2]].kind # "end" /\ ~ (Dir!Live(es[q[2]]) /\ es[q[2]].name = Dir!FirstName)
  BY <1>2 DEF Dir!Stops
<1>4. ASSUME q \in Dir!Named(dir, Dir!FirstName) PROVE FALSE
  <2>1. Dir!EntryAt(dir, q).kind \in {"file", "dir"} /\ Dir!EntryAt(dir, q).name = Dir!FirstName
    BY <1>4, Zenon DEF Dir!Named
  <2> QED
    BY <1>1, <1>3, <2>1 DEF Dir!Live
<1> QED
  BY <1>1, <1>3, <1>4

\* The directory is known to be one while it is searched.
LEMMA SearchedIsDirectory ==
  ASSUME LookupInv, search.on
  PROVE  dir \in DirClusters \cup {0}
BY DEF LookupInv, Dir!EndsAtFile

\* Once all of it is passed, no entry has the name.
LEMMA PassedToTheEnd ==
  ASSUME NEW pos, Passed(pos), DOMAIN Dir!Sectors(dir) \subseteq 1 .. pos
  PROVE  Dir!Named(dir, Dir!FirstName) = {}
<1>1. ASSUME NEW q \in Dir!Named(dir, Dir!FirstName) PROVE FALSE
  <2>1. q \in Dir!Places(dir)
    BY <1>1, Zenon DEF Dir!Named
  <2>2. q[1] \in DOMAIN Dir!Sectors(dir)
    BY <2>1, PlacesAre
  <2> DEFINE es == disk.secs[Dir!Sectors(dir)[q[1]]]
  <2>3. Dir!Stops(es) = {}
    BY <2>2 DEF Passed
  <2> QED
    BY <1>1, <2>1, <2>3, PassedOver
<1> QED
  BY <1>1

\* The first entry of a sector at which the search stops, where it stopped in none before.
StopsAt(pos, p) ==
  /\ p \in Dir!Places(dir) /\ p[1] = pos + 1
  /\ Dir!Stops(disk.secs[Dir!Sectors(dir)[p[1]]]) # {}
  /\ p[2] = Dir!Min(Dir!Stops(disk.secs[Dir!Sectors(dir)[p[1]]]))

LEMMA FirstStop ==
  ASSUME LookupInv, search.on, NEW pos \in Nat, Passed(pos), NEW p, StopsAt(pos, p)
  PROVE  /\ p[2] \in Dir!Stops(disk.secs[Dir!Sectors(dir)[p[1]]])
         /\ \A q \in Dir!Places(dir) :
              /\ q = p \/ Dir!Before(q, p) \/ Dir!Before(p, q)
              /\ Dir!Before(q, p) => Dir!EntryAt(dir, q).kind # "end" /\ q \notin Dir!Named(dir, Dir!FirstName)
<1> DEFINE es == disk.secs[Dir!Sectors(dir)[p[1]]]
           stops == Dir!Stops(es)
<1>1. p = <<p[1], p[2]>> /\ p[1] \in DOMAIN Dir!Sectors(dir) /\ p[1] = pos + 1 /\ p[2] \in DOMAIN es /\ stops # {} /\ p[2] = Dir!Min(stops)
  BY PlacesAre DEF StopsAt
<1>2. \A k \in DOMAIN Dir!Sectors(dir) : k \in Nat \ {0} /\ Dir!Sectors(dir)[k] \in DOMAIN disk.secs
  BY SectorsAre, SearchedIsDirectory
<1>3. \A s \in DOMAIN disk.secs : DOMAIN disk.secs[s] \subseteq Nat
  BY LayersAssumption DEF LayersAssumption, Dir!FatDirAssumption, LookupInv
<1>4. stops \subseteq DOMAIN es
  BY DEF Dir!Stops
<1>5. stops \subseteq Nat
  BY <1>1, <1>2, <1>3, <1>4
<1> HIDE DEF stops
<1>6. p[2] \in stops /\ \A k \in stops : p[2] <= k
  BY <1>1, <1>5, SmallestExists DEF Dir!Min
<1>7. ASSUME NEW q \in Dir!Places(dir)
      PROVE  /\ q = p \/ Dir!Before(q, p) \/ Dir!Before(p, q)
             /\ Dir!Before(q, p) => Dir!EntryAt(dir, q).kind # "end" /\ q \notin Dir!Named(dir, Dir!FirstName)
  <2>1. q = <<q[1], q[2]>> /\ q[1] \in DOMAIN Dir!Sectors(dir) /\ q[2] \in DOMAIN disk.secs[Dir!Sectors(dir)[q[1]]]
    BY PlacesAre
  <2>2. q[1] \in Nat \ {0} /\ q[2] \in Nat /\ p[2] \in Nat /\ p[1] \in Nat
    BY <1>1, <1>2, <1>3, <1>5, <1>6, <2>1
  <2>3. q = p \/ Dir!Before(q, p) \/ Dir!Before(p, q)
    <3>1. q[1] = p[1] /\ q[2] = p[2] => q = p
      BY <1>1, <2>1, Zenon
    <3> QED
      BY <2>2, <3>1 DEF Dir!Before
  <2>4. ASSUME Dir!Before(q, p) PROVE Dir!EntryAt(dir, q).kind # "end" /\ q \notin Dir!Named(dir, Dir!FirstName)
    <3> DEFINE here == disk.secs[Dir!Sectors(dir)[q[1]]]
    <3>1. CASE q[1] < p[1]
      <4>1. q[1] \in 1 .. pos
        BY <1>1, <2>2, <3>1
      <4>2. Dir!Stops(here) = {}
        BY <4>1 DEF Passed
      <4> QED
        BY <4>2, PassedOver
    <3>2. CASE q[1] = p[1] /\ q[2] < p[2]
      <4>1. q[2] \notin stops
        BY <1>6, <2>2, <3>2
      <4>2. q[2] \notin Dir!Stops(here)
        BY <3>2, <4>1 DEF stops
      <4> QED
        BY <4>2, PassedOver
    <3> QED
      BY <2>4, <3>1, <3>2 DEF Dir!Before
  <2> QED
    BY <2>3, <2>4
<1> QED
  BY <1>6, <1>7 DEF stops

\* What a step of a search promises, when it has found an entry or given up.
FatFinds ==
  LET named == Dir!Named(dir, Dir!FirstName)
  IN  /\ path' # path =>
           \E p \in named : found'.clus = Dir!EntryAt(dir, p).clus /\ \A q \in named : q = p \/ Dir!Before(p, q)
      /\ status' # status /\ status' = "ENOENT" => named = {}

\* The entry it stopped at has the name: it is the first with it.
LEMMA StopsAtTheName ==
  ASSUME LookupInv, search.on, NEW pos \in Nat, Passed(pos), NEW p, StopsAt(pos, p),
         Dir!EntryAt(dir, p).kind # "end"
  PROVE  /\ p \in Dir!Named(dir, Dir!FirstName)
         /\ \A q \in Dir!Named(dir, Dir!FirstName) : q = p \/ Dir!Before(p, q)
<1> DEFINE e == Dir!EntryAt(dir, p)
<1>1. /\ p[2] \in Dir!Stops(disk.secs[Dir!Sectors(dir)[p[1]]])
      /\ \A q \in Dir!Places(dir) :
           /\ q = p \/ Dir!Before(q, p) \/ Dir!Before(p, q)
           /\ Dir!Before(q, p) => Dir!EntryAt(dir, q).kind # "end" /\ q \notin Dir!Named(dir, Dir!FirstName)
  BY FirstStop
<1>2. p \in Dir!Places(dir)
  BY DEF StopsAt
<1>3. p[1] \in DOMAIN Dir!Sectors(dir) /\ p[2] \in DOMAIN disk.secs[Dir!Sectors(dir)[p[1]]]
      /\ Dir!Sectors(dir)[p[1]] \in DOMAIN disk.secs
  BY <1>2, PlacesAre, SectorsAre, SearchedIsDirectory
<1>4. e.kind \in {"file", "dir", "deleted", "label", "end"}
  BY <1>3, LayersAssumption, SMTT(30) DEF LayersAssumption, Dir!FatDirAssumption, LookupInv, Dir!EntryAt
<1>5. Dir!Live(e) /\ e.name = Dir!FirstName
  BY <1>1 DEF Dir!Stops, Dir!EntryAt
<1>6. e.kind \in {"file", "dir"}
  BY <1>4, <1>5 DEF Dir!Live
<1> HIDE DEF e
<1>7. p \in Dir!Named(dir, Dir!FirstName)
  BY <1>1, <1>2, <1>5, <1>6, Zenon DEF Dir!Named, e
<1>8. \A q \in Dir!Named(dir, Dir!FirstName) : q \in Dir!Places(dir)
  BY Zenon DEF Dir!Named
<1> QED
  BY <1>1, <1>7, <1>8, Zenon

\* Or it ends the directory: nothing has the name.
LEMMA StopsAtTheEnd ==
  ASSUME LookupInv, search.on, NEW pos \in Nat, Passed(pos), NEW p, StopsAt(pos, p),
         Dir!EntryAt(dir, p).kind = "end"
  PROVE  Dir!Named(dir, Dir!FirstName) = {}
<1>1. \A q \in Dir!Places(dir) :
           /\ q = p \/ Dir!Before(q, p) \/ Dir!Before(p, q)
           /\ Dir!Before(q, p) => q \notin Dir!Named(dir, Dir!FirstName)
  BY FirstStop
<1>2. p \in Dir!Places(dir)
  BY DEF StopsAt
<1>3. ASSUME NEW q \in Dir!Named(dir, Dir!FirstName) PROVE FALSE
  <2>1. /\ q \in Dir!Places(dir) /\ Dir!EntryAt(dir, q).kind \in {"file", "dir"}
        /\ \A r \in Dir!Places(dir) : Dir!Before(r, q) => Dir!EntryAt(dir, r).kind # "end"
    BY <1>3, Zenon DEF Dir!Named
  <2>2. "end" \notin {"file", "dir"}
    OBVIOUS
  <2> QED
    BY <1>1, <1>2, <1>3, <2>1, <2>2, Zenon
<1> QED
  BY <1>3, Zenon

\* A search begins with the first sectors of the directory.
LEMMA NameBegins ==
  ASSUME LookupInv, Dir!NextName
  PROVE  SearchInv' /\ FatFinds
<1>1. RootSecs \in Nat /\ Spc \in Nat /\ 0 \notin DirClusters
  BY LayersAssumption DEF LayersAssumption, Dir!FatDirAssumption
<1>2. path' = path /\ UNCHANGED <<disk, dir>> /\ (status' = status \/ status' \in {"EISDIR", "ESUCCESS", "ENOTDIR"})
  BY DEF Dir!NextName, Dir!Return, Dir!Ending
<1>3. FatFinds
  BY <1>2 DEF FatFinds
<1>4. CASE search' = Dir!Idle
  BY <1>3, <1>4 DEF SearchInv, Dir!Idle
<1>5. CASE search' # Dir!Idle
  <2>1. /\ found.is_dir
        /\ search' = IF dir # 0 THEN [on |-> TRUE, clus |-> dir, sec |-> Dir!cluster_sector(dir), left |-> Spc]
                     ELSE [on |-> TRUE, clus |-> 0, sec |-> 1, left |-> RootSecs]
    BY <1>5 DEF Dir!NextName, Dir!Return
  <2>2. dir \in DirClusters \cup {0}
    BY <2>1 DEF LookupInv
  <2>3. Passed(0)
    BY DEF Passed
  <2>4. CASE dir = 0
    <3> DEFINE s == [on |-> TRUE, clus |-> 0, sec |-> 1, left |-> RootSecs]
    <3>1. Dir!Sectors(dir) = [k \in 1 .. RootSecs |-> k]
      BY <2>4, Zenon DEF Dir!Sectors
    <3>2. InHand(s, 0)
      BY <1>1, <3>1 DEF InHand
    <3>3. Belongs(s, 0)
      BY <1>1, <2>4 DEF Belongs
    <3>4. search' = s
      BY <2>1, <2>4
    <3> HIDE DEF s
    <3> QED
      BY <1>2, <1>3, <2>3, <3>2, <3>3, <3>4, SearchGoesOn
  <2>5. CASE dir \in DirClusters
    <3> DEFINE s == [on |-> TRUE, clus |-> dir, sec |-> Dir!cluster_sector(dir), left |-> Spc]
               w == Dir!Chain(disk.next, dir)
    <3>1. Len(w) \in Nat \ {0} /\ w[1] = dir /\ 1 \in 1 .. Len(w)
      BY <2>5, DirectoryChains DEF ChainsFrom
    <3>2. \A i \in 1 .. Len(w), j \in 0 .. Spc - 1 :
            /\ (i - 1) * Spc + 1 + j \in DOMAIN Dir!Sectors(dir)
            /\ Dir!Sectors(dir)[(i - 1) * Spc + 1 + j] = Dir!cluster_sector(w[i]) + j
      BY <1>1, <2>5, <3>1, ChainSectors
    <3> HIDE DEF w
    <3>3. ASSUME NEW j \in 0 .. Spc - 1
          PROVE  0 + 1 + j \in DOMAIN Dir!Sectors(dir) /\ Dir!Sectors(dir)[0 + 1 + j] = Dir!cluster_sector(dir) + j
      <4>1. (1 - 1) * Spc + 1 + j = 0 + 1 + j
        BY <1>1
      <4> QED
        BY <3>1, <3>2, <4>1
    <3>4. InHand(s, 0)
      BY <3>3 DEF InHand
    <3>5. Belongs(s, 0)
      <4>1. 0 + s.left = 1 * Spc /\ s.clus = w[1] /\ s.clus # 0
        BY <1>1, <2>5, <3>1
      <4> HIDE DEF s
      <4> QED
        BY <2>5, <3>1, <4>1 DEF Belongs, w
    <3>6. search' = s
      BY <1>1, <2>1, <2>5
    <3> HIDE DEF s
    <3> QED
      BY <1>2, <1>3, <2>3, <3>4, <3>5, <3>6, SearchGoesOn
  <2> QED
    BY <2>2, <2>4, <2>5
<1> QED
  BY <1>4, <1>5

\* One sector of the directory, with an entry in it that ends the search or without.
LEMMA SectorGoesOn ==
  ASSUME LookupInv, SearchInv, Dir!ReadSector
  PROVE  SearchInv' /\ FatFinds
<1>1. status = "busy" /\ search.on /\ search.left > 0
  BY DEF Dir!ReadSector
<1>2. search \in [on : BOOLEAN, clus : DirClusters \cup {0}, sec : Nat, left : Nat]
  BY DEF LookupInv
<1>3. PICK pos \in Nat : Passed(pos) /\ InHand(search, pos) /\ Belongs(search, pos)
  BY <1>1 DEF SearchInv
<1>4. pos + 1 \in DOMAIN Dir!Sectors(dir) /\ Dir!Sectors(dir)[pos + 1] = search.sec
  <2>1. 0 \in 0 .. search.left - 1
    BY <1>1, <1>2
  <2>2. pos + 1 + 0 \in DOMAIN Dir!Sectors(dir) /\ Dir!Sectors(dir)[pos + 1 + 0] = search.sec + 0
    BY <1>3, <2>1 DEF InHand
  <2> QED
    BY <1>2, <2>2
<1> DEFINE stops == Dir!Stops(disk.secs[search.sec])
<1>5. CASE stops = {}
  <2>1. search' = [search EXCEPT !.sec = @ + 1, !.left = @ - 1] /\ UNCHANGED <<disk, path, dir, found, status>>
    BY <1>5 DEF Dir!ReadSector
  <2> DEFINE s == [search EXCEPT !.sec = @ + 1, !.left = @ - 1]
  <2>2. s.sec = search.sec + 1 /\ s.left = search.left - 1 /\ s.clus = search.clus
    BY <1>2
  <2>3. search' = s
    BY <2>1
  <2> HIDE DEF s
  <2>4. Passed(pos + 1)
    <3>1. ASSUME NEW i \in 1 .. pos + 1
          PROVE  i \in DOMAIN Dir!Sectors(dir) /\ Dir!Stops(disk.secs[Dir!Sectors(dir)[i]]) = {}
      <4>1. CASE i = pos + 1
        BY <1>4, <1>5, <4>1
      <4>2. CASE i \in 1 .. pos
        BY <1>3, <4>2 DEF Passed
      <4> QED
        BY <1>3, <4>1, <4>2
    <3> QED
      BY <3>1 DEF Passed
  <2>5. InHand(s, pos + 1)
    <3>1. ASSUME NEW j \in 0 .. s.left - 1
          PROVE  pos + 1 + 1 + j \in DOMAIN Dir!Sectors(dir) /\ Dir!Sectors(dir)[pos + 1 + 1 + j] = s.sec + j
      <4>1. j + 1 \in 0 .. search.left - 1 /\ pos + 1 + (j + 1) = pos + 1 + 1 + j /\ search.sec + (j + 1) = s.sec + j
        BY <1>2, <1>3, <2>2
      <4>2. pos + 1 + (j + 1) \in DOMAIN Dir!Sectors(dir) /\ Dir!Sectors(dir)[pos + 1 + (j + 1)] = search.sec + (j + 1)
        BY <1>3, <4>1 DEF InHand
      <4> QED
        BY <4>1, <4>2
    <3> QED
      BY <3>1 DEF InHand
  <2>6. Belongs(s, pos + 1)
    <3>1. pos + 1 + s.left = pos + search.left
      BY <1>2, <1>3, <2>2
    <3> QED
      BY <1>3, <2>2, <3>1 DEF Belongs
  <2>7. SearchInv'
    BY <1>3, <2>1, <2>3, <2>4, <2>5, <2>6, SearchGoesOn
  <2>8. FatFinds
    BY <2>1 DEF FatFinds
  <2> QED
    BY <2>7, <2>8
<1>6. CASE stops # {}
  <2> DEFINE p == <<pos + 1, Dir!Min(stops)>>
             e == disk.secs[search.sec][Dir!Min(stops)]
  <2>1. p[1] = pos + 1 /\ p[2] = Dir!Min(stops) /\ p = <<p[1], p[2]>>
    OBVIOUS
  <2>2. Dir!Min(stops) \in DOMAIN disk.secs[search.sec]
    <3>1. search.sec \in DOMAIN disk.secs
      BY <1>1, <1>4, SectorsAre, SearchedIsDirectory
    <3>2. stops \subseteq DOMAIN disk.secs[search.sec]
      BY DEF Dir!Stops
    <3>3. DOMAIN disk.secs[search.sec] \subseteq Nat
      BY <3>1, LayersAssumption DEF LayersAssumption, Dir!FatDirAssumption, LookupInv
    <3> HIDE DEF stops
    <3>4. Dir!Min(stops) \in stops
      BY <1>6, <3>2, <3>3, SmallestExists DEF Dir!Min
    <3> QED
      BY <3>2, <3>4
  <2> HIDE DEF p
  <2>3. p \in Dir!Places(dir)
    BY <1>4, <2>1, <2>2, PlacesAre
  <2>4. StopsAt(pos, p)
    BY <1>4, <1>6, <2>1, <2>3 DEF StopsAt
  <2>5. Dir!EntryAt(dir, p) = e
    BY <1>4, <2>1 DEF Dir!EntryAt
  <2> HIDE DEF e
  <2>6. IF e.kind = "end" THEN Dir!Return("ENOENT")
        ELSE /\ found' = [clus |-> e.clus, is_dir |-> e.kind = "dir"]
             /\ path' = Tail(path) /\ dir' = e.clus /\ search' = Dir!Idle /\ UNCHANGED <<disk, status>>
    BY <1>6, Zenon DEF Dir!ReadSector, e
  <2>7. search' = Dir!Idle
    BY <2>6 DEF Dir!Return
  <2>8. SearchInv'
    BY <2>7 DEF SearchInv, Dir!Idle
  <2>9. CASE e.kind = "end"
    <3>1. path' = path
      BY <2>6, <2>9 DEF Dir!Return
    <3>2. Dir!Named(dir, Dir!FirstName) = {}
      BY <1>1, <1>3, <2>4, <2>5, <2>9, StopsAtTheEnd
    <3> QED
      BY <2>8, <3>1, <3>2, Zenon DEF FatFinds
  <2>10. CASE e.kind # "end"
    <3>1. status' = status /\ found'.clus = e.clus
      BY <2>6, <2>10
    <3>2. /\ p \in Dir!Named(dir, Dir!FirstName)
          /\ \A q \in Dir!Named(dir, Dir!FirstName) : q = p \/ Dir!Before(p, q)
      BY <1>1, <1>3, <2>4, <2>5, <2>10, StopsAtTheName
    <3> QED
      BY <2>5, <2>8, <3>1, <3>2, Zenon DEF FatFinds
  <2> QED
    BY <2>9, <2>10
<1> QED
  BY <1>5, <1>6

\* The sectors in hand are through: the next cluster's follow them, or none do.
LEMMA SectorsGoOn ==
  ASSUME LookupInv, SearchInv, Dir!NextSectors
  PROVE  SearchInv' /\ FatFinds
<1>1. status = "busy" /\ search.on /\ search.left = 0 /\ UNCHANGED <<disk, path, dir>>
  BY DEF Dir!NextSectors, Dir!Return
<1>2. search \in [on : BOOLEAN, clus : DirClusters \cup {0}, sec : Nat, left : Nat]
      /\ RootSecs \in Nat /\ Spc \in Nat /\ 0 \notin DirClusters
  BY LayersAssumption DEF LayersAssumption, Dir!FatDirAssumption, LookupInv
<1>3. PICK pos \in Nat : Passed(pos) /\ InHand(search, pos) /\ Belongs(search, pos)
  BY <1>1 DEF SearchInv
<1>4. pos + search.left = pos
  BY <1>1, <1>3
<1>5. CASE search.clus = 0
  <2>1. dir = 0 /\ pos = RootSecs
    BY <1>3, <1>4, <1>5 DEF Belongs
  <2>2. DOMAIN Dir!Sectors(dir) = 1 .. RootSecs
    <3>1. Dir!Sectors(dir) = [k \in 1 .. RootSecs |-> k]
      BY <2>1, Zenon DEF Dir!Sectors
    <3> QED
      BY <3>1
  <2>3. Dir!Named(dir, Dir!FirstName) = {}
    BY <1>3, <2>1, <2>2, PassedToTheEnd
  <2>4. search' = Dir!Idle
    BY <1>5 DEF Dir!NextSectors, Dir!Return
  <2>5. SearchInv'
    BY <2>4 DEF SearchInv, Dir!Idle
  <2> QED
    BY <1>1, <2>3, <2>5, Zenon DEF FatFinds
<1>6. CASE search.clus # 0
  <2> DEFINE w == Dir!Chain(disk.next, dir)
             n == Len(w)
             c == disk.next[search.clus]
  <2>1. PICK i \in 1 .. n : search.clus = w[i] /\ pos = i * Spc /\ dir \in DirClusters
    BY <1>3, <1>4, <1>6 DEF Belongs
  <2>2. /\ n \in Nat \ {0} /\ disk.next[w[n]] = 0
        /\ \A k \in 1 .. n : w[k] \in DirClusters
        /\ \A k \in 1 .. n - 1 : disk.next[w[k]] = w[k + 1]
    BY <2>1, DirectoryChains DEF ChainsFrom
  <2>3. /\ DOMAIN Dir!Sectors(dir) = 1 .. n * Spc
        /\ \A k \in 1 .. n, j \in 0 .. Spc - 1 :
             /\ (k - 1) * Spc + 1 + j \in DOMAIN Dir!Sectors(dir)
             /\ Dir!Sectors(dir)[(k - 1) * Spc + 1 + j] = Dir!cluster_sector(w[k]) + j
    BY <1>2, <2>1, <2>2, ChainSectors
  <2>4. i < n => c = w[i + 1] /\ c \in DirClusters /\ i + 1 \in 1 .. n
    BY <2>1, <2>2
  <2>5. i = n => c = 0
    BY <2>1, <2>2
  <2>6. i <= n
    BY <2>1, <2>2
  <2>7. Dir!NextCluster(search.clus) = c
    BY DEF Dir!NextCluster
  <2> HIDE DEF w, n, c
  <2>8. CASE c = 0
    <3>1. i = n
      BY <1>2, <2>1, <2>2, <2>4, <2>6, <2>8
    <3>2. Dir!Named(dir, Dir!FirstName) = {}
      BY <1>3, <2>1, <2>3, <3>1, PassedToTheEnd
    <3>3. search' = Dir!Idle
      BY <2>7, <2>8 DEF Dir!NextSectors, Dir!Return
    <3>4. SearchInv'
      BY <3>3 DEF SearchInv, Dir!Idle
    <3> QED
      BY <1>1, <3>2, <3>4, Zenon DEF FatFinds
  <2>9. CASE c # 0
    <3> DEFINE s == [on |-> TRUE, clus |-> c, sec |-> Dir!cluster_sector(c), left |-> Spc]
    <3>1. i < n /\ c = w[i + 1] /\ c \in DirClusters /\ i + 1 \in 1 .. n
      BY <2>1, <2>2, <2>4, <2>5, <2>6, <2>9
    <3>2. search' = s /\ status' = status
      BY <1>6, <2>7, <2>9 DEF Dir!NextSectors
    <3>3. (i + 1) - 1 = i /\ pos + Spc = (i + 1) * Spc
      BY <1>2, <2>1, <2>2
    <3>4. InHand(s, pos)
      <4>1. ASSUME NEW j \in 0 .. Spc - 1
            PROVE  pos + 1 + j \in DOMAIN Dir!Sectors(dir) /\ Dir!Sectors(dir)[pos + 1 + j] = Dir!cluster_sector(c) + j
        <5>1. /\ ((i + 1) - 1) * Spc + 1 + j \in DOMAIN Dir!Sectors(dir)
              /\ Dir!Sectors(dir)[((i + 1) - 1) * Spc + 1 + j] = Dir!cluster_sector(w[i + 1]) + j
          BY <2>3, <3>1
        <5> QED
          BY <2>1, <3>1, <3>3, <5>1
      <4> QED
        BY <4>1 DEF InHand
    <3>5. Belongs(s, pos)
      <4>1. pos + s.left = (i + 1) * Spc /\ s.clus = c
        BY <3>3
      <4> HIDE DEF s
      <4> QED
        BY <2>1, <2>9, <3>1, <4>1 DEF Belongs, w, n
    <3> HIDE DEF s
    <3>6. SearchInv'
      BY <1>1, <1>3, <3>2, <3>4, <3>5, SearchGoesOn
    <3> QED
      BY <1>1, <3>2, <3>6, Zenon DEF FatFinds
  <2> QED
    BY <2>8, <2>9
<1> QED
  BY <1>5, <1>6

\* A step of the search keeps the invariant and does what was promised.
LEMMA SearchKeeps ==
  ASSUME LookupInv, SearchInv, Dir!Next
  PROVE  SearchInv' /\ FatFinds
<1>1. CASE Dir!Fail
  <2>1. search' = Dir!Idle /\ path' = path /\ status' = "EIO"
    BY <1>1 DEF Dir!Fail, Dir!Return
  <2> QED
    BY <2>1 DEF SearchInv, Dir!Idle, FatFinds
<1> QED
  BY <1>1, NameBegins, SectorGoesOn, SectorsGoOn DEF Dir!Next

\* A directory of a CD lies on it.
LiesOnDisc(e) == e.lba \in Nat /\ e.sectors \in Nat /\ e.lba .. e.lba + e.sectors - 1 \subseteq DOMAIN disc

\* The records of a sector that have the name looked for.
HitsIn(s) == {k \in DOMAIN disc[s] : Cd!iso_name_is(disc[s][k], names[1])}

\* What of the directory is still ahead, and that the sectors behind do not have the name.
CdInv ==
  /\ disc \in Discs /\ ahead \in {Cd!AtVolume, Cd!AtName} \cup Nat
  /\ extent.dir => LiesOnDisc(extent)
  /\ ahead \in Nat =>
       /\ names # <<>> /\ extent.dir /\ ahead <= extent.sectors
       /\ \A s \in extent.lba .. extent.lba + extent.sectors - ahead - 1 : HitsIn(s) = {}

\* The records of a directory that can be found under a name.
LongNamed(e, name) == {p \in Cd!Places(e) : Cd!At(p).long /\ Cd!At(p).name = name}

\* What a step of the lookup promises.
CdFinds ==
  LET named == IF names = <<>> THEN {} ELSE LongNamed(extent, names[1])
  IN  /\ names' # names =>
           \E p \in named : /\ extent' = [dir |-> Cd!At(p).dir, lba |-> Cd!At(p).lba, sectors |-> Cd!At(p).sectors]
                            /\ \A q \in named : q = p \/ Cd!Before(p, q)
      /\ ahead' = 0 /\ ahead # 0 => named = {}

\* The records that have the name are the hits of the directory's sectors.
LEMMA NamedAreHits ==
  ASSUME NEW q
  PROVE  q \in LongNamed(extent, names[1]) <=>
           q = <<q[1], q[2]>> /\ q[1] \in extent.lba .. extent.lba + extent.sectors - 1 /\ q[2] \in HitsIn(q[1])
<1>1. ASSUME NEW s \in extent.lba .. extent.lba + extent.sectors - 1, NEW k \in DOMAIN disc[s]
      PROVE  <<s, k>> \in Cd!Places(extent)
  BY <1>1 DEF Cd!Places
<1>2. ASSUME q \in Cd!Places(extent)
      PROVE  \E s \in extent.lba .. extent.lba + extent.sectors - 1 : \E k \in DOMAIN disc[s] : q = <<s, k>>
  BY <1>2 DEF Cd!Places
<1>3. q \in Cd!Places(extent) <=>
        q = <<q[1], q[2]>> /\ q[1] \in extent.lba .. extent.lba + extent.sectors - 1 /\ q[2] \in DOMAIN disc[q[1]]
  BY <1>1, <1>2
<1> QED
  BY <1>3, Zenon DEF LongNamed, Cd!At, HitsIn, Cd!iso_name_is

LEMMA CdStart ==
  ASSUME Cd!Init
  PROVE  CdInv
<1>1. disc \in Discs /\ extent = [dir |-> TRUE, lba |-> 0, sectors |-> 0] /\ ahead = Cd!AtVolume /\ Cd!AtVolume \notin Nat
  BY DEF Cd!Init, Cd!Unknown, Cd!AtVolume
<1>2. LiesOnDisc(extent)
  BY <1>1 DEF LiesOnDisc
<1> QED
  BY <1>1, <1>2 DEF CdInv

\* Where nothing moves but the verdict.
LEMMA CdGives ==
  ASSUME CdInv, UNCHANGED <<disc, names, extent, ahead>>
  PROVE  CdInv' /\ CdFinds
BY DEF CdInv, CdFinds, LiesOnDisc, HitsIn, Cd!iso_name_is, Cd!AtVolume, Cd!AtName

LEMMA CdNameBegins ==
  ASSUME CdInv, Cd!NextName, UNCHANGED <<disc, names, extent>>, names # <<>>, extent.dir, ahead' = extent.sectors, ahead = Cd!AtName
  PROVE  CdInv' /\ CdFinds
<1>1. LiesOnDisc(extent) /\ extent.sectors \in Nat /\ extent.lba \in Nat
  BY DEF CdInv, LiesOnDisc
<1>2. extent.lba .. extent.lba + extent.sectors - ahead' - 1 = {}
  BY <1>1
<1>3. CdInv'
  BY <1>1, <1>2 DEF CdInv, LiesOnDisc
<1>4. ASSUME ahead' = 0 PROVE LongNamed(extent, names[1]) = {}
  <2>1. extent.lba .. extent.lba + extent.sectors - 1 = {}
    BY <1>1, <1>4
  <2> QED
    BY <2>1, NamedAreHits
<1> QED
  BY <1>3, <1>4, Zenon DEF CdFinds

LEMMA CdSectorGoesOn ==
  ASSUME CdInv, ahead \in Nat \ {0}, UNCHANGED <<disc, names, extent>>, ahead' = ahead - 1,
         HitsIn(extent.lba + extent.sectors - ahead) = {}
  PROVE  CdInv' /\ CdFinds
<1>1. /\ names # <<>> /\ extent.dir /\ ahead <= extent.sectors /\ LiesOnDisc(extent)
      /\ extent.sectors \in Nat /\ extent.lba \in Nat
      /\ \A s \in extent.lba .. extent.lba + extent.sectors - ahead - 1 : HitsIn(s) = {}
  BY DEF CdInv, LiesOnDisc
<1>2. \A s \in extent.lba .. extent.lba + extent.sectors - ahead' - 1 : HitsIn(s) = {}
  <2>1. ASSUME NEW s \in extent.lba .. extent.lba + extent.sectors - ahead' - 1 PROVE HitsIn(s) = {}
    <3>1. s = extent.lba + extent.sectors - ahead \/ s \in extent.lba .. extent.lba + extent.sectors - ahead - 1
      BY <1>1
    <3> QED
      BY <1>1, <3>1
  <2> QED
    BY <2>1
<1>3. \A s : HitsIn(s)' = HitsIn(s)
  BY DEF HitsIn, Cd!iso_name_is
<1>4. LiesOnDisc(extent)'
  BY <1>1 DEF LiesOnDisc
<1>5. ahead' \in Nat /\ ahead' <= extent.sectors
  BY <1>1
<1>6. CdInv'
  BY <1>1, <1>2, <1>3, <1>4, <1>5 DEF CdInv
<1>7. ASSUME ahead' = 0 PROVE LongNamed(extent, names[1]) = {}
  <2>1. extent.lba + extent.sectors - ahead' - 1 = extent.lba + extent.sectors - 1
    BY <1>1, <1>7
  <2> QED
    BY <1>2, <2>1, NamedAreHits
<1> QED
  BY <1>6, <1>7, Zenon DEF CdFinds

LEMMA CdFound ==
  ASSUME CdInv, ahead \in Nat \ {0}, NEW s, s = extent.lba + extent.sectors - ahead, HitsIn(s) # {},
         NEW r, r = disc[s][Cd!Min(HitsIn(s))],
         extent' = [dir |-> r.dir, lba |-> r.lba, sectors |-> r.sectors], ahead' = Cd!AtName, UNCHANGED disc
  PROVE  CdInv' /\ CdFinds
<1>1. /\ names # <<>> /\ extent.dir /\ ahead <= extent.sectors /\ LiesOnDisc(extent) /\ disc \in Discs
      /\ extent.sectors \in Nat /\ extent.lba \in Nat
      /\ \A t \in extent.lba .. extent.lba + extent.sectors - ahead - 1 : HitsIn(t) = {}
  BY DEF CdInv, LiesOnDisc
<1>2. s \in extent.lba .. extent.lba + extent.sectors - 1
  BY <1>1
<1>3. s \in DOMAIN disc
  BY <1>1, <1>2 DEF LiesOnDisc
<1>4. \A t \in DOMAIN disc : \A k \in DOMAIN disc[t] : k \in Nat /\ (disc[t][k].dir => LiesOnDisc(disc[t][k]))
  BY <1>1, LayersAssumption, Zenon DEF LayersAssumption, Cd!IsoDirAssumption, LiesOnDisc
<1> DEFINE m == Cd!Min(HitsIn(s))
<1>5. m \in HitsIn(s) /\ \A k \in HitsIn(s) : m <= k
  <2>1. HitsIn(s) \subseteq Nat
    BY <1>3, <1>4 DEF HitsIn
  <2> QED
    BY <2>1, SmallestExists DEF Cd!Min
<1>6. m \in DOMAIN disc[s] /\ m \in Nat
  BY <1>3, <1>4, <1>5 DEF HitsIn
<1> HIDE DEF m
<1>7. r.dir => LiesOnDisc(r)
  BY <1>3, <1>4, <1>6 DEF m
<1>8. CdInv'
  <2>1. extent'.dir = r.dir /\ extent'.lba = r.lba /\ extent'.sectors = r.sectors
    OBVIOUS
  <2>2. extent'.dir => LiesOnDisc(extent)'
    BY <1>7, <2>1 DEF LiesOnDisc
  <2>3. Cd!AtName \notin Nat
    BY DEF Cd!AtName
  <2> QED
    BY <1>1, <2>2, <2>3 DEF CdInv
<1> DEFINE p == <<s, m>>
<1>9. p[1] = s /\ p[2] = m /\ p = <<p[1], p[2]>>
  OBVIOUS
<1> HIDE DEF p
<1>10. p \in LongNamed(extent, names[1])
  BY <1>2, <1>5, <1>9, NamedAreHits
<1>11. ASSUME NEW q \in LongNamed(extent, names[1]) PROVE q = p \/ Cd!Before(p, q)
  <2>1. q = <<q[1], q[2]>> /\ q[1] \in extent.lba .. extent.lba + extent.sectors - 1 /\ q[2] \in HitsIn(q[1])
    BY <1>11, NamedAreHits
  <2>2. q[1] >= s
    BY <1>1, <2>1
  <2>3. CASE q[1] = s
    <3>1. m <= q[2] /\ q[2] \in Nat
      BY <1>3, <1>4, <1>5, <2>1, <2>3 DEF HitsIn
    <3>2. q[2] = m => q = p
      BY <1>9, <2>1, <2>3, Zenon
    <3> QED
      BY <1>6, <1>9, <2>3, <3>1, <3>2 DEF Cd!Before
  <2>4. CASE q[1] # s
    BY <1>1, <1>9, <2>1, <2>2, <2>4 DEF Cd!Before
  <2> QED
    BY <2>3, <2>4
<1>12. Cd!At(p) = r
  BY <1>9 DEF Cd!At, m
<1>13. ahead' # 0
  BY DEF Cd!AtName
<1> QED
  BY <1>1, <1>8, <1>10, <1>11, <1>12, <1>13, Zenon DEF CdFinds

LEMMA CdKeeps ==
  ASSUME CdInv, Cd!Next
  PROVE  CdInv' /\ CdFinds
<1>1. CASE Cd!ReadVolume
  <2>1. CASE UNCHANGED <<disc, names, extent, ahead>>
    BY <2>1, CdGives
  <2>2. CASE ~ UNCHANGED <<disc, names, extent, ahead>>
    <3>1. PICK root \in Roots : /\ extent' = [dir |-> TRUE, lba |-> root.lba, sectors |-> root.sectors]
                                /\ ahead' = Cd!AtName /\ UNCHANGED <<disc, names>>
      BY <1>1, <2>2 DEF Cd!ReadVolume, Cd!Give
    <3>2. LiesOnDisc(root)
      BY LayersAssumption, Zenon DEF LayersAssumption, Cd!IsoDirAssumption, LiesOnDisc, CdInv
    <3>3. LiesOnDisc(extent)'
      BY <3>1, <3>2 DEF LiesOnDisc
    <3>4. Cd!AtName \notin Nat /\ Cd!AtName # 0
      BY DEF Cd!AtName
    <3> QED
      BY <3>1, <3>3, <3>4 DEF CdInv, CdFinds
  <2> QED
    BY <2>1, <2>2
<1>2. CASE Cd!NextName
  BY <1>2, CdGives, CdNameBegins DEF Cd!NextName, Cd!Give
<1>3. CASE Cd!ReadSector
  <2>1. ahead \in Nat \ {0}
    BY <1>3 DEF Cd!ReadSector, CdInv, Cd!AtVolume, Cd!AtName
  <2> DEFINE s == extent.lba + extent.sectors - ahead
             hits == HitsIn(s)
  <2>2. \/ UNCHANGED <<disc, names, extent, ahead>>
        \/ hits = {} /\ ahead' = ahead - 1 /\ UNCHANGED <<disc, names, extent>>
        \/ /\ hits # {} /\ ahead' = Cd!AtName /\ UNCHANGED disc
           /\ extent' = [dir |-> disc[s][Cd!Min(hits)].dir, lba |-> disc[s][Cd!Min(hits)].lba,
                         sectors |-> disc[s][Cd!Min(hits)].sectors]
    BY <1>3, Zenon DEF Cd!ReadSector, Cd!Give, Cd!AheadOf, HitsIn
  <2> HIDE DEF s
  <2>3. CASE hits = {} /\ ahead' = ahead - 1 /\ UNCHANGED <<disc, names, extent>>
    BY <2>1, <2>3, CdSectorGoesOn DEF s
  <2>4. CASE /\ hits # {} /\ ahead' = Cd!AtName /\ UNCHANGED disc
             /\ extent' = [dir |-> disc[s][Cd!Min(hits)].dir, lba |-> disc[s][Cd!Min(hits)].lba,
                           sectors |-> disc[s][Cd!Min(hits)].sectors]
    <3>1. PICK r : r = disc[s][Cd!Min(hits)]
      OBVIOUS
    <3>2. s = extent.lba + extent.sectors - ahead
      BY DEF s
    <3> QED
      BY <2>1, <2>4, <3>1, <3>2, CdFound
  <2> QED
    BY <2>2, <2>3, <2>4, CdGives
<1>4. CASE Cd!NotOnTheCd
  BY <1>4, CdGives DEF Cd!NotOnTheCd, Cd!Give
<1> QED
  BY <1>1, <1>2, <1>3, <1>4 DEF Cd!Next

\* The two lookups, among the layers.
NamesInv == LookupInv /\ SearchInv /\ CdInv

LEMMA NamesStart == LayersInit => SearchInv /\ CdInv
<1> SUFFICES ASSUME LayersInit PROVE SearchInv /\ CdInv
  OBVIOUS
<1>1. Dir!Init /\ Cd!Init
  BY DEF LayersInit
<1>2. SearchInv
  BY <1>1 DEF Dir!Init, Dir!Idle, SearchInv
<1> QED
  BY <1>1, <1>2, CdStart

LEMMA NamesStep ==
  ASSUME NamesInv, [LayersNext]_<<layer, ioVars, cursorVars, mountVars, dirVars, isoVars, treeVars, loadVars>>
  PROVE  SearchInv' /\ CdInv' /\ [FatFinds]_dirVars /\ [CdFinds]_isoVars
<1>1. UNCHANGED dirVars \/ Dir!Next
  BY DEF LayersNext
<1>2. UNCHANGED isoVars \/ Cd!Next
  BY DEF LayersNext
<1>3. SearchInv' /\ [FatFinds]_dirVars
  <2>1. CASE UNCHANGED dirVars
    <3>1. UNCHANGED <<disk, path, dir>> /\ search' = search
      BY <2>1 DEF dirVars
    <3>2. CASE ~search.on
      BY <2>1, <3>1, <3>2 DEF SearchInv
    <3>3. CASE search.on
      <4>1. PICK pos \in Nat : Passed(pos) /\ InHand(search, pos) /\ Belongs(search, pos)
        BY <3>3 DEF NamesInv, SearchInv
      <4>2. SearchInv'
        BY <3>1, <4>1, SearchGoesOn
      <4> QED
        BY <2>1, <4>2
    <3> QED
      BY <3>2, <3>3
  <2>2. CASE Dir!Next
    BY <2>2, SearchKeeps DEF NamesInv
  <2> QED
    BY <1>1, <2>1, <2>2
<1>4. CdInv' /\ [CdFinds]_isoVars
  <2>1. CASE UNCHANGED isoVars
    <3>1. UNCHANGED <<disc, names, extent, ahead>>
      BY <2>1 DEF isoVars
    <3> QED
      BY <2>1, <3>1, CdGives DEF NamesInv
  <2>2. CASE Cd!Next
    BY <2>2, CdKeeps DEF NamesInv
  <2> QED
    BY <1>2, <2>1, <2>2
<1> QED
  BY <1>3, <1>4

\* The same of every record of the name, where none of them has it in one byte.
CdLeads ==
  LET named == IF names = <<>> THEN {} ELSE Cd!Named(extent, names[1])
      long == \A p \in named : Cd!At(p).long
  IN  /\ names' # names /\ long =>
           \E p \in named : /\ extent' = [dir |-> Cd!At(p).dir, lba |-> Cd!At(p).lba, sectors |-> Cd!At(p).sectors]
                            /\ \A q \in named : q = p \/ Cd!Before(p, q)
      /\ ahead' = 0 /\ ahead # 0 /\ long => named = {}

LEMMA LongNamesLead ==
  ASSUME CdFinds
  PROVE  CdLeads
<1> DEFINE named == IF names = <<>> THEN {} ELSE Cd!Named(extent, names[1])
           longNamed == IF names = <<>> THEN {} ELSE LongNamed(extent, names[1])
<1>1. ASSUME \A p \in named : Cd!At(p).long PROVE named = longNamed
  <2>1. CASE names = <<>>
    BY <2>1
  <2>2. CASE names # <<>>
    <3>1. \A p \in Cd!Named(extent, names[1]) : Cd!At(p).long
      BY <1>1, <2>2
    <3>2. Cd!Named(extent, names[1]) = LongNamed(extent, names[1])
      BY <3>1 DEF Cd!Named, LongNamed
    <3> QED
      BY <2>2, <3>2
  <2> QED
    BY <2>1, <2>2
<1>2. /\ names' # names =>
           \E p \in longNamed : /\ extent' = [dir |-> Cd!At(p).dir, lba |-> Cd!At(p).lba, sectors |-> Cd!At(p).sectors]
                                /\ \A q \in longNamed : q = p \/ Cd!Before(p, q)
      /\ ahead' = 0 /\ ahead # 0 => longNamed = {}
  BY Zenon DEF CdFinds
<1>3. CdLeads <=>
        /\ names' # names /\ (\A p \in named : Cd!At(p).long) =>
             \E p \in named : /\ extent' = [dir |-> Cd!At(p).dir, lba |-> Cd!At(p).lba, sectors |-> Cd!At(p).sectors]
                              /\ \A q \in named : q = p \/ Cd!Before(p, q)
        /\ ahead' = 0 /\ ahead # 0 /\ (\A p \in named : Cd!At(p).long) => named = {}
  BY Zenon DEF CdLeads
<1> HIDE DEF named, longNamed
<1> QED
  BY <1>1, <1>2, <1>3, Zenon

\* A name leads to the first entry that bears it, and what is said not to be there
\* is not, in a directory of any number of clusters as on any CD (fat.c:109-138,
\* io.c:263-283).
THEOREM NamesAreFoundFirst == LayersSpec => NamesLeadToTheFirst
<1>1. /\ LayersInit => SearchInv /\ CdInv
      /\ LookupInv /\ SearchInv /\ CdInv
         /\ [LayersNext]_<<layer, ioVars, cursorVars, mountVars, dirVars, isoVars, treeVars, loadVars>>
         => (SearchInv /\ CdInv)' /\ [FatFinds]_dirVars /\ [CdFinds]_isoVars
  BY NamesStart, NamesStep DEF NamesInv
<1>2. LayersSpec => [][FatFinds]_dirVars /\ [][CdFinds]_isoVars
  BY <1>1, InitOpenInv, NextOpenInv, PTL DEF LayersSpec
<1>3. [][FatFinds]_dirVars => Dir!FindsTheFirst
  BY PTL DEF FatFinds, dirVars, Dir!FindsTheFirst, Dir!dirVars
<1>4. [CdFinds]_isoVars => [CdLeads]_isoVars
  BY LongNamesLead
<1>5. [][CdLeads]_isoVars => Cd!LeadsToTheFirst
  BY PTL DEF CdLeads, isoVars, Cd!LeadsToTheFirst, Cd!isoVars
<1> QED
  BY <1>2, <1>3, <1>4, <1>5, PTL DEF NamesLeadToTheFirst
=============================================================================
