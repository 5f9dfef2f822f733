--------------------------- MODULE ServicesProofs ---------------------------
(***************************************************************************)
(* Theorems about the services of MCServices, for every value of their      *)
(* constants.                                                              *)
(***************************************************************************)
EXTENDS MCServices, HalProofs, LeastElement, SequenceTheorems, FiniteSetTheorems

DiskP == INSTANCE RamDiskProofs WITH Word <- DiskWord

-----------------------------------------------------------------------------
(* Each service runs by itself. *)

\* A step of the machine check service, or none.
LEMMA CheckSteps == [ServicesNext]_servicesVars => Check!HalpMachineCheck \/ UNCHANGED checkVars
BY Zenon DEF ServicesNext, LastNext, servicesVars, lastVars

\* Requests of the ports or of the disk, or none.
LEMMA DriverSteps == [ServicesNext]_servicesVars => DriverNext \/ UNCHANGED driverVars
BY Zenon DEF ServicesNext, LastNext, servicesVars, lastVars

-----------------------------------------------------------------------------
(* Machine checks. *)

CheckInv ==
  /\ insn.op \in 0 .. 63 /\ insn.xo \in 0 .. Check!LastExtended /\ insn.rt \in 0 .. 31
  /\ iar = 0 => gpr = <<>>
  /\ AbortReadsOnes

\* A fault has happened and its handler has not run yet (ints.c:52-57).
LEMMA CheckInit == ServicesInit => CheckInv
<1> SUFFICES ASSUME ServicesInit PROVE CheckInv
  OBVIOUS
<1>1. Check!CheckInit
  BY Zenon DEF ServicesInit
<1>2. insn.op \in 0 .. 63 /\ insn.xo \in 0 .. Check!LastExtended /\ insn.rt \in 0 .. 31
  <2>1. Opcodes \subseteq 0 .. 63 /\ Extended \subseteq 0 .. Check!LastExtended /\ GprNames \subseteq 0 .. 31
    BY ServicesAssumption, Zenon DEF Check!MachineCheckAssumption
  <2>2. insn \in [op : Opcodes \ {31}, xo : {0}, rt : GprNames] \/ insn \in [op : {31}, xo : Extended, rt : GprNames]
    BY <1>1 DEF Check!CheckInit
  <2>3. CASE insn \in [op : Opcodes \ {31}, xo : {0}, rt : GprNames]
    <3>1. insn.op \in 0 .. 63 /\ insn.xo = 0 /\ insn.rt \in 0 .. 31
      <4>1. insn.op \in Opcodes /\ insn.xo = 0 /\ insn.rt \in GprNames
        BY <2>3, Zenon
      <4> QED
        BY <2>1, <4>1, Zenon
    <3> QED
      BY <3>1 DEF Check!LastExtended
  <2>4. CASE insn \in [op : {31}, xo : Extended, rt : GprNames]
    <3>1. insn.op = 31 /\ insn.xo \in 0 .. Check!LastExtended /\ insn.rt \in 0 .. 31
      <4>1. insn.op = 31 /\ insn.xo \in Extended /\ insn.rt \in GprNames
        BY <2>4, Zenon
      <4> QED
        BY <2>1, <4>1, Zenon
    <3> QED
      BY <3>1
  <2> QED
    BY <2>2, <2>3, <2>4
<1>3. iar = 0 /\ gpr = <<>> /\ bugcheck = FALSE
  BY <1>1 DEF Check!CheckInit
<1> QED
  BY <1>2, <1>3 DEF CheckInv, AbortReadsOnes, Check!AbortReadsOnes

\* The class that the handler finds in the instruction says whether it loads,
\* and how much: a store never passes for a load (ints.c:60-87).
LEMMA RowOf ==
  ASSUME NEW i, NEW op \in 0 .. 63, NEW xo \in 0 .. Check!LastExtended, i.op = op, i.xo = xo
  PROVE  /\ Check!Loaded(op, xo) = 0 /\ ~Check!Stores(op, xo) => Check!Row(i) = 0 \/ Check!Row(i) % 2 = 1
         /\ Check!Stores(op, xo) => Check!Row(i) \in {36, 38, 44} /\ Check!Loaded(op, xo) = 0
         /\ Check!Loaded(op, xo) # 0 => \/ Check!Loaded(op, xo) = 32 /\ Check!Row(i) \in {32, 42}
                                        \/ Check!Loaded(op, xo) = 16 /\ Check!Row(i) = 40
                                        \/ Check!Loaded(op, xo) = 8 /\ Check!Row(i) = 34
BY SMTT(120) DEF Check!Loaded, Check!Stores, Check!Row, Check!LastExtended

\* The handler fills a load's register with ones, leaves a store at that, and
\* gives anything else up (ints.c:52-92).
LEMMA CheckStep == CheckInv /\ Check!HalpMachineCheck => CheckInv'
<1> SUFFICES ASSUME CheckInv, Check!HalpMachineCheck PROVE CheckInv'
  OBVIOUS
<1> DEFINE kind == Check!Row(insn)
           ones == Check!Loaded(insn.op, insn.xo)
           stores == Check!Stores(insn.op, insn.xo)
<1>1. insn.op \in 0 .. 63 /\ insn.xo \in 0 .. Check!LastExtended /\ insn.rt \in 0 .. 31
  BY DEF CheckInv
<1>2. /\ ones = 0 /\ ~stores => kind = 0 \/ kind % 2 = 1
      /\ stores => kind \in {36, 38, 44} /\ ones = 0
      /\ ones # 0 => \/ ones = 32 /\ kind \in {32, 42}
                     \/ ones = 16 /\ kind = 40
                     \/ ones = 8 /\ kind = 34
  <2>1. /\ Check!Loaded(insn.op, insn.xo) = 0 /\ ~Check!Stores(insn.op, insn.xo) => Check!Row(insn) = 0 \/ Check!Row(insn) % 2 = 1
        /\ Check!Stores(insn.op, insn.xo) => Check!Row(insn) \in {36, 38, 44} /\ Check!Loaded(insn.op, insn.xo) = 0
        /\ Check!Loaded(insn.op, insn.xo) # 0 => \/ Check!Loaded(insn.op, insn.xo) = 32 /\ Check!Row(insn) \in {32, 42}
                                                 \/ Check!Loaded(insn.op, insn.xo) = 16 /\ Check!Row(insn) = 40
                                                 \/ Check!Loaded(insn.op, insn.xo) = 8 /\ Check!Row(insn) = 34
    <3>1. PICK op \in 0 .. 63 : op = insn.op
      BY <1>1, Zenon
    <3>2. PICK xo \in 0 .. Check!LastExtended : xo = insn.xo
      BY <1>1, Zenon
    <3> QED
      BY <3>1, <3>2, RowOf
  <2> QED
    BY <2>1, Zenon
<1>3. iar = 0 /\ gpr = <<>> /\ bugcheck = FALSE /\ insn' = insn
  BY DEF Check!HalpMachineCheck, CheckInv
<1>4. Check!Row(insn)' = kind
  BY <1>3 DEF Check!Row
<1>5. \/ ones # 0 /\ insn.rt <= 12 /\ gpr' = <<insn.rt, ones>> /\ iar' = 4 /\ bugcheck' = FALSE
      \/ stores /\ iar' = 4 /\ gpr' = <<>> /\ bugcheck' = FALSE
      \/ ones = 0 /\ ~stores /\ bugcheck' = TRUE /\ iar' = 0 /\ gpr' = <<>>
      \/ ones # 0 /\ ~(insn.rt <= 12) /\ bugcheck' = TRUE /\ iar' = 0 /\ gpr' = <<>>
  <2>1. insn.rt > 12 <=> ~(insn.rt <= 12)
    BY <1>1
  <2> QED
    BY <1>3, <2>1, Zenon DEF Check!HalpMachineCheck, checkVars
<1> HIDE DEF kind, ones, stores
<1>6. /\ iar' = 0 => gpr' = <<>>
      /\ iar' # 0 => /\ kind # 0 /\ kind % 2 = 0 /\ (Check!IsStore(kind) \/ insn.rt <= 12)
                     /\ gpr' = IF Check!IsStore(kind) THEN <<>>
                               ELSE <<insn.rt, IF Check!IsAlgebraic(kind) THEN 32 ELSE Check!BitsOf(Check!Width(kind))>>
      /\ bugcheck' => ~(kind # 0 /\ kind % 2 = 0 /\ (Check!IsStore(kind) \/ insn.rt <= 12))
  <2>0. ASSUME ~Check!IsStore(kind), ones \in Nat \ {0}, kind % 2 = 0, kind # 0, ~stores,
               (IF Check!IsAlgebraic(kind) THEN 32 ELSE Check!BitsOf(Check!Width(kind))) = ones
        PROVE  /\ iar' = 0 => gpr' = <<>>
               /\ iar' # 0 => insn.rt <= 12 /\ gpr' = <<insn.rt, ones>>
               /\ bugcheck' => ~(insn.rt <= 12)
    <3>1. ones # 0 /\ ones \in Nat
      BY <2>0
    <3>2. CASE insn.rt <= 12
      <4>1. gpr' = <<insn.rt, ones>> /\ iar' = 4 /\ bugcheck' = FALSE
        BY <1>5, <2>0, <3>1, <3>2, Zenon
      <4> QED
        BY <3>2, <4>1
    <3>3. CASE ~(insn.rt <= 12)
      <4>1. iar' = 0 /\ bugcheck' = TRUE /\ gpr' = <<>>
        BY <1>5, <2>0, <3>1, <3>3, Zenon
      <4> QED
        BY <3>3, <4>1
    <3> QED
      BY <3>2, <3>3
  <2>1. CASE ones = 32 /\ kind \in {32, 42}
    <3>1. ~Check!IsStore(kind) /\ (IF Check!IsAlgebraic(kind) THEN 32 ELSE Check!BitsOf(Check!Width(kind))) = 32 /\ kind % 2 = 0
      BY <2>1 DEF Check!IsStore, Check!IsAlgebraic, Check!BitsOf, Check!Width
    <3>3. kind # 0 /\ ones \in Nat \ {0} /\ ~stores /\ ones = 32
      BY <1>2, <2>1
    <3> QED
      BY <2>0, <3>1, <3>3, Zenon
  <2>2. CASE ones = 16 /\ kind = 40
    <3>1. ~Check!IsStore(kind) /\ (IF Check!IsAlgebraic(kind) THEN 32 ELSE Check!BitsOf(Check!Width(kind))) = 16 /\ kind % 2 = 0
      BY <2>2 DEF Check!IsStore, Check!IsAlgebraic, Check!BitsOf, Check!Width
    <3>3. kind # 0 /\ ones \in Nat \ {0} /\ ~stores /\ ones = 16
      BY <1>2, <2>2
    <3> QED
      BY <2>0, <3>1, <3>3, Zenon
  <2>3. CASE ones = 8 /\ kind = 34
    <3>1. ~Check!IsStore(kind) /\ (IF Check!IsAlgebraic(kind) THEN 32 ELSE Check!BitsOf(Check!Width(kind))) = 8 /\ kind % 2 = 0
      BY <2>3 DEF Check!IsStore, Check!IsAlgebraic, Check!BitsOf, Check!Width
    <3>3. kind # 0 /\ ones \in Nat \ {0} /\ ~stores /\ ones = 8
      BY <1>2, <2>3
    <3> QED
      BY <2>0, <3>1, <3>3, Zenon
  <2>4. CASE stores
    <3>1. Check!IsStore(kind) /\ kind % 2 = 0 /\ kind # 0 /\ ones = 0
      BY <1>2, <2>4 DEF Check!IsStore
    <3> QED
      BY <1>5, <2>4, <3>1
  <2>5. CASE ones = 0 /\ ~stores
    <3>1. kind = 0 \/ kind % 2 # 0
      BY <1>2, <2>5
    <3> QED
      BY <1>5, <2>5, <3>1
  <2> QED
    BY <1>2, <2>1, <2>2, <2>3, <2>4, <2>5
<1> QED
  BY <1>1, <1>3, <1>4, <1>6 DEF CheckInv, AbortReadsOnes, Check!AbortReadsOnes, kind

\* Whatever the instruction, the handler completes just those accesses that write
\* no address back and load no register out of reach, leaves in the register what
\* an idle bus reads, and stops the machine only for the others (ints.c:52-92).
THEOREM ChecksReadOnes == ServicesSpec => []AbortReadsOnes
<1>1. CheckInv /\ UNCHANGED checkVars => CheckInv'
  BY DEF CheckInv, checkVars, AbortReadsOnes, Check!AbortReadsOnes, Check!Row
<1>2. CheckInv /\ [ServicesNext]_servicesVars => CheckInv'
  BY <1>1, CheckSteps, CheckStep
<1>3. CheckInv => AbortReadsOnes
  BY DEF CheckInv
<1> QED
  BY CheckInit, <1>2, <1>3, PTL DEF ServicesSpec

-----------------------------------------------------------------------------
(* The keyboard and mouse driver. *)

\* The two views of the keys: what the class takes to be down, and what is
\* held.  A code that keys share may have been given up too early, never too
\* late.
Agrees(down, held) ==
  /\ down \subseteq Port!MakesOf(held)
  /\ \A k \in Keys : Port!Alone(k) /\ AdbToSet1[k] # 0 => (AdbToSet1[k] \in down <=> k \in held)

\* What is there at each place of DriverEntry.
EntryInv ==
  /\ entry \in {"keyboard", "pointer", "disk", "mount", "callback", "autopoll", "up", "failed"}
  /\ created \subseteq Port!Ports \cup {"disk"} /\ image \in BOOLEAN /\ counted \in {0, 1}
  /\ entry \in {"keyboard", "pointer", "disk", "failed"} => "disk" \notin created /\ counted = 0
  /\ entry \in {"pointer", "disk", "mount", "callback", "autopoll", "up"} => "keyboard" \in created
  /\ entry \in {"disk", "mount", "callback", "autopoll", "up"} => "pointer" \in created
  /\ entry = "mount" => "disk" \in created /\ counted = 0
  /\ entry \in {"callback", "autopoll", "up"} => (counted = 1 <=> "disk" \in created) /\ ("disk" \in created => image)
  /\ callback \in BOOLEAN /\ polling \in BOOLEAN
  /\ callback => entry \in {"autopoll", "up"}

\* DriverEntry begins with no device (adbport.c:145-149).
LEMMA EntryStart == Port!Init => EntryInv
BY DEF Port!Init, EntryInv, Port!Ports

\* What DriverEntry has made is what its place in the function says, a disk that
\* could not be mounted taken back before it counts (adbport.c:145-187).
LEMMA EntryStep == EntryInv /\ Port!Next => EntryInv'
<1> SUFFICES ASSUME EntryInv, Port!Next PROVE EntryInv'
  OBVIOUS
<1>1. CASE Port!CreatePort("keyboard", "pointer")
  BY <1>1 DEF Port!CreatePort, EntryInv, Port!Ports
<1>2. CASE Port!CreatePort("pointer", "disk")
  BY <1>2 DEF Port!CreatePort, EntryInv, Port!Ports
<1>3. CASE Port!CreateDisk
  <2>1. counted' = counted /\ image' = image /\ callback' = callback /\ polling' = polling /\ entry = "disk"
    BY <1>3 DEF Port!CreateDisk
  <2>2. \/ created' = created \cup {"disk"} /\ entry' = "mount"
        \/ created' = created /\ entry' = "callback"
    BY <1>3 DEF Port!CreateDisk
  <2>3. callback = FALSE
    BY <2>1 DEF EntryInv
  <2>4. CASE created' = created \cup {"disk"} /\ entry' = "mount"
    BY <2>1, <2>3, <2>4 DEF EntryInv, Port!Ports
  <2>5. CASE created' = created /\ entry' = "callback"
    <3>1. "disk" \notin created /\ counted = 0
      BY <2>1 DEF EntryInv
    <3> QED
      BY <2>1, <2>3, <2>5, <3>1 DEF EntryInv, Port!Ports
  <2> QED
    BY <2>2, <2>4, <2>5
<1>4. CASE Port!MountDisk
  <2>1. callback' = callback /\ polling' = polling /\ entry = "mount" /\ entry' = "callback"
    BY <1>4 DEF Port!MountDisk
  <2>2. "disk" \in created /\ counted = 0 /\ callback = FALSE
    BY <2>1 DEF EntryInv
  <2>3. CASE image' = TRUE /\ counted' = counted + 1 /\ created' = created
    <3>1. counted' = 1
      BY <2>2, <2>3
    <3> QED
      BY <2>1, <2>2, <2>3, <3>1 DEF EntryInv, Port!Ports
  <2>4. CASE created' = created \ {"disk"} /\ image' = image /\ counted' = counted
    BY <2>1, <2>2, <2>4 DEF EntryInv, Port!Ports
  <2> QED
    BY <1>4, <2>3, <2>4 DEF Port!MountDisk
<1>5. CASE Port!SetCallback
  BY <1>5 DEF Port!SetCallback, EntryInv, Port!Ports
<1>6. CASE Port!Autopoll
  BY <1>6 DEF Port!Autopoll, EntryInv, Port!Ports
<1>7. CASE UNCHANGED Port!entryVars
  BY <1>7 DEF Port!entryVars, EntryInv, Port!Ports
<1>8. ASSUME \/ Port!Type \/ Port!Point \/ Port!Answer
             \/ \E port \in Port!Ports : Port!Connect(port) \/ Port!Disconnect(port) \/ \E on \in BOOLEAN : Port!Enable(port, on)
      PROVE  UNCHANGED Port!entryVars
  BY <1>8, Zenon DEF Port!Type, Port!Point, Port!Answer, Port!Poll, Port!Connect, Port!Disconnect, Port!Enable, Port!Control
<1> QED
  BY <1>1, <1>2, <1>3, <1>4, <1>5, <1>6, <1>7, <1>8, Zenon DEF Port!Next


\* What each byte on the bus is to the driver.
LEMMA KeyBytesAre ==
  ASSUME NEW k \in Keys
  PROVE  /\ Port!ByteOf(k) \in Nat
         /\ Port!IsKey(Port!ByteOf(k)) <=> AdbToSet1[k] # 0
         /\ Port!Event(Port!ByteOf(k)).make = AdbToSet1[k]
         /\ Port!Event(Port!ByteOf(k)).up <=> k \in bus.keys
<1>1. k \in 0 .. 126
  BY ServicesAssumption DEF Port!AdbPortAssumption
<1>0. ASSUME NEW b
      PROVE  /\ Port!Event(b).make = AdbToSet1[b % 128] /\ (Port!Event(b).up <=> b >= 128)
             /\ Port!IsKey(b) <=> b # Port!NoKey /\ b % 128 # Port!PowerKey /\ AdbToSet1[b % 128] # 0
  BY Zenon DEF Port!Event, Port!IsKey
<1>2. CASE k \in bus.keys
  <2>1. Port!ByteOf(k) = 128 + k
    BY <1>2 DEF Port!ByteOf
  <2>2. (128 + k) % 128 = k /\ 128 + k # 255 /\ 128 + k >= 128 /\ k # 127
    BY <1>1
  <2> QED
    BY <1>0, <1>1, <1>2, <2>1, <2>2 DEF Port!NoKey, Port!PowerKey
<1>3. CASE k \notin bus.keys
  <2>1. Port!ByteOf(k) = k
    BY <1>3 DEF Port!ByteOf
  <2>2. k % 128 = k /\ k # 255 /\ ~(k >= 128) /\ k # 127
    BY <1>1
  <2> QED
    BY <1>0, <1>1, <1>3, <2>1, <2>2 DEF Port!NoKey, Port!PowerKey
<1> QED
  BY <1>2, <1>3

\* The byte for no key and that of the power key name none (kbd.c:64-69).
LEMMA OthersAreNoKeys ==
  /\ Port!NoKey \in Nat /\ ~Port!IsKey(Port!NoKey)
  /\ Port!PowerKey \in Nat /\ ~Port!IsKey(Port!PowerKey)
<1>1. 127 % 128 = 127
  OBVIOUS
<1> QED
  BY <1>1 DEF Port!IsKey, Port!NoKey, Port!PowerKey

\* One key goes down or up: the two views go on agreeing.
LEMMA KeyAgrees ==
  ASSUME NEW down, NEW held \in SUBSET Keys, NEW k \in Keys, NEW event,
         event.make = AdbToSet1[k], event.up <=> k \in held, Agrees(down, held)
  PROVE  Agrees(IF AdbToSet1[k] # 0 THEN Port!Apply(down, event) ELSE down, Port!Toggle(held, k))
<1> DEFINE after == IF AdbToSet1[k] # 0 THEN Port!Apply(down, event) ELSE down
<1>1. CASE k \in held
  <2>1. Port!Toggle(held, k) = held \ {k}
    BY <1>1 DEF Port!Toggle
  <2>2. after = IF AdbToSet1[k] # 0 THEN down \ {AdbToSet1[k]} ELSE down
    BY <1>1 DEF Port!Apply
  <2>3. after \subseteq Port!MakesOf(held \ {k})
    BY <2>2 DEF Agrees, Port!MakesOf
  <2>4. ASSUME NEW l \in Keys, Port!Alone(l), AdbToSet1[l] # 0 PROVE AdbToSet1[l] \in after <=> l \in held \ {k}
    BY <1>1, <2>2, <2>4 DEF Agrees, Port!Alone
  <2> QED
    BY <2>1, <2>3, <2>4 DEF Agrees
<1>2. CASE k \notin held
  <2>1. Port!Toggle(held, k) = held \cup {k}
    BY <1>2 DEF Port!Toggle
  <2>2. after = IF AdbToSet1[k] # 0 THEN down \cup {AdbToSet1[k]} ELSE down
    BY <1>2 DEF Port!Apply
  <2>3. after \subseteq Port!MakesOf(held \cup {k})
    BY <2>2 DEF Agrees, Port!MakesOf
  <2>4. ASSUME NEW l \in Keys, Port!Alone(l), AdbToSet1[l] # 0 PROVE AdbToSet1[l] \in after <=> l \in held \cup {k}
    BY <1>2, <2>2, <2>4 DEF Agrees, Port!Alone
  <2> QED
    BY <2>1, <2>3, <2>4 DEF Agrees
<1> QED
  BY <1>1, <1>2

\* What the class driver makes of one byte.
After(down, byte) == IF Port!IsKey(byte) THEN Port!Apply(down, Port!Event(byte)) ELSE down

\* Nobody listened for an event, or the HAL lost its packet.
Unheard(port) == missed' = missed \cup {port} \/ missed' = missed \cup {port, "ring"}

\* What a packet of the keyboard may do.
LEMMA KeysPolled ==
  ASSUME EntryInv, NEW b1 \in Nat, NEW b2 \in Nat, Port!Poll(2, 0, <<b1, b2>>, "keyboard")
  PROVE  /\ packets < MaxPackets /\ packets' = packets + 1
         /\ UNCHANGED <<Port!entryVars, Port!portVars, controls, buttons>>
         /\ \/ Unheard("keyboard") /\ class' = class
            \/ missed' = missed /\ class' = [class EXCEPT !.keys = After(After(class.keys, b1), b2)]
            \/ ~Port!IsKey(b1) /\ ~Port!IsKey(b2) /\ missed' = missed /\ class' = class
<1> DEFINE data == <<b1, b2>>
           bytes == Port!KeyBytes(data)
<1>1. Len(bytes) = 2 /\ bytes[1] = b1 /\ bytes[2] = b2
  <2>1. data \in Seq(Nat) /\ Len(data) = 2 /\ data[1] = b1 /\ data[2] = b2
    OBVIOUS
  <2> HIDE DEF data
  <2>2. 1 \in 1 .. Len(data) + 1 /\ 2 \in 1 - 1 .. Len(data)
    BY <2>1
  <2> QED
    BY <2>1, <2>2, SubSeqProperties DEF Port!KeyBytes
<1>2. data # <<>>
  OBVIOUS
<1> HIDE DEF data
<1>3. callback /\ packets < MaxPackets /\ packets' = packets + 1 /\ UNCHANGED <<Port!entryVars, Port!portVars, controls>>
  BY Zenon DEF Port!Poll
<1>4. "keyboard" \in created
  BY <1>3 DEF EntryInv
<1>5. \/ Port!AdbKeyboardPacket(data)
      \/ missed' = missed \cup {"keyboard", "ring"} /\ UNCHANGED <<buttons, class>>
  BY <1>2, <1>4, Zenon DEF Port!Poll, Port!AdbPacket, data
<1>6. CASE Port!AdbKeyboardPacket(data)
  <2>1. Port!Given(Port!Given(class.keys, bytes, 1), bytes, 2) = After(After(class.keys, b1), b2)
    BY <1>1 DEF Port!Given, After
  <2>2. {n \in 1 .. Len(bytes) : Port!IsKey(bytes[n])} = {} <=> ~Port!IsKey(b1) /\ ~Port!IsKey(b2)
    BY <1>1
  <2> HIDE DEF bytes
  <2>3. /\ IF Port!Listening("keyboard")
             THEN class' = [class EXCEPT !.keys = Port!Given(Port!Given(@, bytes, 1), bytes, 2)] /\ missed' = missed
             ELSE /\ missed' = IF {n \in 1 .. Len(bytes) : Port!IsKey(bytes[n])} = {} THEN missed
                               ELSE missed \cup {"keyboard"}
                  /\ class' = class
        /\ buttons' = buttons
    BY <1>6, Zenon DEF Port!AdbKeyboardPacket, bytes
  <2> QED
    BY <1>3, <2>1, <2>2, <2>3, Zenon DEF Unheard
<1> QED
  BY <1>3, <1>5, <1>6, Zenon DEF Unheard

\* Both inputs, as far as every event was passed on.
InputsInv ==
  /\ "keyboard" \notin missed => Agrees(class.keys, bus.keys)
  /\ "ring" \notin missed => buttons = bus.buttons
  /\ "pointer" \notin missed => /\ buttons = bus.buttons
                                /\ class.buttons = bus.buttons /\ class.x = bus.x /\ class.y = bus.y

PortTypes ==
  /\ missed \subseteq Port!Ports \cup {"ring"} /\ buttons \subseteq Port!Buttons
  /\ connected \in [Port!Ports -> BOOLEAN] /\ enabled \in [Port!Ports -> BOOLEAN]
  /\ bus \in [keys : SUBSET Keys, buttons : SUBSET Port!Buttons, x : Int, y : Int]
  /\ class \in [keys : SUBSET Port!MakesOf(Keys), buttons : SUBSET Port!Buttons, x : Int, y : Int]
  /\ packets \in 0 .. MaxPackets
  /\ -64 * packets <= class.x /\ class.x <= 63 * packets
  /\ -64 * packets <= class.y /\ class.y <= 63 * packets

PortInv == EntryInv /\ InputsInv /\ PortTypes

\* What an event makes of the keys the class has down are makes.
LEMMA MakesRemain ==
  ASSUME NEW down \in SUBSET Port!MakesOf(Keys), NEW k \in Keys, NEW event, event.make = AdbToSet1[k]
  PROVE  (IF AdbToSet1[k] # 0 THEN Port!Apply(down, event) ELSE down) \in SUBSET Port!MakesOf(Keys)
BY DEF Port!Apply, Port!MakesOf

\* The keyboard's part of the invariant, for a packet that leaves the rest alone.
LEMMA KeysKept ==
  ASSUME PortInv,
         packets < MaxPackets, packets' = packets + 1,
         UNCHANGED <<Port!entryVars, Port!portVars, buttons>>,
         bus'.buttons = bus.buttons, bus'.x = bus.x, bus'.y = bus.y,
         bus' \in [keys : SUBSET Keys, buttons : SUBSET Port!Buttons, x : Int, y : Int],
         class'.keys \in SUBSET Port!MakesOf(Keys),
         class' = [class EXCEPT !.keys = class'.keys],
         missed' = missed \/ Unheard("keyboard"),
         "keyboard" \notin missed' => Agrees(class'.keys, bus'.keys)
  PROVE  PortInv'
<1>1. class'.buttons = class.buttons /\ class'.x = class.x /\ class'.y = class.y
  BY DEF PortInv, PortTypes
<1>2. EntryInv'
  BY DEF PortInv, EntryInv, Port!entryVars
<1>3. ("pointer" \in missed' <=> "pointer" \in missed) /\ ("ring" \in missed => "ring" \in missed')
  BY DEF Unheard
<1>4. Agrees(class.keys, bus.keys)' <=> Agrees(class'.keys, bus'.keys)
  BY DEF Agrees
<1>5. InputsInv'
  BY <1>1, <1>3, <1>4 DEF PortInv, InputsInv
<1>6. PortTypes'
  <2>1. class' \in [keys : SUBSET Port!MakesOf(Keys), buttons : SUBSET Port!Buttons, x : Int, y : Int]
    BY DEF PortInv, PortTypes
  <2>2. packets' \in 0 .. MaxPackets /\ packets \in Nat /\ MaxPackets \in Nat
    BY ServicesAssumption DEF PortInv, PortTypes, Port!AdbPortAssumption
  <2>3. class.x \in Int /\ class.y \in Int
    BY DEF PortInv, PortTypes
  <2>4. /\ -64 * packets' <= class'.x /\ class'.x <= 63 * packets'
        /\ -64 * packets' <= class'.y /\ class'.y <= 63 * packets'
    BY <1>1, <2>2, <2>3 DEF PortInv, PortTypes
  <2>5. missed' \subseteq Port!Ports \cup {"ring"} /\ buttons' \subseteq Port!Buttons
    BY DEF PortInv, PortTypes, Port!Ports, Unheard
  <2>6. connected' \in [Port!Ports -> BOOLEAN] /\ enabled' \in [Port!Ports -> BOOLEAN]
    BY DEF PortInv, PortTypes, Port!portVars
  <2> QED
    BY <2>1, <2>2, <2>4, <2>5, <2>6 DEF PortTypes, Port!MakesOf
<1> QED
  BY <1>2, <1>5, <1>6 DEF PortInv

\* A packet of the keyboard reaches the class driver whole, or is missed, or
\* tells it nothing (adbport.c:94-106, kbd.c:58-72).
LEMMA KeysStep ==
  ASSUME PortInv, NEW b1 \in Nat, NEW b2 \in Nat, Port!Poll(2, 0, <<b1, b2>>, "keyboard"),
         NEW held \in SUBSET Keys, bus' = [bus EXCEPT !.keys = held],
         After(After(class.keys, b1), b2) \in SUBSET Port!MakesOf(Keys),
         Agrees(class.keys, bus.keys) => Agrees(After(After(class.keys, b1), b2), held)
  PROVE  PortInv'
<1>1. EntryInv
  BY DEF PortInv
<1>2. /\ packets < MaxPackets /\ packets' = packets + 1
      /\ UNCHANGED <<Port!entryVars, Port!portVars, controls, buttons>>
      /\ \/ Unheard("keyboard") /\ class' = class
         \/ missed' = missed /\ class' = [class EXCEPT !.keys = After(After(class.keys, b1), b2)]
         \/ ~Port!IsKey(b1) /\ ~Port!IsKey(b2) /\ missed' = missed /\ class' = class
  BY <1>1, KeysPolled, Zenon
<1>3. /\ bus'.keys = held /\ bus'.buttons = bus.buttons /\ bus'.x = bus.x /\ bus'.y = bus.y
      /\ bus' \in [keys : SUBSET Keys, buttons : SUBSET Port!Buttons, x : Int, y : Int]
  BY DEF PortInv, PortTypes
<1>4. class \in [keys : SUBSET Port!MakesOf(Keys), buttons : SUBSET Port!Buttons, x : Int, y : Int]
  BY DEF PortInv, PortTypes
<1>5. "keyboard" \notin missed => Agrees(After(After(class.keys, b1), b2), held)
  BY DEF PortInv, InputsInv
<1>6. CASE Unheard("keyboard") /\ class' = class
  <2>1. class'.keys \in SUBSET Port!MakesOf(Keys) /\ class' = [class EXCEPT !.keys = class'.keys]
    BY <1>4, <1>6
  <2>2. "keyboard" \in missed'
    BY <1>6 DEF Unheard
  <2> QED
    BY <1>2, <1>3, <1>6, <2>1, <2>2, KeysKept
<1>7. CASE missed' = missed /\ class' = [class EXCEPT !.keys = After(After(class.keys, b1), b2)]
  <2>1. class'.keys = After(After(class.keys, b1), b2) /\ class' = [class EXCEPT !.keys = class'.keys]
    BY <1>4, <1>7
  <2>2. "keyboard" \notin missed' => Agrees(class'.keys, bus'.keys)
    BY <1>3, <1>5, <1>7, <2>1
  <2> QED
    BY <1>2, <1>3, <1>7, <2>1, <2>2, KeysKept
<1>8. CASE ~Port!IsKey(b1) /\ ~Port!IsKey(b2) /\ missed' = missed /\ class' = class
  <2>1. class'.keys = After(After(class.keys, b1), b2) /\ class' = [class EXCEPT !.keys = class'.keys]
    BY <1>4, <1>8 DEF After
  <2>2. "keyboard" \notin missed' => Agrees(class'.keys, bus'.keys)
    BY <1>3, <1>5, <1>8, <2>1
  <2> QED
    BY <1>2, <1>3, <1>8, <2>1, <2>2, KeysKept
<1> QED
  BY <1>2, <1>6, <1>7, <1>8

\* Whatever is typed, the views agree.
LEMMA TypeKept == PortInv /\ Port!Type => PortInv'
<1> SUFFICES ASSUME PortInv, Port!Type PROVE PortInv'
  OBVIOUS
<1>0. bus.keys \in SUBSET Keys /\ class.keys \in SUBSET Port!MakesOf(Keys)
  BY DEF PortInv, PortTypes
<1>1. ASSUME NEW k \in Keys, Port!Poll(2, 0, <<Port!ByteOf(k), Port!NoKey>>, "keyboard"),
             bus' = [bus EXCEPT !.keys = Port!Toggle(@, k)]
      PROVE  PortInv'
  <2> DEFINE b == Port!ByteOf(k)
             two == After(class.keys, b)
             held == Port!Toggle(bus.keys, k)
  <2>1. b \in Nat /\ (Port!IsKey(b) <=> AdbToSet1[k] # 0) /\ Port!Event(b).make = AdbToSet1[k]
        /\ (Port!Event(b).up <=> k \in bus.keys)
    BY KeyBytesAre, Zenon
  <2>2. After(two, Port!NoKey) = two /\ Port!NoKey \in Nat
    BY OthersAreNoKeys, Zenon DEF After
  <2>3. two = IF AdbToSet1[k] # 0 THEN Port!Apply(class.keys, Port!Event(b)) ELSE class.keys
    BY <2>1, Zenon DEF After
  <2>4. held \in SUBSET Keys /\ bus' = [bus EXCEPT !.keys = held]
    BY <1>0, <1>1 DEF Port!Toggle
  <2> HIDE DEF b, held, two
  <2>5. two \in SUBSET Port!MakesOf(Keys)
    BY <1>0, <2>1, <2>3, MakesRemain, Zenon
  <2>6. Agrees(class.keys, bus.keys) => Agrees(two, held)
    BY <1>0, <2>1, <2>3, KeyAgrees, Zenon DEF held
  <2>7. Port!Poll(2, 0, <<b, Port!NoKey>>, "keyboard")
    BY <1>1, Zenon DEF b
  <2>8. After(After(class.keys, b), Port!NoKey) = two
    BY <2>2 DEF two
  <2> QED
    BY <2>1, <2>2, <2>4, <2>5, <2>6, <2>7, <2>8, KeysStep
<1>2. ASSUME NEW k \in Keys, NEW l \in Keys, k # l,
             Port!Poll(2, 0, <<Port!ByteOf(k), Port!ByteOf(l)>>, "keyboard"),
             bus' = [bus EXCEPT !.keys = Port!Toggle(Port!Toggle(@, k), l)]
      PROVE  PortInv'
  <2> DEFINE b == Port!ByteOf(k)
             c == Port!ByteOf(l)
             one == After(class.keys, b)
             two == After(one, c)
             once == Port!Toggle(bus.keys, k)
             held == Port!Toggle(once, l)
  <2>1. /\ b \in Nat /\ (Port!IsKey(b) <=> AdbToSet1[k] # 0) /\ Port!Event(b).make = AdbToSet1[k]
        /\ (Port!Event(b).up <=> k \in bus.keys)
    BY KeyBytesAre, Zenon
  <2>2. /\ c \in Nat /\ (Port!IsKey(c) <=> AdbToSet1[l] # 0) /\ Port!Event(c).make = AdbToSet1[l]
        /\ (Port!Event(c).up <=> l \in bus.keys)
    BY KeyBytesAre, Zenon
  <2>3. one = IF AdbToSet1[k] # 0 THEN Port!Apply(class.keys, Port!Event(b)) ELSE class.keys
    BY <2>1, Zenon DEF After
  <2>4. two = IF AdbToSet1[l] # 0 THEN Port!Apply(one, Port!Event(c)) ELSE one
    BY <2>2, Zenon DEF After
  <2>5. once \in SUBSET Keys /\ held \in SUBSET Keys /\ bus' = [bus EXCEPT !.keys = held]
    BY <1>0, <1>2 DEF Port!Toggle
  <2>6. l \in once <=> l \in bus.keys
    BY <1>2 DEF Port!Toggle
  <2> HIDE DEF b, c, once, held, one, two
  <2>7. one \in SUBSET Port!MakesOf(Keys)
    BY <1>0, <2>1, <2>3, MakesRemain, Zenon
  <2>8. two \in SUBSET Port!MakesOf(Keys)
    BY <2>2, <2>4, <2>7, MakesRemain, Zenon
  <2>9. Agrees(class.keys, bus.keys) => Agrees(one, once)
    BY <1>0, <2>1, <2>3, KeyAgrees, Zenon DEF once
  <2>10. Agrees(one, once) => Agrees(two, held)
    BY <2>2, <2>4, <2>5, <2>6, KeyAgrees, Zenon DEF held
  <2>11. Port!Poll(2, 0, <<b, c>>, "keyboard")
    BY <1>2, Zenon DEF b, c
  <2> QED
    BY <2>1, <2>2, <2>5, <2>8, <2>9, <2>10, <2>11, KeysStep DEF one, two
<1>3. ASSUME Port!Poll(2, 0, <<Port!PowerKey, Port!PowerKey>>, "keyboard"), bus' = bus
      PROVE  PortInv'
  <2>1. bus' = [bus EXCEPT !.keys = bus.keys]
    BY <1>3 DEF PortInv, PortTypes
  <2>2. After(After(class.keys, Port!PowerKey), Port!PowerKey) = class.keys
    BY OthersAreNoKeys, Zenon DEF After
  <2>3. Port!PowerKey \in Nat
    BY OthersAreNoKeys
  <2> QED
    BY <1>0, <1>3, <2>1, <2>2, <2>3, KeysStep
<1> QED
  BY <1>1, <1>2, <1>3, Zenon DEF Port!Type

\* A byte of the mouse carries a button and a signed movement.
LEMMA MouseBytesAre ==
  ASSUME NEW d \in Deltas, NEW u \in BOOLEAN
  PROVE  /\ Port!MouseByte(u, d) \in Nat
         /\ Port!Sign7(Port!MouseByte(u, d)) = d
         /\ Port!MouseByte(u, d) < 128 <=> ~u
<1>1. d \in -64 .. 63
  BY ServicesAssumption DEF Port!AdbPortAssumption
<1>2. d % 128 = IF d < 0 THEN d + 128 ELSE d
  BY <1>1
<1>3. d % 128 \in 0 .. 127 /\ (d % 128 >= 64 <=> d < 0)
  BY <1>1, <1>2
<1>4. ASSUME NEW m \in 0 .. 127 PROVE m % 128 = m /\ (128 + m) % 128 = m
  BY <1>4
<1>5. Port!MouseByte(u, d) = IF u THEN 128 + (d % 128) ELSE d % 128
  BY <1>3 DEF Port!MouseByte
<1>6. Port!MouseByte(u, d) % 128 = d % 128
  BY <1>3, <1>4, <1>5
<1>7. Port!Sign7(Port!MouseByte(u, d)) = d
  <2>1. Port!Sign7(Port!MouseByte(u, d)) = IF d % 128 >= 64 THEN (d % 128) - 128 ELSE d % 128
    BY <1>6, Zenon DEF Port!Sign7
  <2> QED
    BY <1>1, <1>2, <1>3, <2>1
<1> QED
  BY <1>3, <1>5, <1>7

\* What a packet of the mouse may do.
LEMMA MousePolled ==
  ASSUME EntryInv, NEW b1 \in Nat, NEW b2 \in Nat, Port!Poll(3, 0, <<b1, b2>>, "pointer")
  PROVE /\ packets < MaxPackets /\ packets' = packets + 1
        /\ UNCHANGED <<Port!entryVars, Port!portVars, controls>>
        /\ \/ missed' = missed \cup {"pointer", "ring"} /\ class' = class /\ buttons' = buttons
           \/ missed' = missed \cup {"pointer"} /\ class' = class /\ buttons' = Port!Levels(<<b1, b2>>)
           \/ /\ Port!Levels(<<b1, b2>>) = buttons /\ Port!Sign7(b1) = 0 /\ Port!Sign7(b2) = 0
              /\ buttons' = buttons /\ missed' = missed /\ class' = class
           \/ /\ buttons' = Port!Levels(<<b1, b2>>) /\ missed' = missed
              /\ class' = [class EXCEPT !.buttons = (@ \cup (Port!Levels(<<b1, b2>>) \ buttons)) \ (buttons \ Port!Levels(<<b1, b2>>)),
                                        !.y = @ + Port!Sign7(b1), !.x = @ + Port!Sign7(b2)]
<1> DEFINE now == Port!Levels(<<b1, b2>>)
           dy == Port!Sign7(b1)
           dx == Port!Sign7(b2)
<1> DEFINE data == <<b1, b2>>
<1>1. data # <<>> /\ Len(data) = 2 /\ data[1] = b1 /\ data[2] = b2
  OBVIOUS
<1>2. ~(Len(data) < 2)
  BY <1>1
<1>3. Port!Levels(data) = now
  OBVIOUS
<1>3a. Port!Sign7(data[1]) = dy /\ Port!Sign7(data[2]) = dx
  BY <1>1
<1> HIDE DEF data, now, dx, dy
<1>4. callback /\ packets < MaxPackets /\ packets' = packets + 1 /\ UNCHANGED <<Port!entryVars, Port!portVars, controls>>
  BY Zenon DEF Port!Poll
<1>5. "pointer" \in created
  BY <1>4 DEF EntryInv
<1>6. 3 # 2
  OBVIOUS
<1>7. \/ Port!AdbPointerPacket(data)
      \/ missed' = missed \cup {"pointer", "ring"} /\ UNCHANGED <<buttons, class>>
  BY <1>1, <1>5, <1>6, Zenon DEF Port!Poll, Port!AdbPacket, data
<1>8. CASE Port!AdbPointerPacket(data)
  <2>1. /\ buttons' = now
        /\ IF Port!NothingNew(now, data) THEN UNCHANGED <<class, missed>>
           ELSE IF Port!Listening("pointer")
             THEN /\ class' = [class EXCEPT !.buttons = (@ \cup (now \ buttons)) \ (buttons \ now),
                                            !.y = @ + Port!Sign7(data[1]), !.x = @ + Port!Sign7(data[2])]
                  /\ UNCHANGED missed
             ELSE missed' = missed \cup {"pointer"} /\ UNCHANGED class
    BY <1>2, <1>3, <1>8, Zenon DEF Port!AdbPointerPacket
  <2>2. Port!Sign7(data[1]) = dy /\ Port!Sign7(data[2]) = dx
    BY <1>3a
  <2>3. CASE Port!NothingNew(now, data)
    BY <1>4, <2>1, <2>2, <2>3, Zenon DEF Port!NothingNew, now, dx, dy
  <2>4. CASE ~Port!NothingNew(now, data)
    BY <1>4, <2>1, <2>2, <2>4, Zenon DEF now, dx, dy
  <2> QED
    BY <2>3, <2>4
<1> QED
  BY <1>4, <1>7, <1>8, Zenon DEF now, dx, dy

\* Wherever the mouse goes and whatever is pressed on it.
LEMMA PointKept == PortInv /\ Port!Point => PortInv'
<1> SUFFICES ASSUME PortInv, NEW down \in SUBSET Port!Buttons, NEW dx \in Deltas, NEW dy \in Deltas,
                    Port!Poll(3, 0, <<Port!MouseByte("left" \notin down, dy), Port!MouseByte("right" \notin down, dx)>>, "pointer"),
                    bus' = [bus EXCEPT !.buttons = down, !.x = @ + dx, !.y = @ + dy]
             PROVE  PortInv'
  BY Zenon DEF Port!Point
<1> DEFINE b1 == Port!MouseByte("left" \notin down, dy)
           b2 == Port!MouseByte("right" \notin down, dx)
<1>1. b1 \in Nat /\ Port!Sign7(b1) = dy /\ (b1 < 128 <=> "left" \in down)
  BY MouseBytesAre
<1>2. b2 \in Nat /\ Port!Sign7(b2) = dx /\ (b2 < 128 <=> "right" \in down)
  BY MouseBytesAre
<1>3. Port!Poll(3, 0, <<b1, b2>>, "pointer")
  OBVIOUS
<1> HIDE DEF b1, b2
<1>4. Port!Levels(<<b1, b2>>) = down
  <2>1. Port!Levels(<<b1, b2>>) = {b \in Port!Buttons : IF b = "left" THEN b1 < 128 ELSE b2 < 128}
    BY DEF Port!Levels
  <2> QED
    BY <1>1, <1>2, <2>1 DEF Port!Buttons
<1>5. EntryInv
  BY DEF PortInv
<1>6. /\ packets < MaxPackets /\ packets' = packets + 1
      /\ UNCHANGED <<Port!entryVars, Port!portVars, controls>>
      /\ \/ missed' = missed \cup {"pointer", "ring"} /\ class' = class /\ buttons' = buttons
         \/ missed' = missed \cup {"pointer"} /\ class' = class /\ buttons' = down
         \/ down = buttons /\ dy = 0 /\ dx = 0 /\ buttons' = buttons /\ missed' = missed /\ class' = class
         \/ /\ buttons' = down /\ missed' = missed
            /\ class' = [class EXCEPT !.buttons = (@ \cup (down \ buttons)) \ (buttons \ down),
                                      !.y = @ + dy, !.x = @ + dx]
  <2>1. Port!Sign7(b1) = dy /\ Port!Sign7(b2) = dx /\ b1 \in Nat /\ b2 \in Nat
    BY <1>1, <1>2
  <2>2. /\ packets < MaxPackets /\ packets' = packets + 1
        /\ UNCHANGED <<Port!entryVars, Port!portVars, controls>>
        /\ \/ missed' = missed \cup {"pointer", "ring"} /\ class' = class /\ buttons' = buttons
           \/ missed' = missed \cup {"pointer"} /\ class' = class /\ buttons' = Port!Levels(<<b1, b2>>)
           \/ /\ Port!Levels(<<b1, b2>>) = buttons /\ Port!Sign7(b1) = 0 /\ Port!Sign7(b2) = 0
              /\ buttons' = buttons /\ missed' = missed /\ class' = class
           \/ /\ buttons' = Port!Levels(<<b1, b2>>) /\ missed' = missed
              /\ class' = [class EXCEPT !.buttons = (@ \cup (Port!Levels(<<b1, b2>>) \ buttons)) \ (buttons \ Port!Levels(<<b1, b2>>)),
                                        !.y = @ + Port!Sign7(b1), !.x = @ + Port!Sign7(b2)]
    BY <1>3, <1>5, <2>1, MousePolled, Zenon
  <2> QED
    BY <1>4, <2>1, <2>2
<1>7. dx \in -64 .. 63 /\ dy \in -64 .. 63 /\ MaxPackets \in Nat
  BY ServicesAssumption DEF Port!AdbPortAssumption
<1>8. /\ bus \in [keys : SUBSET Keys, buttons : SUBSET Port!Buttons, x : Int, y : Int]
      /\ class \in [keys : SUBSET Port!MakesOf(Keys), buttons : SUBSET Port!Buttons, x : Int, y : Int]
      /\ buttons \subseteq Port!Buttons /\ packets \in Nat
      /\ -64 * packets <= class.x /\ class.x <= 63 * packets /\ -64 * packets <= class.y /\ class.y <= 63 * packets
  BY <1>7 DEF PortInv, PortTypes
<1>9. /\ bus'.keys = bus.keys /\ bus'.buttons = down /\ bus'.x = bus.x + dx /\ bus'.y = bus.y + dy
      /\ bus' \in [keys : SUBSET Keys, buttons : SUBSET Port!Buttons, x : Int, y : Int]
  <2>1. bus.x + dx \in Int /\ bus.y + dy \in Int
    BY <1>7, <1>8
  <2> QED
    BY <1>8, <2>1
<1>10. /\ class'.keys = class.keys
       /\ class' \in [keys : SUBSET Port!MakesOf(Keys), buttons : SUBSET Port!Buttons, x : Int, y : Int]
       /\ \/ class'.x = class.x /\ class'.y = class.y
          \/ class'.x = class.x + dx /\ class'.y = class.y + dy
  <2>1. CASE class' = class
    BY <1>8, <2>1
  <2>2. CASE class' = [class EXCEPT !.buttons = (@ \cup (down \ buttons)) \ (buttons \ down), !.y = @ + dy, !.x = @ + dx]
    <3>1. (class.buttons \cup (down \ buttons)) \ (buttons \ down) \in SUBSET Port!Buttons
      BY <1>8
    <3>2. class.x + dx \in Int /\ class.y + dy \in Int
      BY <1>7, <1>8
    <3> QED
      BY <1>8, <2>2, <3>1, <3>2
  <2> QED
    BY <1>6, <2>1, <2>2
<1>11. "pointer" \notin missed' => buttons' = down /\ class'.buttons = down /\ class'.x = bus'.x /\ class'.y = bus'.y
  <2>1. CASE "pointer" \in missed'
    BY <2>1
  <2>2. CASE down = buttons /\ dy = 0 /\ dx = 0 /\ buttons' = buttons /\ missed' = missed /\ class' = class
    BY <1>8, <1>9, <2>2 DEF PortInv, InputsInv
  <2>3. CASE /\ buttons' = down /\ missed' = missed
             /\ class' = [class EXCEPT !.buttons = (@ \cup (down \ buttons)) \ (buttons \ down), !.y = @ + dy, !.x = @ + dx]
    <3>1. class'.buttons = (class.buttons \cup (down \ buttons)) \ (buttons \ down) /\ class'.x = class.x + dx /\ class'.y = class.y + dy
      BY <1>8, <2>3
    <3>2. CASE "pointer" \notin missed
      <4>1. class.buttons = buttons /\ class.x = bus.x /\ class.y = bus.y
        BY <3>2 DEF PortInv, InputsInv
      <4>2. (buttons \cup (down \ buttons)) \ (buttons \ down) = down
        OBVIOUS
      <4> QED
        BY <1>9, <2>3, <3>1, <4>1, <4>2
    <3> QED
      BY <2>3, <3>2
  <2> QED
    BY <1>6, <2>1, <2>2, <2>3
<1>12. /\ "keyboard" \in missed' <=> "keyboard" \in missed
       /\ "ring" \notin missed' => "ring" \notin missed /\ buttons' = down
  BY <1>6
<1>13. EntryInv'
  BY <1>5, <1>6 DEF EntryInv, Port!entryVars
<1>14. InputsInv'
  BY <1>9, <1>10, <1>11, <1>12 DEF PortInv, InputsInv, Agrees
<1>15. PortTypes'
  <2>1. packets' \in 0 .. MaxPackets /\ packets \in Nat
    BY <1>6, <1>7, <1>8
  <2>2. class.x \in Int /\ class.y \in Int
    BY <1>8
  <2>3. /\ -64 * packets' <= class'.x /\ class'.x <= 63 * packets'
        /\ -64 * packets' <= class'.y /\ class'.y <= 63 * packets'
    BY <1>6, <1>7, <1>8, <1>10, <2>2
  <2>4. missed' \subseteq Port!Ports \cup {"ring"} /\ buttons' \subseteq Port!Buttons
    BY <1>6, <1>8 DEF PortInv, PortTypes, Port!Ports
  <2>5. connected' \in [Port!Ports -> BOOLEAN] /\ enabled' \in [Port!Ports -> BOOLEAN]
    BY <1>6 DEF PortInv, PortTypes, Port!portVars
  <2> QED
    BY <1>9, <1>10, <2>1, <2>3, <2>4, <2>5 DEF PortTypes, Port!MakesOf
<1> QED
  BY <1>13, <1>14, <1>15 DEF PortInv

\* An answer of another register, or too short, changes nothing of the inputs.
LEMMA AnswerKept == PortInv /\ Port!Answer => PortInv'
<1> SUFFICES ASSUME PortInv, Port!Answer PROVE PortInv'
  OBVIOUS
<1>1. ASSUME NEW a, NEW r, NEW data, NEW p, Port!Poll(a, r, data, p), Port!AdbPacket(a, 3, r, data) => UNCHANGED Port!inputVars
      PROVE  /\ packets < MaxPackets /\ packets' = packets + 1
             /\ UNCHANGED <<Port!entryVars, Port!portVars, controls, buttons, class>>
             /\ missed' = missed \/ missed' = missed \cup {p, "ring"}
  BY <1>1, Zenon DEF Port!Poll, Port!inputVars
<1>2. 3 # 0 /\ 3 # 2 /\ Len(<<3>>) < 2
  OBVIOUS
<1>3. \A k \in Keys : Port!AdbPacket(2, 3, 3, <<k, Port!NoKey>>) => UNCHANGED Port!inputVars
  BY <1>2, Zenon DEF Port!AdbPacket
<1>4. Port!AdbPacket(3, 3, 3, <<3, 3>>) => UNCHANGED Port!inputVars
  BY <1>2, Zenon DEF Port!AdbPacket
<1>5. Port!AdbPacket(3, 3, 0, <<3>>) => UNCHANGED Port!inputVars
  BY <1>2, Zenon DEF Port!AdbPacket, Port!AdbPointerPacket
<1>6. /\ packets < MaxPackets /\ packets' = packets + 1
      /\ UNCHANGED <<Port!entryVars, Port!portVars, controls, buttons, class, bus>>
      /\ missed' = missed \/ missed' = missed \cup {"keyboard", "ring"} \/ missed' = missed \cup {"pointer", "ring"}
  <2>1. bus' = bus
    BY DEF Port!Answer
  <2>2. CASE \E k \in Keys : Port!Poll(2, 3, <<k, Port!NoKey>>, "keyboard")
    BY <1>1, <1>3, <2>1, <2>2, Zenon
  <2>3. CASE Port!Poll(3, 3, <<3, 3>>, "pointer")
    BY <1>1, <1>4, <2>1, <2>3, Zenon
  <2>4. CASE Port!Poll(3, 0, <<3>>, "pointer")
    BY <1>1, <1>5, <2>1, <2>4, Zenon
  <2> QED
    BY <2>2, <2>3, <2>4, Zenon DEF Port!Answer
<1>7. EntryInv'
  BY <1>6 DEF PortInv, EntryInv, Port!entryVars
<1>8. InputsInv'
  BY <1>6 DEF PortInv, InputsInv, Agrees
<1>9. PortTypes'
  <2>1. class.x \in Int /\ class.y \in Int /\ MaxPackets \in Nat /\ packets \in 0 .. MaxPackets
    BY ServicesAssumption DEF PortInv, PortTypes, Port!AdbPortAssumption
  <2>2. /\ packets' \in 0 .. MaxPackets
        /\ -64 * packets' <= class'.x /\ class'.x <= 63 * packets'
        /\ -64 * packets' <= class'.y /\ class'.y <= 63 * packets'
    BY <1>6, <2>1 DEF PortInv, PortTypes
  <2>3. missed' \subseteq Port!Ports \cup {"ring"} /\ buttons' \subseteq Port!Buttons
    BY <1>6 DEF PortInv, PortTypes, Port!Ports
  <2>4. connected' \in [Port!Ports -> BOOLEAN] /\ enabled' \in [Port!Ports -> BOOLEAN]
    BY <1>6 DEF PortInv, PortTypes, Port!portVars
  <2>5. /\ bus' \in [keys : SUBSET Keys, buttons : SUBSET Port!Buttons, x : Int, y : Int]
        /\ class' \in [keys : SUBSET Port!MakesOf(Keys), buttons : SUBSET Port!Buttons, x : Int, y : Int]
    BY <1>6 DEF PortInv, PortTypes
  <2> QED
    BY <2>2, <2>3, <2>4, <2>5 DEF PortTypes, Port!MakesOf
<1> QED
  BY <1>7, <1>8, <1>9 DEF PortInv

\* Steps that leave the inputs and the packets alone.
LEMMA OthersKept ==
  ASSUME PortInv, EntryInv', UNCHANGED <<Port!inputVars, bus, packets>>,
         connected' \in [Port!Ports -> BOOLEAN], enabled' \in [Port!Ports -> BOOLEAN]
  PROVE  PortInv'
<1>1. InputsInv'
  BY DEF PortInv, InputsInv, Agrees, Port!inputVars
<1>2. PortTypes'
  BY DEF PortInv, PortTypes, Port!inputVars, Port!MakesOf
<1> QED
  BY <1>1, <1>2 DEF PortInv

\* Every operation of the driver keeps the invariant.
LEMMA PortStep == PortInv /\ (Port!Next \/ UNCHANGED portVars) => PortInv'
<1> SUFFICES ASSUME PortInv, Port!Next \/ UNCHANGED portVars PROVE PortInv'
  OBVIOUS
<1>0. connected \in [Port!Ports -> BOOLEAN] /\ enabled \in [Port!Ports -> BOOLEAN] /\ EntryInv
  BY DEF PortInv, PortTypes
<1>1. CASE UNCHANGED portVars
  <2>1. EntryInv'
    BY <1>0, <1>1 DEF portVars, EntryInv
  <2> QED
    BY <1>0, <1>1, <2>1, OthersKept DEF portVars, Port!inputVars
<1>2. ASSUME Port!Next PROVE EntryInv'
  BY <1>0, <1>2, EntryStep
<1>3. CASE \/ Port!CreatePort("keyboard", "pointer") \/ Port!CreatePort("pointer", "disk")
           \/ Port!CreateDisk \/ Port!MountDisk \/ Port!SetCallback \/ Port!Autopoll
  <2>1. UNCHANGED <<Port!inputVars, Port!portVars, bus, packets>>
    BY <1>3, Zenon DEF Port!CreatePort, Port!CreateDisk, Port!MountDisk, Port!SetCallback, Port!Autopoll
  <2>2. EntryInv'
    BY <1>2, <1>3, Zenon DEF Port!Next
  <2> QED
    BY <1>0, <2>1, <2>2, OthersKept DEF Port!portVars
<1>4. CASE \E port \in Port!Ports : Port!Connect(port) \/ Port!Disconnect(port) \/ \E on \in BOOLEAN : Port!Enable(port, on)
  <2>1. PICK port \in Port!Ports : Port!Connect(port) \/ Port!Disconnect(port) \/ \E on \in BOOLEAN : Port!Enable(port, on)
    BY <1>4
  <2>2. UNCHANGED <<Port!inputVars, bus, packets>>
    BY <2>1, Zenon DEF Port!Connect, Port!Disconnect, Port!Enable, Port!Control
  <2>3. connected' \in [Port!Ports -> BOOLEAN] /\ enabled' \in [Port!Ports -> BOOLEAN]
    BY <1>0, <2>1 DEF Port!Connect, Port!Disconnect, Port!Enable
  <2>4. EntryInv'
    BY <1>2, <1>4, Zenon DEF Port!Next
  <2> QED
    BY <2>2, <2>3, <2>4, OthersKept
<1> QED
  BY <1>1, <1>3, <1>4, TypeKept, PointKept, AnswerKept, Zenon DEF Port!Next

\* Nothing is held, connected or told before the driver is entered
\* (adbport.c:145-149).
LEMMA PortStart == Port!Init => PortInv
<1> SUFFICES ASSUME Port!Init PROVE PortInv
  OBVIOUS
<1>1. EntryInv
  BY EntryStart
<1>2. /\ bus = [keys |-> {}, buttons |-> {}, x |-> 0, y |-> 0] /\ class = [keys |-> {}, buttons |-> {}, x |-> 0, y |-> 0]
      /\ missed = {} /\ buttons = {} /\ packets = 0
      /\ connected = [p \in Port!Ports |-> FALSE] /\ enabled = [p \in Port!Ports |-> FALSE]
  BY DEF Port!Init, Port!Nobody
<1>3. InputsInv
  BY <1>2 DEF InputsInv, Agrees, Port!MakesOf
<1>4. MaxPackets \in Nat
  BY ServicesAssumption DEF Port!AdbPortAssumption
<1>5. PortTypes
  <2>1. /\ bus.x = 0 /\ class.x = 0 /\ class.y = 0
        /\ bus \in [keys : SUBSET Keys, buttons : SUBSET Port!Buttons, x : Int, y : Int]
        /\ class \in [keys : SUBSET Port!MakesOf(Keys), buttons : SUBSET Port!Buttons, x : Int, y : Int]
    BY <1>2
  <2>2. -64 * 0 <= 0 /\ 0 <= 63 * 0
    OBVIOUS
  <2> QED
    BY <1>2, <1>4, <2>1, <2>2 DEF PortTypes
<1> QED
  BY <1>1, <1>3, <1>5 DEF PortInv

\* The ports' invariant holds whatever the other services do meanwhile.
LEMMA PortInvariant == ServicesSpec => []PortInv
<1>1. ServicesInit => PortInv
  BY PortStart, Zenon DEF ServicesInit
<1>2. [ServicesNext]_servicesVars => Port!Next \/ UNCHANGED portVars
  BY DriverSteps, Zenon DEF DriverNext, driverVars
<1>3. PortInv /\ [ServicesNext]_servicesVars => PortInv'
  BY <1>2, PortStep
<1> QED
  BY <1>1, <1>3, PTL DEF ServicesSpec

\* As long as a class driver was given every event, the keys, buttons and
\* position it has are those of the devices, for any keyboard and any table of
\* make codes (kbd.c:58-72, mouse.c:20-45).
THEOREM InputsFollowTheDevices == ServicesSpec => []InputsAgree
<1>1. PortInv => InputsAgree
  <2> SUFFICES ASSUME PortInv PROVE InputsAgree
    OBVIOUS
  <2>1. Port!PointerAgrees
    BY DEF PortInv, InputsInv, Port!PointerAgrees
  <2>2. Port!KeysAgree
    <3>1. Port!MakesOf({}) = {}
      BY DEF Port!MakesOf
    <3> QED
      BY <3>1 DEF PortInv, InputsInv, Agrees, Port!KeysAgree
  <2> QED
    BY <2>1, <2>2 DEF InputsAgree
<1> QED
  BY <1>1, PortInvariant, PTL

\* The disk device's invariant, from the proofs about it (ramdisk.c:35-83).
LEMMA DiskInvariant == ServicesSpec => []DiskP!IInv
<1>0. DiskP!RamDiskAssumption
  BY ServicesAssumption DEF Disk!RamDiskAssumption, DiskP!RamDiskAssumption
<1>1. ServicesInit => DiskP!IInv
  <2>1. ServicesInit => DiskP!DiskInit
    BY Zenon DEF ServicesInit, Disk!DiskInit, DiskP!DiskInit
  <2> QED
    BY <1>0, <2>1, DiskP!InitIInv
<1>2. [ServicesNext]_servicesVars => [DiskP!DiskNext]_DiskP!diskVars
  <2>1. Disk!DiskNext => DiskP!DiskNext
    BY Zenon DEF Disk!DiskNext, DiskP!DiskNext, Disk!AdbDiskReadWrite, DiskP!AdbDiskReadWrite, Disk!AdbDiskControl,
       DiskP!AdbDiskControl, Disk!Refuses, DiskP!Refuses, Disk!Complete, DiskP!Complete, Disk!Cylinders, DiskP!Cylinders,
       Disk!ULong, DiskP!ULong
  <2> QED
    BY <2>1, DriverSteps, Zenon DEF DriverNext, driverVars, diskVars, DiskP!diskVars
<1>3. DiskP!IInv /\ [ServicesNext]_servicesVars => DiskP!IInv'
  BY <1>0, <1>2, DiskP!NextIInv
<1> QED
  BY <1>1, <1>3, PTL DEF ServicesSpec

\* The floppy that is counted is there with its image, whichever step of
\* DriverEntry failed, and no transfer leaves the image, for an image, a
\* block and a word of any size (adbport.c:150-165, ramdisk.c:35-50).
THEOREM FloppyStaysSound == ServicesSpec => []FloppyIsSound
<1>1. PortInv => Port!FloppyIsThere
  BY DEF PortInv, EntryInv, Port!FloppyIsThere
<1>2. DiskP!IInv => Disk!DiskStaysInside
  <2>1. DiskP!RamDiskAssumption
    BY ServicesAssumption DEF Disk!RamDiskAssumption, DiskP!RamDiskAssumption
  <2>2. DiskP!SectorsAreThere
    BY <2>1, DiskP!GeometryFits
  <2>3. DiskP!IInv => DiskP!DiskStaysInside
    BY <2>2 DEF DiskP!IInv, DiskP!Answered, DiskP!SectorsAreThere, DiskP!DiskStaysInside, DiskP!GeometryIsReadable
  <2> QED
    BY <2>3, Zenon DEF Disk!DiskStaysInside, DiskP!DiskStaysInside, Disk!FenceIntact, DiskP!FenceIntact,
       Disk!GeometryIsReadable, DiskP!GeometryIsReadable, Disk!Refuses, DiskP!Refuses
<1>3. PortInv /\ DiskP!IInv => FloppyIsSound
  BY <1>1, <1>2 DEF FloppyIsSound
<1> QED
  BY <1>3, PortInvariant, DiskInvariant, PTL

-----------------------------------------------------------------------------
(* The text console. *)

\* A step of the console, or none.
LEMMA ConsoleSteps == [ServicesNext]_servicesVars => Screen!Next \/ UNCHANGED consoleVars
BY Zenon DEF ServicesNext, servicesVars

\* The rows of memory are the lines on the paper, blank where there is none yet.
Shows(v, r, p) ==
  /\ r = Len(p) - 1
  /\ \A n \in 0 .. VramRows - 1 : v[n] = IF n <= r THEN p[n + 1] ELSE Screen!BlankLine

Papers == {p \in Seq(Screen!Line) : 1 <= Len(p) /\ Len(p) <= Rows}

ConsoleInv ==
  /\ active \in BOOLEAN /\ moved \in BOOLEAN /\ column \in 0 .. MaxColumn
  /\ col \in 0 .. Cols /\ row \in 0 .. Rows
  /\ vram \in [0 .. VramRows - 1 -> Screen!Line] /\ paper \in Papers
  /\ ~active => vram = [n \in 0 .. VramRows - 1 |-> Screen!BlankLine] /\ paper = <<Screen!BlankLine>>
  /\ active /\ ~moved => Shows(vram, row, paper)

\* The numbers of the screen: some rows and columns, and room for more rows in
\* its memory (vga.c:78-121).
LEMMA ScreenSizes == Cols \in Nat \ {0} /\ Rows \in Nat \ {0} /\ VramRows \in Nat /\ Rows < VramRows /\ MaxColumn \in Nat /\ Cols < MaxColumn
BY ServicesAssumption DEF Screen!ConsoleAssumption

\* A blank line is a line.
LEMMA BlankIsLine == Screen!BlankLine \in Screen!Line
BY DEF Screen!BlankLine, Screen!Line

\* One blank line is a sheet of paper.
LEMMA BlankPaper == <<Screen!BlankLine>> \in Papers /\ Len(<<Screen!BlankLine>>) = 1 /\ <<Screen!BlankLine>>[1] = Screen!BlankLine
<1> DEFINE line == Screen!BlankLine
<1>1. line \in Screen!Line
  BY BlankIsLine
<1> HIDE DEF line
<1>2. <<line>> \in Seq(Screen!Line) /\ Len(<<line>>) = 1 /\ <<line>>[1] = line
  BY <1>1
<1> QED
  BY <1>2, ScreenSizes DEF Papers, line

\* A fed paper.
LEMMA FedPaper ==
  ASSUME NEW p \in Papers
  PROVE  /\ Screen!Fed(p) \in Papers
         /\ Len(p) = Rows => /\ Len(Screen!Fed(p)) = Rows
                             /\ \A n \in 1 .. Rows : Screen!Fed(p)[n] = IF n < Rows THEN p[n + 1] ELSE Screen!BlankLine
         /\ Len(p) # Rows => /\ Len(Screen!Fed(p)) = Len(p) + 1
                             /\ \A n \in 1 .. Len(p) + 1 : Screen!Fed(p)[n] = IF n <= Len(p) THEN p[n] ELSE Screen!BlankLine
<1> DEFINE line == Screen!BlankLine
<1>1. line \in Screen!Line /\ Rows \in Nat \ {0} /\ p \in Seq(Screen!Line) /\ Len(p) \in 1 .. Rows
  BY BlankIsLine, ScreenSizes DEF Papers
<1> HIDE DEF line
<1>2. CASE Len(p) = Rows
  <2>1. Screen!Fed(p) = Append(Tail(p), line)
    BY <1>2 DEF Screen!Fed, line
  <2>2. Tail(p) \in Seq(Screen!Line) /\ Len(Tail(p)) = Rows - 1 /\ \A n \in 1 .. Rows - 1 : Tail(p)[n] = p[n + 1]
    BY <1>1, <1>2
  <2>3. /\ Append(Tail(p), line) \in Seq(Screen!Line) /\ Len(Append(Tail(p), line)) = Rows
        /\ \A n \in 1 .. Rows : Append(Tail(p), line)[n] = IF n < Rows THEN p[n + 1] ELSE line
    BY <1>1, <2>2
  <2> QED
    BY <1>1, <1>2, <2>1, <2>3 DEF Papers, line
<1>3. CASE Len(p) # Rows
  <2>1. Screen!Fed(p) = Append(p, line)
    BY <1>3 DEF Screen!Fed, line
  <2>2. /\ Append(p, line) \in Seq(Screen!Line) /\ Len(Append(p, line)) = Len(p) + 1
        /\ \A n \in 1 .. Len(p) + 1 : Append(p, line)[n] = IF n <= Len(p) THEN p[n] ELSE line
    BY <1>1
  <2> QED
    BY <1>1, <1>3, <2>1, <2>2 DEF Papers, line
<1> QED
  BY <1>2, <1>3

\* What a line feed does to the screen, field by field.
LEMMA NewLineIs ==
  ASSUME NEW c, NEW r \in 0 .. Rows, NEW v \in [0 .. VramRows - 1 -> Screen!Line],
         NEW s, s = [col |-> c, row |-> r, vram |-> v]
  PROVE  /\ Screen!NewLine(s).col = 0
         /\ Screen!NewLine(s) = [col |-> 0, row |-> Screen!NewLine(s).row, vram |-> Screen!NewLine(s).vram]
         /\ r + 1 < Rows => Screen!NewLine(s).row = r + 1 /\ Screen!NewLine(s).vram = v
         /\ ~(r + 1 < Rows) => Screen!NewLine(s).row = r /\ Screen!NewLine(s).vram = Screen!Scrolled(v)
BY DEF Screen!NewLine

\* Scrolling moves the visible rows up and blanks the last (vga.c:123-129).
LEMMA ScrolledIs ==
  ASSUME NEW v \in [0 .. VramRows - 1 -> Screen!Line]
  PROVE  /\ Screen!Scrolled(v) \in [0 .. VramRows - 1 -> Screen!Line]
         /\ \A n \in 0 .. VramRows - 1 :
              Screen!Scrolled(v)[n] = IF n + 1 < Rows THEN v[n + 1] ELSE IF n = Rows - 1 THEN Screen!BlankLine ELSE v[n]
BY BlankIsLine, ScreenSizes DEF Screen!Scrolled, Screen!Visible

\* The screen scrolls when the paper is fed.
LEMMA FeedsShow ==
  ASSUME NEW c, NEW r \in 0 .. Rows, NEW v \in [0 .. VramRows - 1 -> Screen!Line], NEW p \in Papers, Shows(v, r, p),
         NEW s, s = [col |-> c, row |-> r, vram |-> v]
  PROVE  Shows(Screen!NewLine(s).vram, Screen!NewLine(s).row, Screen!Fed(p))
<1>1. Rows \in Nat \ {0} /\ VramRows \in Nat /\ Rows < VramRows /\ Len(p) \in 1 .. Rows /\ r = Len(p) - 1
  BY ScreenSizes DEF Papers, Shows
<1>2. \A n \in 0 .. VramRows - 1 : v[n] = IF n <= r THEN p[n + 1] ELSE Screen!BlankLine
  BY DEF Shows
<1>3. CASE r + 1 < Rows
  <2>1. Screen!NewLine(s).row = r + 1 /\ Screen!NewLine(s).vram = v
    BY <1>3, NewLineIs
  <2>2. /\ Len(Screen!Fed(p)) = Len(p) + 1
        /\ \A n \in 1 .. Len(p) + 1 : Screen!Fed(p)[n] = IF n <= Len(p) THEN p[n] ELSE Screen!BlankLine
    BY <1>1, <1>3, FedPaper
  <2>3. ASSUME NEW n \in 0 .. VramRows - 1
        PROVE  v[n] = IF n <= r + 1 THEN Screen!Fed(p)[n + 1] ELSE Screen!BlankLine
    BY <1>1, <1>2, <2>2
  <2> QED
    BY <1>1, <2>1, <2>2, <2>3 DEF Shows
<1>4. CASE ~(r + 1 < Rows)
  <2>1. Screen!NewLine(s).row = r /\ Screen!NewLine(s).vram = Screen!Scrolled(v) /\ r = Rows - 1 /\ Len(p) = Rows
    BY <1>1, <1>4, NewLineIs
  <2>2. /\ Len(Screen!Fed(p)) = Rows
        /\ \A n \in 1 .. Rows : Screen!Fed(p)[n] = IF n < Rows THEN p[n + 1] ELSE Screen!BlankLine
    BY <2>1, FedPaper
  <2>3. ASSUME NEW n \in 0 .. VramRows - 1
        PROVE  Screen!Scrolled(v)[n] = IF n <= r THEN Screen!Fed(p)[n + 1] ELSE Screen!BlankLine
    BY <1>1, <1>2, <2>1, <2>2, ScrolledIs
  <2> QED
    BY <1>1, <2>1, <2>2, <2>3 DEF Shows
<1> QED
  BY <1>3, <1>4

\* A character on the last line of both.
LEMMA GlyphShows ==
  ASSUME NEW v \in [0 .. VramRows - 1 -> Screen!Line], NEW r \in 0 .. Rows, NEW p \in Papers,
         NEW x \in 0 .. Cols - 1, NEW ch \in Printable
  PROVE  /\ [v EXCEPT ![r][x] = ch] \in [0 .. VramRows - 1 -> Screen!Line]
         /\ [p EXCEPT ![Len(p)][x] = ch] \in Papers
         /\ Shows(v, r, p) => Shows([v EXCEPT ![r][x] = ch], r, [p EXCEPT ![Len(p)][x] = ch])
<1> DEFINE old == v[r]
           line == [old EXCEPT ![x] = ch]
           mine == [p[Len(p)] EXCEPT ![x] = ch]
<1>1. Rows \in Nat \ {0} /\ VramRows \in Nat /\ Rows < VramRows /\ p \in Seq(Screen!Line) /\ Len(p) \in 1 .. Rows
  BY ScreenSizes DEF Papers
<1>2. ASSUME NEW l \in Screen!Line PROVE [l EXCEPT ![x] = ch] \in Screen!Line
  BY <1>2, ScreenSizes DEF Screen!Line
<1>3. r \in 0 .. VramRows - 1 /\ line \in Screen!Line /\ mine \in Screen!Line
  <2>1. p[Len(p)] \in Screen!Line
    BY <1>1
  <2> QED
    BY <1>1, <1>2, <2>1
<1>4. [v EXCEPT ![r][x] = ch] = [v EXCEPT ![r] = line] /\ [p EXCEPT ![Len(p)][x] = ch] = [p EXCEPT ![Len(p)] = mine]
  OBVIOUS
<1>5. Shows(v, r, p) => line = mine
  <2>1. Shows(v, r, p) => r = Len(p) - 1 /\ v[r] = p[r + 1]
    BY <1>1, <1>3 DEF Shows
  <2>2. Len(p) - 1 + 1 = Len(p)
    BY <1>1
  <2> QED
    BY <1>1, <2>1, <2>2
<1> HIDE DEF line, mine, old
<1>6. [v EXCEPT ![r] = line] \in [0 .. VramRows - 1 -> Screen!Line]
  BY <1>3
<1> DEFINE paged == [p EXCEPT ![Len(p)] = mine]
<1>7. paged \in Seq(Screen!Line) /\ Len(paged) = Len(p) /\ \A n \in 1 .. Len(p) : paged[n] = IF n = Len(p) THEN mine ELSE p[n]
  BY <1>1, <1>3
<1> HIDE DEF paged
<1>8. ASSUME Shows(v, r, p) PROVE Shows([v EXCEPT ![r] = line], r, paged)
  <2>1. r = Len(p) - 1 /\ \A n \in 0 .. VramRows - 1 : v[n] = IF n <= r THEN p[n + 1] ELSE Screen!BlankLine
    BY <1>8 DEF Shows
  <2>2. ASSUME NEW n \in 0 .. VramRows - 1
        PROVE  [v EXCEPT ![r] = line][n] = IF n <= r THEN paged[n + 1] ELSE Screen!BlankLine
    <3>1. CASE n = r
      BY <1>1, <1>3, <1>5, <1>7, <1>8, <2>1, <3>1
    <3>2. CASE n < r
      <4>1. n + 1 \in 1 .. Len(p) /\ n + 1 # Len(p) /\ n <= r /\ n # r
        BY <1>1, <2>1, <3>2
      <4>2. paged[n + 1] = p[n + 1] /\ v[n] = p[n + 1]
        BY <1>7, <2>1, <4>1
      <4>3. [v EXCEPT ![r] = line][n] = v[n]
        BY <4>1
      <4> QED
        BY <4>1, <4>2, <4>3
    <3>3. CASE r < n
      <4>1. ~(n <= r) /\ n # r
        BY <1>1, <2>1, <3>3
      <4>2. [v EXCEPT ![r] = line][n] = v[n]
        BY <4>1
      <4> QED
        BY <2>1, <4>1, <4>2
    <3> QED
      BY <1>1, <2>1, <3>1, <3>2, <3>3
  <2> QED
    BY <1>7, <2>1, <2>2 DEF Shows
<1> QED
  BY <1>1, <1>4, <1>6, <1>7, <1>8 DEF Papers, paged

\* The fields of a cursor with its screen.
LEMMA FieldsOf ==
  ASSUME NEW s, NEW a, NEW b, NEW d, s = [col |-> a, row |-> b, vram |-> d]
  PROVE  s.col = a /\ s.row = b /\ s.vram = d
OBVIOUS

\* One character, on the screen and on the paper.
LEMMA CharShows ==
  ASSUME NEW c \in 0 .. Cols, NEW r \in 0 .. Rows, NEW v \in [0 .. VramRows - 1 -> Screen!Line], NEW p \in Papers,
         NEW ch \in Printable \cup {"cr", "lf"},
         NEW s, s = [col |-> c, row |-> r, vram |-> v], NEW t, t = Screen!HalpFbPutChar(s, ch)
  PROVE  /\ t.col \in 0 .. Cols /\ t.row \in 0 .. Rows /\ t.vram \in [0 .. VramRows - 1 -> Screen!Line]
         /\ Screen!Printed(p, c, ch) \in Papers
         /\ Shows(v, r, p) => Shows(t.vram, t.row, Screen!Printed(p, c, ch))
<1>0. Cols \in Nat \ {0} /\ Rows \in Nat \ {0} /\ VramRows \in Nat /\ Rows < VramRows
  BY ScreenSizes
<1>1. CASE ch = "cr"
  <2>1. t = [s EXCEPT !.col = 0] /\ Screen!Printed(p, c, ch) = p
    BY <1>1 DEF Screen!HalpFbPutChar, Screen!Printed
  <2> QED
    BY <1>0, <2>1
<1>2. ASSUME NEW n, n = Screen!NewLine(s)
      PROVE  /\ n.col = 0 /\ n.row \in 0 .. Rows /\ n.vram \in [0 .. VramRows - 1 -> Screen!Line]
             /\ n = [col |-> 0, row |-> n.row, vram |-> n.vram]
  <2>1. CASE r + 1 < Rows
    BY <1>0, <1>2, <2>1, NewLineIs
  <2>2. CASE ~(r + 1 < Rows)
    BY <1>0, <1>2, <2>2, NewLineIs, ScrolledIs
  <2> QED
    BY <2>1, <2>2
<1>3. CASE ch = "lf"
  <2>1. t = Screen!NewLine(s) /\ Screen!Printed(p, c, ch) = Screen!Fed(p)
    BY <1>3 DEF Screen!HalpFbPutChar, Screen!Printed
  <2>2. Shows(v, r, p) => Shows(t.vram, t.row, Screen!Fed(p))
    BY <2>1, FeedsShow
  <2>3. Screen!Fed(p) \in Papers
    BY FedPaper
  <2>4. t.col = 0 /\ t.row \in 0 .. Rows /\ t.vram \in [0 .. VramRows - 1 -> Screen!Line]
    BY <1>2, <2>1
  <2>5. t.col \in 0 .. Cols
    BY <1>0, <2>4
  <2> QED
    BY <2>1, <2>2, <2>3, <2>4, <2>5
<1>4. CASE ch # "cr" /\ ch # "lf"
  <2> DEFINE w == Screen!Wrapped(s)
             q == IF c = Cols THEN Screen!Fed(p) ELSE p
             x == IF c = Cols THEN 0 ELSE c
  <2>1. t = Screen!Glyph(w, ch) /\ Screen!Printed(p, c, ch) = [q EXCEPT ![Len(q)][x] = ch] /\ ch \in Printable
    BY <1>4 DEF Screen!HalpFbPutChar, Screen!Printed
  <2>2. /\ w = [col |-> x, row |-> w.row, vram |-> w.vram] /\ w.row \in 0 .. Rows
        /\ w.vram \in [0 .. VramRows - 1 -> Screen!Line] /\ q \in Papers
        /\ Shows(v, r, p) => Shows(w.vram, w.row, q)
    <3>1. CASE c = Cols
      <4>1. w = Screen!NewLine(s) /\ q = Screen!Fed(p) /\ x = 0
        BY <1>0, <3>1 DEF Screen!Wrapped
      <4>2. Shows(v, r, p) => Shows(w.vram, w.row, q)
        BY <4>1, FeedsShow
      <4> QED
        BY <1>2, <4>1, <4>2, FedPaper
    <3>2. CASE c # Cols
      <4>1. w = s /\ q = p /\ x = c
        BY <1>0, <3>2 DEF Screen!Wrapped
      <4> QED
        BY <4>1
    <3> QED
      BY <3>1, <3>2
  <2>3. x \in 0 .. Cols - 1
    BY <1>0
  <2> DEFINE wr == w.row
             wv == w.vram
  <2>4. w = [col |-> x, row |-> wr, vram |-> wv] /\ wr \in 0 .. Rows /\ wv \in [0 .. VramRows - 1 -> Screen!Line]
        /\ (Shows(v, r, p) => Shows(wv, wr, q)) /\ q \in Papers
    BY <2>2
  <2> HIDE DEF w, q, x, wr, wv
  <2>5. wr \in DOMAIN wv /\ x < Cols
    BY <1>0, <2>3, <2>4
  <2>6. t = [col |-> x + 1, row |-> wr, vram |-> [wv EXCEPT ![wr][x] = ch]]
    BY <2>1, <2>4, <2>5 DEF Screen!Glyph
  <2>7. /\ [wv EXCEPT ![wr][x] = ch] \in [0 .. VramRows - 1 -> Screen!Line]
        /\ [q EXCEPT ![Len(q)][x] = ch] \in Papers
        /\ Shows(wv, wr, q) => Shows([wv EXCEPT ![wr][x] = ch], wr, [q EXCEPT ![Len(q)][x] = ch])
    BY <2>1, <2>3, <2>4, GlyphShows
  <2>8. x + 1 \in 0 .. Cols
    BY <1>0, <2>3
  <2> DEFINE painted == [wv EXCEPT ![wr][x] = ch]
  <2>9. ASSUME NEW z, z = [col |-> x + 1, row |-> wr, vram |-> painted]
        PROVE  z.col = x + 1 /\ z.row = wr /\ z.vram = painted
    BY <2>9
  <2>10. t.col = x + 1 /\ t.row = wr /\ t.vram = painted
    BY Zenon, <2>6, <2>9
  <2>11. Screen!Printed(p, c, ch) \in Papers
    BY <2>1, <2>7
  <2>12. Shows(v, r, p) => Shows(t.vram, t.row, Screen!Printed(p, c, ch))
    BY <2>1, <2>4, <2>7, <2>10
  <2> QED
    BY <2>4, <2>7, <2>8, <2>10, <2>11, <2>12
<1> QED
  BY <1>1, <1>3, <1>4

\* The screen is blank, like the paper, before it is set up (vga.c:18-30).
LEMMA ConsoleStart == Screen!Init => ConsoleInv
<1> SUFFICES ASSUME Screen!Init PROVE ConsoleInv
  OBVIOUS
<1>1. Cols \in Nat \ {0} /\ Rows \in Nat \ {0} /\ VramRows \in Nat /\ MaxColumn \in Nat
  BY ScreenSizes
<1>2. /\ active = FALSE /\ col = 0 /\ row = 0 /\ column = 0 /\ moved = FALSE
      /\ vram = [n \in 0 .. VramRows - 1 |-> Screen!BlankLine] /\ paper = <<Screen!BlankLine>>
  BY DEF Screen!Init
<1>3. vram \in [0 .. VramRows - 1 -> Screen!Line]
  BY <1>2, BlankIsLine
<1>4. paper \in Papers
  BY <1>2, BlankPaper
<1>5. 0 \in 0 .. Cols /\ 0 \in 0 .. Rows /\ 0 \in 0 .. MaxColumn
  BY <1>1
<1> QED
  BY <1>2, <1>3, <1>4, <1>5 DEF ConsoleInv

\* The column of the serial line.
LEMMA SentIs ==
  ASSUME NEW ch, column \in 0 .. MaxColumn, Screen!Sent(ch) <= MaxColumn
  PROVE  Screen!Sent(ch) \in 0 .. MaxColumn
BY ScreenSizes DEF Screen!Sent

\* Setting up, printing and moving the cursor keep the screen and the paper the
\* same, until the cursor is put elsewhere (vga.c:78-157, display.c:17-106).
LEMMA ConsoleStep == ConsoleInv /\ (Screen!Next \/ UNCHANGED consoleVars) => ConsoleInv'
<1> SUFFICES ASSUME ConsoleInv, Screen!Next \/ UNCHANGED consoleVars PROVE ConsoleInv'
  OBVIOUS
<1>0. Cols \in Nat \ {0} /\ Rows \in Nat \ {0} /\ VramRows \in Nat /\ Rows < VramRows /\ MaxColumn \in Nat /\ Cols < MaxColumn
  BY ScreenSizes
<1>1. /\ active \in BOOLEAN /\ moved \in BOOLEAN /\ column \in 0 .. MaxColumn
      /\ col \in 0 .. Cols /\ row \in 0 .. Rows
      /\ vram \in [0 .. VramRows - 1 -> Screen!Line] /\ paper \in Papers
  BY DEF ConsoleInv
<1>2. /\ ~active => vram = [n \in 0 .. VramRows - 1 |-> Screen!BlankLine] /\ paper = <<Screen!BlankLine>>
      /\ active /\ ~moved => Shows(vram, row, paper)
  BY DEF ConsoleInv
<1>3. CASE UNCHANGED consoleVars
  BY <1>1, <1>2, <1>3 DEF ConsoleInv, consoleVars
<1>4. CASE Screen!HalpFbInit
  <2>1. PICK there \in BOOLEAN :
          /\ active' = there
          /\ vram' = [n \in DOMAIN vram |-> IF there /\ n \in Screen!Visible THEN Screen!BlankLine ELSE vram[n]]
    BY <1>4 DEF Screen!HalpFbInit
  <2>2. ~active /\ col' = 0 /\ row' = 0 /\ paper' = <<Screen!BlankLine>> /\ moved' = FALSE /\ column' = column
    BY <1>4 DEF Screen!HalpFbInit
  <2>3. vram = [n \in 0 .. VramRows - 1 |-> Screen!BlankLine]
    BY <1>2, <2>2
  <2>4. vram' = [n \in 0 .. VramRows - 1 |-> Screen!BlankLine]
    BY <2>1, <2>3
  <2>5. vram' \in [0 .. VramRows - 1 -> Screen!Line]
    BY <2>4, BlankIsLine
  <2>6. paper' \in Papers /\ Len(paper') = 1 /\ paper'[1] = Screen!BlankLine
    BY <2>2, BlankPaper
  <2>7. Shows(vram', row', paper')
    BY <1>0, <2>2, <2>4, <2>6 DEF Shows
  <2>8. 0 \in 0 .. Cols /\ 0 \in 0 .. Rows
    BY <1>0
  <2> QED
    BY <1>1, <2>1, <2>2, <2>4, <2>5, <2>6, <2>7, <2>8 DEF ConsoleInv
<1>5. ASSUME NEW ch \in Printable \cup {"cr", "lf"}, Screen!HalDisplayString(ch)
      PROVE  ConsoleInv'
  <2>1. column' \in 0 .. MaxColumn /\ active' = active /\ moved' = moved
    BY <1>1, <1>5, SentIs DEF Screen!HalDisplayString
  <2>2. CASE ~active
    <3>1. UNCHANGED <<col, row, vram, paper>>
      BY <1>5, <2>2 DEF Screen!HalDisplayString
    <3> QED
      BY <1>1, <1>2, <2>1, <2>2, <3>1 DEF ConsoleInv
  <2>3. CASE active
    <3> DEFINE s == [col |-> col, row |-> row, vram |-> vram]
               t == Screen!HalpFbPutChar(s, ch)
               next == Screen!Printed(paper, col, ch)
    <3>1. col' = t.col /\ row' = t.row /\ vram' = t.vram /\ paper' = IF moved THEN paper ELSE next
      BY <1>5, <2>3 DEF Screen!HalDisplayString
    <3>2. /\ t.col \in 0 .. Cols /\ t.row \in 0 .. Rows /\ t.vram \in [0 .. VramRows - 1 -> Screen!Line]
          /\ next \in Papers
          /\ Shows(vram, row, paper) => Shows(t.vram, t.row, next)
      BY <1>1, CharShows
    <3> HIDE DEF s, t, next
    <3> QED
      BY <1>1, <1>2, <2>1, <2>3, <3>1, <3>2 DEF ConsoleInv
  <2> QED
    BY <2>2, <2>3
<1>6. ASSUME NEW ch \in Printable \cup {"cr", "lf"}, Screen!HalpPrint(ch)
      PROVE  ConsoleInv'
  <2>1. column' \in 0 .. MaxColumn /\ UNCHANGED <<active, col, row, vram, paper, moved>>
    BY <1>1, <1>6, SentIs DEF Screen!HalpPrint
  <2> QED
    BY <1>1, <1>2, <2>1 DEF ConsoleInv
<1>7. ASSUME NEW c \in 0 .. Cols + 1, NEW r \in 0 .. VramRows, Screen!HalSetDisplayParameters(c, r)
      PROVE  ConsoleInv'
  <2>1. /\ moved' = (moved \/ col' # col \/ row' # row)
        /\ paper' = IF moved' THEN <<Screen!BlankLine>> ELSE paper
        /\ UNCHANGED <<active, vram>>
    BY <1>7 DEF Screen!HalSetDisplayParameters
  <2>2. paper' \in Papers /\ moved' \in BOOLEAN
    BY <1>1, <2>1, BlankPaper
  <2>3. col' \in 0 .. Cols /\ row' \in 0 .. Rows /\ column' \in 0 .. MaxColumn
    BY <1>0, <1>1, <1>7 DEF Screen!HalSetDisplayParameters, Screen!Accepted
  <2>4. CASE moved'
    BY <1>1, <1>2, <2>1, <2>2, <2>3, <2>4 DEF ConsoleInv
  <2>5. CASE ~moved'
    BY <1>1, <1>2, <2>1, <2>2, <2>3, <2>5 DEF ConsoleInv
  <2> QED
    BY <2>4, <2>5
<1> QED
  BY <1>3, <1>4, <1>5, <1>6, <1>7 DEF Screen!Next

\* Rows that are the lines of the paper are what the property asks.
LEMMA ConsoleFollows == ConsoleInv => ScreenFollowsPaper
<1> SUFFICES ASSUME ConsoleInv PROVE ScreenFollowsPaper
  OBVIOUS
<1>0. Cols \in Nat \ {0} /\ Rows \in Nat \ {0} /\ VramRows \in Nat /\ Rows < VramRows
  BY ScreenSizes
<1>1. Screen!CursorCanBePutBack
  BY <1>0 DEF ConsoleInv, Screen!CursorCanBePutBack
<1>2. ASSUME active, ~moved
      PROVE  /\ row = Len(paper) - 1
             /\ \A r \in Screen!Visible : vram[r] = IF r <= row THEN paper[r + 1] ELSE Screen!BlankLine
             /\ \A r \in DOMAIN vram \ Screen!Visible : vram[r] = Screen!BlankLine
  <2>1. Shows(vram, row, paper) /\ vram \in [0 .. VramRows - 1 -> Screen!Line] /\ paper \in Papers
    BY <1>2 DEF ConsoleInv
  <2>2. row = Len(paper) - 1 /\ Len(paper) \in 1 .. Rows /\ DOMAIN vram = 0 .. VramRows - 1
    BY <1>0, <2>1 DEF Shows, Papers
  <2>3. \A n \in 0 .. VramRows - 1 : vram[n] = IF n <= row THEN paper[n + 1] ELSE Screen!BlankLine
    BY <2>1 DEF Shows
  <2>4. ASSUME NEW r \in Screen!Visible PROVE r \in 0 .. VramRows - 1
    BY <1>0 DEF Screen!Visible
  <2>5. ASSUME NEW r \in DOMAIN vram \ Screen!Visible PROVE r \in 0 .. VramRows - 1 /\ ~(r <= row)
    BY <1>0, <2>2 DEF Screen!Visible
  <2> QED
    BY <2>2, <2>3, <2>4, <2>5
<1> QED
  BY <1>1, <1>2 DEF ScreenFollowsPaper, Screen!ScreenFollowsPaper, Screen!ShowsTheLastLines

\* The console's invariant holds whatever the other services do meanwhile.
LEMMA ConsoleInvariant == ServicesSpec => []ConsoleInv
<1>1. ServicesInit => ConsoleInv
  BY ConsoleStart, Zenon DEF ServicesInit
<1>2. ConsoleInv /\ [ServicesNext]_servicesVars => ConsoleInv'
  BY ConsoleSteps, ConsoleStep
<1> QED
  BY <1>1, <1>2, PTL DEF ServicesSpec

\* As long as no caller put the cursor elsewhere, the visible rows are the last
\* lines a printer would have put on paper, whatever was printed and however it
\* wrapped and scrolled, and the cursor stands where the next character goes, in
\* a column a caller may put it back to (vga.c:123-157, display.c:49-106).
THEOREM ScreenShowsThePaper == ServicesSpec => []ScreenFollowsPaper
BY ConsoleFollows, ConsoleInvariant, PTL

-----------------------------------------------------------------------------
(* The types of the clock, the console and the ports. *)

\* The clock's invariant gives its types: the decrementer is a word, and
\* increments are whole milliseconds.
LEMMA ClockTypes == IInv => TypeOK
<1> SUFFICES ASSUME IInv PROVE TypeOK
  OBVIOUS
<1>1. PICK run \in Nat : Runs(run)
  BY DEF IInv
<1>2. ASSUME NEW value, NEW increment, Counts(value, increment)
      PROVE  value \in TicksPerMs .. 10 * TicksPerMs /\ increment \in MINIMUM_INCREMENT .. MAXIMUM_INCREMENT
  <2>1. PICK n \in 1 .. 10 : increment = n * MINIMUM_INCREMENT
    BY <1>2 DEF Counts
  <2>2. value \in TicksPerMs .. 10 * TicksPerMs
    BY <1>2, CountsAre
  <2>3. ASSUME NEW unit \in Nat PROVE n * unit \in unit .. 10 * unit
    OBVIOUS
  <2>4. MINIMUM_INCREMENT \in Nat /\ MAXIMUM_INCREMENT = 10 * MINIMUM_INCREMENT
    BY DEF MINIMUM_INCREMENT, MAXIMUM_INCREMENT
  <2>5. n * MINIMUM_INCREMENT \in MINIMUM_INCREMENT .. 10 * MINIMUM_INCREMENT
    BY <2>3, <2>4
  <2> QED
    BY <2>1, <2>2, <2>4, <2>5
<1>3. /\ clockCount \in TicksPerMs .. 10 * TicksPerMs /\ new \in MINIMUM_INCREMENT .. MAXIMUM_INCREMENT
      /\ run \in TicksPerMs .. 10 * TicksPerMs /\ current \in MINIMUM_INCREMENT .. MAXIMUM_INCREMENT
  BY <1>1, <1>2 DEF IInv, Runs
<1>4. dec \in 0 .. Word - 1
  <2>1. elapsed \in Nat /\ started \in Nat /\ started <= elapsed
    BY ClockAssumption DEF IInv
  <2>2. /\ Word \in Nat /\ TicksPerMs \in Nat /\ MaxLate \in Nat /\ 10 * TicksPerMs + MaxLate < Word
        /\ 10 * TicksPerMs \in Nat
    BY ClockAssumption
  <2>3. CASE pending
    BY <1>1, <1>3, <2>1, <2>2, <2>3 DEF Runs
  <2>4. CASE ~pending
    BY <1>1, <1>3, <2>1, <2>2, <2>4 DEF Runs
  <2> QED
    BY <2>3, <2>4
<1> QED
  BY <1>3, <1>4 DEF TypeOK, IInv

\* As many packets move the pointer as far as their deltas allow.
LEMMA MovesAreBounded ==
  ASSUME NEW m \in Nat, NEW n \in 0 .. m, NEW at \in Int, -64 * n <= at, at <= 63 * n
  PROVE  at \in -64 * m .. 63 * m
<1>1. -64 * m <= -64 * n /\ 63 * n <= 63 * m
  OBVIOUS
<1> QED
  BY <1>1

\* The ports' invariant gives their types.
LEMMA PortTypesAre == PortInv => Port!TypeOK
<1> SUFFICES ASSUME PortInv PROVE Port!TypeOK
  OBVIOUS
<1>1. /\ entry \in {"keyboard", "pointer", "disk", "mount", "callback", "autopoll", "up", "failed"}
      /\ created \subseteq Port!Ports \cup {"disk"}
      /\ {image, callback, polling} \subseteq BOOLEAN /\ counted \in 0 .. 1
  BY DEF PortInv, EntryInv
<1>2. /\ missed \subseteq Port!Ports \cup {"ring"} /\ connected \in [Port!Ports -> BOOLEAN] /\ enabled \in [Port!Ports -> BOOLEAN]
      /\ buttons \subseteq Port!Buttons
      /\ class.keys \subseteq Port!MakesOf(Keys) /\ class.buttons \subseteq Port!Buttons
  BY DEF PortInv, PortTypes
<1>3. MaxPackets \in Nat /\ packets \in 0 .. MaxPackets /\ class.x \in Int /\ class.y \in Int
  BY ServicesAssumption DEF Port!AdbPortAssumption, PortInv, PortTypes
<1>4. class.x \in -64 * MaxPackets .. 63 * MaxPackets /\ class.y \in -64 * MaxPackets .. 63 * MaxPackets
  BY <1>3, MovesAreBounded DEF PortInv, PortTypes
<1> QED
  BY <1>1, <1>2, <1>4 DEF Port!TypeOK

\* The console's invariant gives its types.
LEMMA ConsoleTypes == ConsoleInv => Screen!TypeOK
<1> SUFFICES ASSUME ConsoleInv PROVE Screen!TypeOK
  OBVIOUS
<1> QED
  BY ScreenSizes DEF ConsoleInv, Papers, Screen!TypeOK

\* The state of the clock, of the console and of the ports is what their
\* variables were declared for (clock.c:11-16, vga.c:22-24, display.c:10,
\* adbport.h's device extensions).
THEOREM ServicesHaveTheirTypes == ServicesSpec => []ServicesTypeOK
<1>1. IInv /\ ConsoleInv /\ PortInv => ServicesTypeOK
  BY ClockTypes, ConsoleTypes, PortTypesAre DEF ServicesTypeOK
<1> QED
  BY <1>1, ClockInvariant, ServicesRunTheClock, ConsoleInvariant, PortInvariant, PTL

-----------------------------------------------------------------------------
(* The transfers of a bus master. *)

\* A step of the transfer, or none.
LEMMA TransferSteps == [ServicesNext]_servicesVars => Dma!Next \/ UNCHANGED mapVars
BY Zenon DEF ServicesNext, servicesVars

\* The numbers of a buffer.
IsBuffer ==
  /\ mdl.offset \in 0 .. PageSize - 1 /\ mdl.count \in Nat \ {0} /\ mdl.start \in Nat /\ mdl.system \in Nat
  /\ mdl.pages \in Seq(Nat) /\ Len(mdl.pages) = Dma!Spanned /\ Dma!Limit \in Nat \ {0}
  /\ mdl.start + Dma!Limit < AddressSpace /\ mdl.system + Dma!Limit < AddressSpace
  /\ mdl.system = 0 \/ mdl.start + Dma!Limit < mdl.system \/ mdl.system + Dma!Limit < mdl.start

\* The numbers of the machine's memory (dma.c:17-44).
LEMMA PagesAre == PageSize \in Nat \ {0} /\ AddressSpace \in Nat \ {0} /\ MaxRegisters \in Nat \ {0} /\ Maxima \subseteq Nat
BY ServicesAssumption DEF Dma!MapTransferAssumption

\* The buffers a transfer is asked for are described by sound lists of pages.
LEMMA BuffersAre == mdl \in Buffers => IsBuffer
<1> SUFFICES ASSUME mdl \in Buffers PROVE IsBuffer
  OBVIOUS
<1>1. /\ mdl.offset \in 0 .. PageSize - 1 /\ mdl.count \in Nat \ {0} /\ mdl.start \in Nat /\ mdl.system \in Nat
      /\ mdl.pages \in Seq(Nat) /\ Len(mdl.pages) = (mdl.offset + mdl.count + PageSize - 1) \div PageSize
      /\ mdl.start + (mdl.offset + mdl.count) < AddressSpace /\ mdl.system + (mdl.offset + mdl.count) < AddressSpace
      /\ \/ mdl.system = 0 
         \/ mdl.start + (mdl.offset + mdl.count) < mdl.system
         \/ mdl.system + (mdl.offset + mdl.count) < mdl.start
  BY Zenon, ServicesAssumption DEF Dma!MapTransferAssumption
<1>2. Len(mdl.pages) = Dma!Spanned
  BY <1>1 DEF Dma!Spanned
<1>3. Dma!Limit \in Nat \ {0}
  <2>1. mdl.offset \in Nat /\ mdl.count \in Nat /\ mdl.count > 0
    BY <1>1, PagesAre
  <2> QED
    BY <2>1 DEF Dma!Limit
<1>4. /\ mdl.start + Dma!Limit < AddressSpace /\ mdl.system + Dma!Limit < AddressSpace
      /\ mdl.system = 0 \/ mdl.start + Dma!Limit < mdl.system \/ mdl.system + Dma!Limit < mdl.start
  BY <1>1, Zenon DEF Dma!Limit
<1> QED
  BY <1>1, <1>2, <1>3, <1>4, Zenon DEF IsBuffer

\* A byte's page and its place there, and back.
LEMMA PageOf ==
  ASSUME NEW o \in Nat
  PROVE  /\ o \div PageSize \in Nat /\ o % PageSize \in 0 .. PageSize - 1
         /\ o = (o \div PageSize) * PageSize + (o % PageSize) /\ (o \div PageSize) * PageSize \in Nat
<1>1. PageSize \in Nat \ {0}
  BY PagesAre
<1>2. o \div PageSize \in Nat /\ o % PageSize \in 0 .. PageSize - 1
  BY <1>1
<1>3. o = (o \div PageSize) * PageSize + (o % PageSize)
  BY <1>1
<1> QED
  BY <1>1, <1>2, <1>3

\* The page and the place in it of an address.
LEMMA AtPage ==
  ASSUME NEW q \in Nat, NEW x \in 0 .. PageSize - 1
  PROVE  (q * PageSize + x) \div PageSize = q /\ (q * PageSize + x) % PageSize = x
<1>1. PageSize \in Nat \ {0}
  BY PagesAre
<1> QED
  BY <1>1

\* Up to the end of page q there are no more than q pages.
LEMMA PagesUpTo ==
  ASSUME NEW q \in Nat, NEW x \in Nat, x < (q + 1) * PageSize
  PROVE  x \div PageSize <= q
<1> DEFINE w == PageSize
           d == x \div PageSize
<1>1. w \in Nat \ {0} /\ d \in Nat /\ x % w \in 0 .. w - 1 /\ x = d * w + (x % w)
  BY PagesAre, PageOf
<1> HIDE DEF w, d
<1>2. SUFFICES ASSUME d >= q + 1 PROVE FALSE
  BY <1>1 DEF w, d
<1>3. \A a, b \in Nat : a >= b => a * w >= b * w /\ a * w \in Nat /\ b * w \in Nat
  BY <1>1
<1>4. d * w >= (q + 1) * w /\ d * w \in Nat /\ (q + 1) * w \in Nat
  BY <1>1, <1>2, <1>3
<1> QED
  BY <1>1, <1>4 DEF w

\* The last byte of a buffer lies in the last page of its list.
LEMMA BytesHavePages ==
  ASSUME IsBuffer, NEW o \in 0 .. Dma!Limit - 1
  PROVE  o \div PageSize + 1 \in 1 .. Len(mdl.pages)
<1> DEFINE w == PageSize
           d == o \div PageSize
           end == Dma!Limit
<1>1. w \in Nat \ {0} /\ d \in Nat /\ o % w \in 0 .. w - 1 /\ o = d * w + (o % w) /\ d * w \in Nat
  BY PagesAre, PageOf
<1>2. end \in Nat \ {0} /\ Len(mdl.pages) = (end + w - 1) \div w /\ o < end
  BY DEF IsBuffer, Dma!Spanned, Dma!Limit
<1>3. (end + w - 1) \in Nat /\ (end + w - 1) \div w \in Nat
  BY <1>1, <1>2
<1>4. (end + w - 1) = ((end + w - 1) \div w) * w + ((end + w - 1) % w) /\ (end + w - 1) % w \in 0 .. w - 1
  BY <1>3, PageOf
<1> DEFINE e == (end + w - 1) \div w
           rest == (end + w - 1) % w
<1>5. d < e
  <2> HIDE DEF d, e, rest, w, end
  <2>1. \A a, b \in Nat : a >= b => a * w >= b * w /\ a * w \in Nat /\ b * w \in Nat
    BY <1>1
  <2>2. SUFFICES ASSUME d >= e PROVE FALSE
    BY <1>1, <1>3 DEF e
  <2>3. d * w >= e * w /\ e * w \in Nat
    BY <1>1, <1>3, <2>1, <2>2 DEF e
  <2>4. end + w - 1 = e * w + rest /\ rest <= w - 1 /\ rest \in Nat
    BY <1>1, <1>4 DEF e, rest
  <2> QED
    BY <1>1, <1>2, <2>3, <2>4
<1> HIDE DEF d, e, rest, end
<1> QED
  BY <1>1, <1>2, <1>3, <1>5 DEF d, e, end

-----------------------------------------------------------------------------

\* Whichever of its two addresses the driver counts in, the place is found.
LEMMA PlaceIsFound ==
  ASSUME IsBuffer, NEW o \in 0 .. Dma!Limit, NEW base,
         base = mdl.start \/ (base = mdl.system /\ mdl.system # 0), currentVa = base + o
  PROVE  Dma!Offset = o
<1> DEFINE end == Dma!Limit
           s == mdl.start
           y == mdl.system
           w == AddressSpace
<1>1. /\ s \in Nat /\ y \in Nat /\ end \in Nat \ {0} /\ s + end < w /\ y + end < w /\ o \in 0 .. end /\ w \in Nat
      /\ y = 0 \/ s + end < y \/ y + end < s
  BY PagesAre DEF IsBuffer
<1>2. Dma!Beyond(s) = (currentVa - s) % w /\ Dma!Beyond(y) = (currentVa - y) % w
  BY DEF Dma!Beyond
<1>3. Dma!Offset = IF Dma!Beyond(s) > end /\ y # 0 /\ Dma!Beyond(y) <= end THEN Dma!Beyond(y) ELSE Dma!Beyond(s)
  BY DEF Dma!Offset
<1>4. base = s \/ (base = y /\ y # 0)
  OBVIOUS
<1> HIDE DEF end, s, y, w
<1>5. o % w = o /\ o <= end
  BY <1>1
<1>6. CASE base = s
  <2>1. currentVa - s = o
    BY <1>1, <1>6
  <2>2. Dma!Beyond(s) = o
    BY <1>2, <1>5, <2>1
  <2> QED
    BY <1>1, <1>3, <1>5, <2>2
<1>7. CASE base = y /\ y # 0
  <2>1. currentVa - y = o
    BY <1>1, <1>7
  <2>2. Dma!Beyond(y) = o
    BY <1>2, <1>5, <2>1
  <2>3. CASE s + end < y
    <3>1. (y + o) - s \in end + 1 .. w - 1
      BY <1>1, <2>3
    <3>2. ((y + o) - s) % w = (y + o) - s
      BY <1>1, <3>1
    <3>3. Dma!Beyond(s) > end
      BY <1>1, <1>2, <1>7, <3>1, <3>2
    <3> QED
      BY <1>3, <1>5, <1>7, <2>2, <3>3
  <2>4. CASE y + end < s
    <3>1. ((y + o) - s) + w \in end + 1 .. w - 1 /\ (y + o) - s < 0
      BY <1>1, <2>4
    <3>2. ((y + o) - s) % w = ((y + o) - s) + w
      BY <1>1, <3>1
    <3>3. Dma!Beyond(s) > end
      BY <1>1, <1>2, <1>7, <3>1, <3>2
    <3> QED
      BY <1>3, <1>5, <1>7, <2>2, <3>3
  <2> QED
    BY <1>1, <1>7, <2>3, <2>4
<1> QED
  BY <1>4, <1>6, <1>7

\* A driver is granted the registers of what it announced.
LEMMA Grants ==
  ASSUME IsBuffer, maximum \in Nat, mdl.count <= maximum,
         maximum > (MaxRegisters - 1) * PageSize => mdl.count <= (MaxRegisters - 1) * PageSize
  PROVE  ~(Dma!Spanned > Dma!Granted \/ Dma!Spanned > MaxRegisters)
<1> DEFINE w == PageSize
           off == mdl.offset
           n == mdl.count
           up == (maximum + w - 1) \div w
           m == MaxRegisters - 1
<1>1. w \in Nat \ {0} /\ MaxRegisters \in Nat \ {0} /\ m \in Nat /\ off \in 0 .. w - 1 /\ n \in Nat /\ maximum \in Nat
  BY PagesAre DEF IsBuffer
<1>2. off + n + w - 1 \in Nat /\ Dma!Spanned = (off + n + w - 1) \div w /\ maximum + w - 1 \in Nat
  BY <1>1 DEF Dma!Spanned
<1>3. /\ up \in Nat /\ (maximum + w - 1) % w \in 0 .. w - 1
      /\ maximum + w - 1 = up * w + ((maximum + w - 1) % w) /\ up * w \in Nat
  BY <1>2, PageOf
<1>4. ASSUME NEW q \in Nat, n <= q * w PROVE off + n + w - 1 < (q + 1 + 1) * w
  <2>1. q * w \in Nat /\ (q + 1 + 1) * w = q * w + w + w
    BY <1>1
  <2> HIDE DEF w, off, n
  <2> QED
    BY <1>1, <1>4, <2>1
<1>5. ASSUME NEW q \in Nat, n <= q * w PROVE Dma!Spanned <= q + 1
  <2>1. (off + n + w - 1) \div w <= q + 1
    BY <1>2, <1>4, <1>5, PagesUpTo
  <2> QED
    BY <1>2, <2>1
<1>6. n <= up * w
  <2> DEFINE rest == (maximum + w - 1) % w
  <2>1. rest \in 0 .. w - 1 /\ maximum + w - 1 = up * w + rest
    BY <1>3
  <2> HIDE DEF up, w, n, rest
  <2>2. maximum <= up * w
    BY <1>1, <1>3, <2>1
  <2> QED
    BY <1>1, <1>3, <2>2 DEF n
<1>7. Dma!Spanned <= up + 1
  BY <1>3, <1>5, <1>6
<1>8. n <= m * w /\ m * w \in Nat
  <2>1. m * w \in Nat
    BY <1>1
  <2> QED
    BY <1>1, <2>1
<1>9. Dma!Spanned <= MaxRegisters
  <2>1. Dma!Spanned <= m + 1
    BY <1>1, <1>5, <1>8
  <2> QED
    BY <1>1, <2>1
<1>10. Dma!Granted = IF up + 1 > MaxRegisters THEN MaxRegisters ELSE up + 1
  BY DEF Dma!Granted
<1>11. Dma!Spanned \in Nat
  BY <1>1, <1>2
<1> HIDE DEF up, m
<1> QED
  BY <1>1, <1>3, <1>7, <1>9, <1>10, <1>11

\* What IoMapTransfer may answer for a place in the buffer: some of what is
\* left there, all of it the buffer's own.
MayAnswer(o, n) ==
  /\ n \in 1 .. Dma!Limit - o /\ n <= left
  /\ \A k \in 0 .. n - 1 : (mdl.pages[o \div PageSize + 1] * PageSize + (o % PageSize)) + k = Dma!PhysicalOf(o + k)

\* A byte in the page that lies q pages behind another's.
LEMMA Follows ==
  ASSUME IsBuffer, NEW o \in Nat, NEW k \in Nat, NEW q \in Nat, q = ((o % PageSize) + k) \div PageSize,
         o + k < Dma!Limit,
         mdl.pages[o \div PageSize + q + 1] = mdl.pages[o \div PageSize + 1] + q
  PROVE  (mdl.pages[o \div PageSize + 1] * PageSize + (o % PageSize)) + k = Dma!PhysicalOf(o + k)
<1> DEFINE w == PageSize
           page == o \div w
           i == o % w
           x == (i + k) % w
           first == mdl.pages[page + 1]
<1>1. w \in Nat \ {0} /\ page \in Nat /\ i \in 0 .. w - 1 /\ o = page * w + i /\ page * w \in Nat
  BY PagesAre, PageOf
<1>2. i \in Nat /\ q = (i + k) \div w /\ x = (i + k) % w
  <2>1. i \in Nat
    <3> HIDE DEF w, i
    <3> QED
      BY <1>1
  <2> QED
    BY <2>1
<1>3. ASSUME NEW n \in Nat PROVE n \div w \in Nat /\ n % w \in 0 .. w - 1 /\ n = (n \div w) * w + (n % w) /\ (n \div w) * w \in Nat
  BY PageOf
<1>4. ASSUME NEW a \in Nat, NEW y \in 0 .. w - 1 PROVE (a * w + y) \div w = a /\ (a * w + y) % w = y
  BY AtPage
<1>5. /\ page + 1 \in 1 .. Len(mdl.pages)
      /\ (o + k) \div w + 1 \in 1 .. Len(mdl.pages)
  <2>1. o + k \in 0 .. Dma!Limit - 1 /\ o \in 0 .. Dma!Limit - 1
    BY DEF IsBuffer
  <2> QED
    BY <2>1, BytesHavePages
<1>6. first \in Nat
  <2>1. mdl.pages \in Seq(Nat)
    BY DEF IsBuffer
  <2> QED
    BY Zenon, <1>5, <2>1, ElementOfSeq
<1>7. mdl.pages[page + q + 1] = first + q /\ Dma!PhysicalOf(o + k) = mdl.pages[(o + k) \div w + 1] * w + ((o + k) % w)
  BY DEF Dma!PhysicalOf
<1> HIDE DEF w, page, i, x, first
<1>8. i + k \in Nat
  BY <1>2
<1>9. x \in 0 .. w - 1 /\ i + k = q * w + x /\ q * w \in Nat
  BY <1>2, <1>3, <1>8
<1>10. \A a, b, c \in Nat : a * c + b * c = (a + b) * c /\ a * c \in Nat
  OBVIOUS
<1>11. page * w + q * w = (page + q) * w /\ first * w + q * w = (first + q) * w /\ first * w \in Nat /\ page + q \in Nat
  BY <1>1, <1>6, <1>10
<1>12. o + k = (page + q) * w + x
  <2>1. o + k = (page * w + q * w) + x
    BY <1>1, <1>9
  <2> QED
    BY <1>11, <2>1
<1>13. (o + k) \div w = page + q /\ (o + k) % w = x
  BY <1>4, <1>9, <1>11, <1>12
<1>14. Dma!PhysicalOf(o + k) = (first + q) * w + x
  BY <1>7, <1>13
<1>15. (first * w + i) + k = (first + q) * w + x
  <2>1. (first * w + i) + k = (first * w + q * w) + x
    <3> DEFINE fw == first * w
               qw == q * w
    <3>1. x \in Int /\ i \in Int /\ k \in Int /\ fw \in Int /\ qw \in Int /\ i + k = qw + x
      BY <1>2, <1>9, <1>11
    <3> HIDE DEF fw, qw
    <3>2. (fw + i) + k = (fw + qw) + x
      BY <3>1
    <3> QED
      BY <3>2 DEF fw, qw
  <2> QED
    BY <1>11, <2>1
<1> QED
  BY <1>14, <1>15 DEF w, page, i, first

\* The run that the loop finds starts where it was asked to, is no longer than
\* what is left, and its pages follow each other (dma.c:106-125).
LEMMA RunIsTheBuffers ==
  ASSUME IsBuffer, NEW o \in 0 .. Dma!Limit - 1, left \in Nat \ {0}
  PROVE  MayAnswer(o, Dma!RunAt(o))
<1> DEFINE w == PageSize
           page == o \div w
           i == o % w
           first == w - i
           size == Len(mdl.pages)
           grown == {first + n * w : n \in 0 .. size}
           Fits(r) == Dma!Stops(r, o) /\ \A q \in grown : q < r => ~Dma!Stops(q, o)
           run == CHOOSE r \in grown : Fits(r)
           total == Dma!Limit - o
<1>1. /\ w \in Nat \ {0} /\ page \in Nat /\ i \in 0 .. w - 1 /\ o = page * w + i /\ page * w \in Nat
      /\ first \in 1 .. w /\ size \in Nat /\ total \in Nat \ {0} /\ o \in Nat
  <2>1. o \in Nat /\ total \in Nat \ {0} /\ size \in Nat
    BY DEF IsBuffer
  <2>2. w \in Nat \ {0} /\ page \in Nat /\ i \in 0 .. w - 1 /\ o = page * w + i /\ page * w \in Nat
    BY <2>1, PagesAre, PageOf
  <2> QED
    BY <2>1, <2>2
<1>2. ASSUME NEW n \in Nat PROVE first + n * w \in Nat /\ Dma!GrowsInto(first + n * w, i) = n + 1 /\ n * w \in Nat
  <2>1. n * w \in Nat /\ (n + 1) * w = n * w + w
    BY <1>1
  <2>2. first + n * w + i = (n + 1) * w + 0 /\ 0 \in 0 .. w - 1 /\ n + 1 \in Nat
    <3> HIDE DEF w, i
    <3> QED
      BY <1>1, <2>1
  <2>3. (first + n * w + i) \div w = n + 1
    BY <2>2, AtPage
  <2>4. first + n * w \in Nat
    BY <1>1, <2>1
  <2> QED
    BY <2>1, <2>3, <2>4 DEF Dma!GrowsInto
<1>3. ASSUME NEW n \in Nat
      PROVE  Dma!Stops(first + n * w, o) <=>
               \/ first + n * w >= left \/ first + n * w >= total
               \/ page + (n + 1) >= size \/ mdl.pages[page + (n + 1) + 1] # mdl.pages[page + 1] + (n + 1)
  <2>1. (Dma!Limit + PageSize - 1) \div PageSize = size
    BY DEF IsBuffer, Dma!Spanned, Dma!Limit
  <2> QED
    BY <1>2, <2>1, Zenon DEF Dma!Stops
<1>4. PICK n \in 0 .. size : Dma!Stops(first + n * w, o) /\ \A m \in 0 .. size : m < n => ~Dma!Stops(first + m * w, o)
  <2> DEFINE S == {m \in 0 .. size : Dma!Stops(first + m * w, o)}
  <2>1. size \in S
    <3>1. page + (size + 1) >= size
      <4> HIDE DEF page, size
      <4> QED
        BY <1>1
    <3>2. size \in Nat
      BY <1>1
    <3> HIDE DEF page, first, w, size
    <3>3. Dma!Stops(first + size * w, o)
      BY <1>3, <3>1, <3>2
    <3> QED
      BY <1>1, <3>2, <3>3
  <2>2. S \in SUBSET Nat /\ S # {}
    BY <1>1, <2>1
  <2> HIDE DEF S
  <2>3. PICK n \in S : \A m \in S : n <= m
    BY <2>2, SmallestExists
  <2> QED
    BY <1>1, <2>3 DEF S
<1>5. ASSUME NEW a \in Nat, NEW b \in Nat PROVE first + a * w < first + b * w <=> a < b
  <2>1. a < b => a * w < b * w
    BY <1>1
  <2>2. ~(a < b) => b * w <= a * w
    BY <1>1
  <2>3. a * w \in Nat /\ b * w \in Nat /\ first \in Nat
    BY <1>1
  <2> HIDE DEF w, first
  <2> QED
    BY <2>1, <2>2, <2>3
<1>6. run \in grown /\ Fits(run)
  <2>1. first + n * w \in grown
    OBVIOUS
  <2>2. ASSUME NEW q \in grown, q < first + n * w PROVE ~Dma!Stops(q, o)
    <3>1. PICK m \in 0 .. size : q = first + m * w
      OBVIOUS
    <3>2. m < n
      BY <1>1, <1>5, <2>2, <3>1
    <3> QED
      BY <1>4, <3>1, <3>2
  <2>3. Fits(first + n * w)
    BY <1>4, <2>2
  <2> HIDE DEF grown, Fits
  <2> QED
    BY <2>1, <2>3
<1>7. Dma!RunAt(o) = LET taken == IF run > left THEN left ELSE run IN IF taken > total THEN total ELSE taken
  BY DEF Dma!RunAt
<1>8. PICK last \in 0 .. size : run = first + last * w
  BY <1>6
<1>9. ASSUME NEW m \in Nat, m < last PROVE mdl.pages[page + (m + 1) + 1] = mdl.pages[page + 1] + (m + 1)
  <2>1. m \in 0 .. size /\ m \in Nat /\ last \in Nat
    BY <1>1, <1>8, <1>9
  <2>2. first + m * w < run
    <3> HIDE DEF run, first, w
    <3> QED
      BY <1>5, <1>8, <1>9, <2>1
  <2>3. ~Dma!Stops(first + m * w, o)
    <3>1. first + m * w \in grown
      BY <2>1
    <3> HIDE DEF grown, run, first, w
    <3> QED
      BY <1>6, <2>2, <3>1
  <2> HIDE DEF run, first, w, page, size, total
  <2> QED
    BY <1>3, <2>1, <2>3
<1>10. run \in Nat /\ run > 0 /\ last * w \in Nat /\ (last + 1) * w = last * w + w /\ last \in Nat
  <2> HIDE DEF run, first, w, size
  <2>1. last \in Nat
    BY <1>1, <1>8
  <2>2. \A a \in Nat : a * w \in Nat /\ (a + 1) * w = a * w + w
    BY <1>1
  <2>3. last * w \in Nat /\ (last + 1) * w = last * w + w
    BY <2>1, <2>2
  <2> QED
    BY <1>1, <1>8, <2>1, <2>3
<1> DEFINE len == Dma!RunAt(o)
<1>11. len \in 1 .. total /\ len <= left /\ len <= run
  <2> HIDE DEF run, total
  <2> QED
    BY <1>1, <1>7, <1>10
<1>12. ASSUME NEW k \in 0 .. len - 1
       PROVE  (mdl.pages[page + 1] * w + i) + k = Dma!PhysicalOf(o + k)
  <2> DEFINE j == (i + k) \div w
  <2>1. k \in Nat /\ k < run /\ k < total
    <3> HIDE DEF run, len, total
    <3> QED
      BY <1>1, <1>10, <1>11
  <2>2. o + k < Dma!Limit
    <3>1. Dma!Limit \in Nat
      BY DEF IsBuffer
    <3> QED
      BY <1>1, <2>1, <3>1
  <2>3. i + k \in Nat /\ i + k < (last + 1) * w
    <3>1. first = w - i
      OBVIOUS
    <3> HIDE DEF w, i, run, len, first
    <3> QED
      BY <1>1, <1>8, <1>10, <2>1, <3>1
  <2>4. j \in Nat /\ j <= last
    <3>1. \A a \in Nat, b \in Nat : b < (a + 1) * w => b \div w <= a
      BY PagesUpTo
    <3>2. \A b \in Nat : b \div w \in Nat
      BY PageOf
    <3> HIDE DEF w, i, run, first, size
    <3> QED
      BY <1>10, <2>3, <3>1, <3>2
  <2>5. mdl.pages[page + j + 1] = mdl.pages[page + 1] + j
    <3>1. page + 1 \in 1 .. Len(mdl.pages) /\ mdl.pages \in Seq(Nat)
      BY BytesHavePages DEF IsBuffer
    <3> HIDE DEF page, j, size, run, first, w
    <3>2. CASE j = 0
      BY <1>1, <3>1, <3>2
    <3>3. CASE j # 0
      <4>1. j - 1 \in Nat /\ j - 1 < last /\ (j - 1) + 1 = j
        BY <1>10, <2>4, <3>3
      <4> QED
        BY <1>9, <4>1
    <3> QED
      BY <3>2, <3>3
  <2> QED
    BY <1>1, <2>1, <2>2, <2>4, <2>5, Follows
<1> QED
  BY <1>11, <1>12 DEF MayAnswer

-----------------------------------------------------------------------------

\* The transfer so far: what the driver has left, how far the answers reach,
\* and that all they send the device to is the buffer's.
TransferInv ==
  /\ maximum \in Maxima /\ mdl \in Buffers /\ mdl.count <= maximum
  /\ maximum > (MaxRegisters - 1) * PageSize => mdl.count <= (MaxRegisters - 1) * PageSize
  /\ outcome \in {"asked", "mapping", "moved", "paged in", "done"}
  /\ left \in 0 .. mdl.count
  /\ outcome \in {"asked", "mapping"} => left > 0
  /\ outcome = "asked" => left = mdl.count
  /\ outcome = "moved" => left = 0
  /\ \E base : /\ base = mdl.start \/ (base = mdl.system /\ mdl.system # 0)
               /\ currentVa = base + (Dma!Limit - left)
  /\ \A r \in runs : \A k \in 0 .. r.length - 1 : r.phys + k = Dma!PhysicalOf(r.at + k)
  /\ \A o \in mdl.offset .. (Dma!Limit - left) - 1 : \E r \in runs : o \in r.at .. r.at + r.length - 1
  /\ outcome = "paged in" => swept = {mdl.pages[k] : k \in 1 .. Dma!Spanned}

\* Before the first call nothing is mapped (dma.c:73-129).
LEMMA TransferStart == Dma!Init => TransferInv
<1> SUFFICES ASSUME Dma!Init PROVE TransferInv
  OBVIOUS
<1>1. /\ maximum \in Maxima /\ mdl \in Buffers /\ mdl.count <= maximum
      /\ maximum > (MaxRegisters - 1) * PageSize => mdl.count <= (MaxRegisters - 1) * PageSize
      /\ left = mdl.count /\ runs = {} /\ outcome = "asked"
  BY DEF Dma!Init
<1>2. mdl.count \in Nat \ {0} /\ mdl.offset \in Nat /\ Dma!Limit = mdl.offset + mdl.count
  BY <1>1, BuffersAre, PagesAre DEF IsBuffer, Dma!Limit
<1>3. Dma!Limit - left = mdl.offset
  BY <1>1, <1>2
<1>4. \E base : /\ base = mdl.start \/ (base = mdl.system /\ mdl.system # 0)
                /\ currentVa = base + (Dma!Limit - left)
  BY <1>3 DEF Dma!Init
<1> QED
  BY <1>1, <1>2, <1>3, <1>4 DEF TransferInv

\* Each call maps the next piece of the buffer, and a flush touches the pages it
\* spans (dma.c:73-129, 161-177).
LEMMA TransferStep == TransferInv /\ (Dma!Next \/ UNCHANGED mapVars) => TransferInv'
<1> SUFFICES ASSUME TransferInv, Dma!Next \/ UNCHANGED mapVars PROVE TransferInv'
  OBVIOUS
<1>1. /\ maximum \in Maxima /\ mdl \in Buffers /\ mdl.count <= maximum
      /\ maximum > (MaxRegisters - 1) * PageSize => mdl.count <= (MaxRegisters - 1) * PageSize
      /\ left \in 0 .. mdl.count
  BY DEF TransferInv
<1>2. IsBuffer
  BY <1>1, BuffersAre
<1>3. CASE UNCHANGED mapVars
  BY <1>3 DEF TransferInv, mapVars, Dma!Limit, Dma!PhysicalOf, Dma!Spanned
<1>4. CASE Dma!HalAllocateAdapterChannel
  <2>1. maximum \in Nat
    BY <1>1, PagesAre
  <2>2. outcome = "asked" /\ outcome' = "mapping" /\ UNCHANGED <<maximum, mdl, currentVa, left, runs, swept>>
    BY <1>1, <1>2, <1>4, <2>1, Grants, Zenon DEF Dma!HalAllocateAdapterChannel
  <2> QED
    BY <2>2 DEF TransferInv, Dma!Limit, Dma!PhysicalOf, Dma!Spanned
<1>5. CASE Dma!HalFlushIoBuffers
  <2>1. outcome = "moved" /\ UNCHANGED <<maximum, mdl, currentVa, left, runs>>
    BY <1>5 DEF Dma!HalFlushIoBuffers
  <2>2. outcome' \in {"paged in", "done"} /\ (outcome' = "paged in" => swept' = {mdl.pages[k] : k \in 1 .. Dma!Spanned})
    BY <1>5 DEF Dma!HalFlushIoBuffers, Dma!Flushed
  <2> QED
    BY <2>1, <2>2 DEF TransferInv, Dma!Limit, Dma!PhysicalOf, Dma!Spanned
<1>6. CASE Dma!IoMapTransfer
  <2>1. outcome = "mapping" /\ left > 0 /\ UNCHANGED <<maximum, mdl, swept>>
    BY <1>6 DEF Dma!IoMapTransfer
  <2>2. PICK base : /\ base = mdl.start \/ (base = mdl.system /\ mdl.system # 0)
                    /\ currentVa = base + (Dma!Limit - left)
    BY DEF TransferInv
  <2> DEFINE end == Dma!Limit
             o == end - left
             n == Dma!RunAt(o)
             phys == mdl.pages[o \div PageSize + 1] * PageSize + (o % PageSize)
             run == [at |-> o, length |-> n, phys |-> phys]
  <2>3. end \in Nat \ {0} /\ o \in 0 .. end - 1 /\ left \in Nat \ {0} /\ base \in Nat /\ base + end < AddressSpace
        /\ AddressSpace \in Nat /\ mdl.offset \in Nat /\ mdl.count \in Nat
    <3>1. mdl.offset \in Nat /\ mdl.count \in Nat /\ end = mdl.offset + mdl.count /\ left \in Nat \ {0} /\ left <= mdl.count
      BY <1>1, <1>2, <2>1, PagesAre DEF IsBuffer, Dma!Limit
    <3>2. base \in Nat /\ base + end < AddressSpace /\ AddressSpace \in Nat
      BY <1>2, <2>2, PagesAre DEF IsBuffer
    <3> HIDE DEF end
    <3> QED
      BY <3>1, <3>2
  <2>4. Dma!Offset = o
    <3>1. o \in 0 .. end
      BY <2>3
    <3> QED
      BY <1>2, <2>2, <3>1, PlaceIsFound
  <2>5. MayAnswer(o, n)
    BY <1>2, <2>3, RunIsTheBuffers
  <2>6. n \in 1 .. left /\ \A k \in 0 .. n - 1 : phys + k = Dma!PhysicalOf(o + k)
    BY <2>3, <2>5 DEF MayAnswer
  <2>7. /\ runs' = runs \cup {run}
        /\ currentVa' = (currentVa + n) % AddressSpace
        /\ left' = left - n
        /\ outcome' = IF n = 0 THEN "stuck" ELSE IF left' = 0 THEN "moved" ELSE "mapping"
    <3>1. ~(Dma!Offset > Dma!Limit)
      BY <2>3, <2>4
    <3> QED
      BY Zenon, <1>6, <2>4, <3>1 DEF Dma!IoMapTransfer
  <2> HIDE DEF o, n, phys, end
  <2>8. left' \in 0 .. mdl.count /\ outcome' \in {"moved", "mapping"} /\ (outcome' = "moved" => left' = 0)
        /\ (outcome' = "mapping" => left' > 0)
    BY <1>1, <2>3, <2>6, <2>7
  <2>9. end' = end /\ end - left' = o + n
    <3>1. end' = end
      BY <2>1 DEF end, Dma!Limit
    <3>2. o = end - left
      BY DEF o
    <3> QED
      BY <2>3, <2>6, <2>7, <3>1, <3>2
  <2>10. currentVa' = base + (end' - left')
    <3>1. currentVa = base + o
      BY <2>2 DEF o, end
    <3>2. o + n \in 0 .. end
      BY <2>3, <2>6 DEF o
    <3>3. currentVa + n = base + (o + n) /\ base + (o + n) \in 0 .. AddressSpace - 1
      BY <2>3, <2>6, <3>1, <3>2
    <3>4. (currentVa + n) % AddressSpace = base + (o + n)
      BY <2>3, <3>3
    <3> QED
      BY <2>7, <2>9, <3>4
  <2>11. \A r \in runs' : \A k \in 0 .. r.length - 1 : r.phys + k = Dma!PhysicalOf(r.at + k)
    <3>1. \A r \in runs : \A k \in 0 .. r.length - 1 : r.phys + k = Dma!PhysicalOf(r.at + k)
      BY DEF TransferInv
    <3>2. \A k \in 0 .. run.length - 1 : run.phys + k = Dma!PhysicalOf(run.at + k)
      BY <2>6
    <3> HIDE DEF run
    <3> QED
      BY <2>7, <3>1, <3>2
  <2>12. \A a \in mdl.offset .. (end' - left') - 1 : \E r \in runs' : a \in r.at .. r.at + r.length - 1
    <3> SUFFICES ASSUME NEW a \in mdl.offset .. (end' - left') - 1
                 PROVE  \E r \in runs' : a \in r.at .. r.at + r.length - 1
      OBVIOUS
    <3>1. a \in mdl.offset .. (o + n) - 1
      BY <2>9
    <3>2. CASE a < o
      <4>1. a \in mdl.offset .. (Dma!Limit - left) - 1
        BY <2>3, <3>1, <3>2 DEF o, end
      <4> QED
        BY <2>7, <4>1 DEF TransferInv
    <3>3. CASE a >= o
      <4>1. a \in o .. o + n - 1
        BY <2>3, <2>6, <3>1, <3>3
      <4>2. run \in runs' /\ run.at = o /\ run.length = n
        BY <2>7
      <4> HIDE DEF run
      <4> QED
        BY <4>1, <4>2
    <3> QED
      BY <2>3, <3>1, <3>2, <3>3
  <2>13. Dma!PhysicalOf(0)' = Dma!PhysicalOf(0)
    BY <2>1 DEF Dma!PhysicalOf
  <2>14. (\A r \in runs : \A k \in 0 .. r.length - 1 : r.phys + k = Dma!PhysicalOf(r.at + k))'
    BY <2>1, <2>11 DEF Dma!PhysicalOf
  <2> QED
    BY <1>1, <2>1, <2>2, <2>8, <2>10, <2>12, <2>14 DEF TransferInv, end
<1> QED
  BY <1>3, <1>4, <1>5, <1>6 DEF Dma!Next

\* The transfer's invariant holds whatever the other services do meanwhile.
LEMMA TransferInvariant == ServicesSpec => []TransferInv
<1>1. ServicesInit => TransferInv
  BY TransferStart, Zenon DEF ServicesInit
<1>2. TransferInv /\ [ServicesNext]_servicesVars => TransferInv'
  BY TransferSteps, TransferStep
<1> QED
  BY <1>1, <1>2, PTL DEF ServicesSpec

\* The invariant of the transfer is enough for the property.
LEMMA TransferIsSound == TransferInv => BufferIsMapped
<1> SUFFICES ASSUME TransferInv PROVE BufferIsMapped
  OBVIOUS
<1>1. IsBuffer
  BY BuffersAre DEF TransferInv
<1>2. Dma!MapsTheBuffer
  BY DEF TransferInv, Dma!MapsTheBuffer
<1>3. Dma!TransferIsMapped
  <2>1. outcome \notin {"no registers", "refused", "stuck"}
    BY DEF TransferInv
  <2>2. ASSUME outcome = "moved", NEW o \in mdl.offset .. Dma!Limit - 1
        PROVE  \E r \in runs : o \in r.at .. r.at + r.length - 1
    <3>1. left = 0 /\ Dma!Limit \in Nat
      BY <1>1, <2>2 DEF TransferInv, IsBuffer
    <3>2. Dma!Limit - left = Dma!Limit
      BY <3>1
    <3>3. o \in mdl.offset .. (Dma!Limit - left) - 1
      BY <3>2
    <3>4. PICK r \in runs : o \in r.at .. r.at + r.length - 1
      BY <3>3 DEF TransferInv
    <3> QED
      BY <3>4
  <2> QED
    BY <2>1, <2>2 DEF Dma!TransferIsMapped
<1>4. Dma!PagesAreSwept
  <2>1. ASSUME NEW o \in mdl.offset .. Dma!Limit - 1 PROVE o \in 0 .. Dma!Limit - 1 /\ o \in Nat
    <3>1. mdl.offset \in Nat /\ Dma!Limit \in Nat
      BY <1>1, PagesAre DEF IsBuffer
    <3>2. \A a \in Nat, b \in Nat : a .. b - 1 \subseteq 0 .. b - 1 /\ a .. b - 1 \subseteq Nat
      OBVIOUS
    <3> QED
      BY <3>1, <3>2, Zenon
  <2> SUFFICES ASSUME outcome = "paged in", NEW o \in mdl.offset .. Dma!Limit - 1
               PROVE  Dma!PhysicalOf(o) \div PageSize \in swept
    BY DEF Dma!PagesAreSwept
  <2> DEFINE page == o \div PageSize + 1
             x == o % PageSize
  <2>2. page \in 1 .. Len(mdl.pages) /\ x \in 0 .. PageSize - 1
    BY <1>1, <2>1, BytesHavePages, PageOf
  <2>3. mdl.pages[page] \in Nat /\ Len(mdl.pages) = Dma!Spanned
    BY <1>1, <2>2, ElementOfSeq, Zenon DEF IsBuffer
  <2>4. Dma!PhysicalOf(o) = mdl.pages[page] * PageSize + x
    BY DEF Dma!PhysicalOf
  <2> HIDE DEF page, x
  <2>5. Dma!PhysicalOf(o) \div PageSize = mdl.pages[page]
    BY <2>2, <2>3, <2>4, AtPage
  <2> QED
    BY <2>2, <2>3, <2>5 DEF TransferInv
<1> QED
  BY <1>2, <1>3, <1>4 DEF BufferIsMapped, Dma!BufferIsMapped

\* A device is sent through the whole of a buffer and nowhere else, by as many
\* registers as its driver was granted, and pages that were read in can be run
\* (dma.c:73-129, 165-180).
THEOREM TransfersStayInTheBuffer == ServicesSpec => []BufferIsMapped
BY TransferInvariant, TransferIsSound, PTL

-----------------------------------------------------------------------------
(* What the firmware tells programs. *)

\* A step of the firmware's environment, heap or relative clock, or none.
LEMMA CallSteps ==
  [ServicesNext]_servicesVars =>
    /\ Calls!EnvNext \/ UNCHANGED optionVars
    /\ Calls!HeapNext \/ UNCHANGED heapVars
    /\ Calls!ClockNext \/ UNCHANGED relVars
<1>1. [ServicesNext]_servicesVars => LastNext \/ UNCHANGED callVars
  BY Zenon DEF ServicesNext, servicesVars, lastVars
<1>2. LastNext => /\ Calls!EnvNext \/ UNCHANGED optionVars
                  /\ Calls!HeapNext \/ UNCHANGED heapVars
                  /\ Calls!ClockNext \/ UNCHANGED relVars
  BY Zenon DEF LastNext, callVars
<1>3. UNCHANGED callVars => UNCHANGED optionVars /\ UNCHANGED heapVars /\ UNCHANGED relVars
  BY Zenon DEF callVars
<1> QED
  BY <1>1, <1>2, <1>3, Zenon

\* The constants of the firmware's services.
LEMMA CallSizes ==
  /\ BufBytes \in Nat /\ HeapBytes \in Nat /\ MsWord \in Nat \ {0} /\ PerSecond \in Nat \ {0}
  /\ Calls!NUL \notin Calls!Characters /\ Calls!Absent \notin Texts
  /\ \A t \in Texts : t \in Seq(Calls!Characters) /\ Len(t) < BufBytes
  /\ \A want \in Wants : want[1] \in Nat /\ want[2] \in Nat \ {0}
  /\ Starts \subseteq Nat /\ MaxMs \in Nat /\ MaxMs < MsWord
BY Zenon, ServicesAssumption DEF Calls!CallsAssumption

\* A value is on /options with or without a terminator of its own.
Spellings(t) == {t, Append(t, Calls!NUL)}

\* A property, read and terminated, is the text that was set, one way or the other.
LEMMA StringIsText ==
  ASSUME NEW t \in Texts, NEW p \in Spellings(t), NEW buf, buf = Calls!Filled(p)
  PROVE  Calls!String(buf) = t
<1> DEFINE C == Calls!Characters
           nul == Calls!NUL
           Ends(n) == (n = BufBytes \/ buf[n + 1] = nul) /\ \A i \in 1 .. n : buf[i] # nul
           len == CHOOSE n \in 0 .. BufBytes : Ends(n)
<1>1. t \in Seq(C) /\ Len(t) \in Nat /\ Len(t) < BufBytes /\ BufBytes \in Nat /\ nul \notin C
  BY CallSizes
<1>2. \A i \in 1 .. Len(t) : p[i] = t[i] /\ t[i] # nul
  <2>1. \A i \in 1 .. Len(t) : t[i] \in C
    BY <1>1, ElementOfSeq
  <2>2. p = t \/ p = Append(t, nul)
    BY DEF Spellings
  <2> HIDE DEF C, nul
  <2>3. \A i \in 1 .. Len(t) : Append(t, nul)[i] = t[i]
    BY <1>1
  <2> QED
    BY <1>1, <2>1, <2>2, <2>3
<1>3. buf = [i \in 1 .. BufBytes |-> IF i <= Len(p) THEN p[i] ELSE IF i = Len(p) + 1 THEN nul ELSE value_buf[i]]
  BY DEF Calls!Filled
<1>4. (\A i \in 1 .. Len(t) : buf[i] = t[i]) /\ buf[Len(t) + 1] = nul
  <2>1. CASE p = t
    <3> HIDE DEF nul, C
    <3> QED
      BY <1>1, <1>3, <2>1
  <2>2. CASE p = Append(t, nul)
    <3> HIDE DEF nul, C
    <3>1. Len(p) = Len(t) + 1 /\ p[Len(t) + 1] = nul
      BY <1>1, <2>2
    <3> QED
      BY <1>1, <1>2, <1>3, <3>1
  <2> QED
    BY <2>1, <2>2 DEF Spellings
<1> HIDE DEF nul, C
<1>5. Len(t) \in 0 .. BufBytes /\ Ends(Len(t))
  BY <1>1, <1>2, <1>4
<1>6. ASSUME NEW n \in 0 .. BufBytes, Ends(n) PROVE n = Len(t)
  <2>1. CASE n < Len(t)
    <3>1. n + 1 \in 1 .. Len(t) /\ n # BufBytes
      BY <1>1, <2>1
    <3>2. buf[n + 1] = nul
      BY <1>6, <3>1
    <3>3. buf[n + 1] # nul
      BY <1>2, <1>4, <3>1
    <3> QED
      BY <3>2, <3>3
  <2>2. CASE n > Len(t)
    <3>1. Len(t) + 1 \in 1 .. n
      BY <1>1, <2>2
    <3>2. buf[Len(t) + 1] # nul
      BY <1>6, <3>1
    <3> QED
      BY <1>4, <3>2
  <2> QED
    BY <1>1, <2>1, <2>2
<1>7. len = Len(t)
  <2> HIDE DEF Ends
  <2> QED
    BY <1>5, <1>6
<1>8. Calls!String(buf) = [i \in 1 .. len |-> buf[i]]
  BY DEF Calls!String, nul
<1> HIDE DEF len
<1>9. [i \in 1 .. Len(t) |-> buf[i]] = [i \in 1 .. Len(t) |-> t[i]]
  BY <1>4
<1>10. t = [i \in 1 .. Len(t) |-> t[i]]
  BY <1>1
<1> QED
  BY <1>7, <1>8, <1>9, <1>10

\* What is on /options is what was set last, and what was told of it is so.
OptionInv ==
  /\ kept \in [Calls!Ids -> Texts \cup {Calls!Absent}] /\ DOMAIN options = Calls!Ids
  /\ \A i \in Calls!Ids : IF kept[i] = Calls!Absent THEN options[i] = Calls!Absent ELSE options[i] \in Spellings(kept[i])
  /\ Calls!EnvironmentAnswers

\* No text spells as an absent one.
LEMMA SpellsSomething ==
  ASSUME NEW t \in Texts, NEW p \in Spellings(t) PROVE p # Calls!Absent
<1> DEFINE C == Calls!Characters
<1>1. t \in Seq(C) /\ t # Calls!Absent
  BY CallSizes, Zenon
<1> HIDE DEF C
<1>2. Append(t, Calls!NUL) # <<"absent">>
  <2>1. Len(Append(t, Calls!NUL)) = Len(t) + 1 /\ Append(t, Calls!NUL)[Len(t) + 1] = Calls!NUL /\ Len(t) \in Nat
    BY <1>1
  <2>2. Len(<<"absent">>) = 1 /\ <<"absent">>[1] = "absent"
    OBVIOUS
  <2>3. Calls!NUL # "absent"
    BY DEF Calls!NUL
  <2> QED
    BY <2>1, <2>2, <2>3
<1> QED
  BY <1>1, <1>2 DEF Spellings, Calls!Absent

\* The options that are set before the firmware runs hold their texts
\* (env.c:15-28).
LEMMA OptionsStart == Calls!CallsInit => OptionInv
<1> SUFFICES ASSUME Calls!CallsInit PROVE OptionInv
  OBVIOUS
<1>1. /\ kept \in [Calls!Ids -> Texts \cup {Calls!Absent}] /\ DOMAIN options = Calls!Ids
      /\ \A i \in Calls!Ids : /\ options[i] \in {kept[i], Append(kept[i], Calls!NUL)}
                              /\ kept[i] = Calls!Absent => options[i] = Calls!Absent
      /\ got = Calls!None
  BY Zenon DEF Calls!CallsInit, Calls!Settings
<1> QED
  BY <1>1, Zenon DEF OptionInv, Spellings, Calls!EnvironmentAnswers

\* An answer that is true of what was set, or that it is not there.
LEMMA AnswerHolds ==
  ASSUME OptionInv, NEW n \in Names, NEW answered, Calls!Looked(n, answered),
         kept[n.id] # Calls!Absent /\ value_buf' = Calls!Filled(options[n.id]) =>
           \/ answered.status = "ESUCCESS" /\ answered.text = kept[n.id]
           \/ /\ answered.status = "ENOMEM" /\ answered.text = Calls!Absent
              /\ \E room \in Rooms : room <= Len(kept[n.id])
  PROVE  OptionInv'
<1> DEFINE i == n.id
<1>1. i \in Calls!Ids /\ UNCHANGED <<options, kept>>
  BY DEF Calls!Looked, Calls!Ids
<1>2. /\ value_buf' = IF options[i] = Calls!Absent THEN value_buf ELSE Calls!Filled(options[i])
      /\ got' = [of |-> i, text |-> IF options[i] = Calls!Absent THEN Calls!Absent ELSE answered.text,
                 status |-> IF options[i] = Calls!Absent THEN "ENOENT" ELSE answered.status]
  BY Zenon DEF Calls!Looked, Calls!Found
<1>3. options[i] = Calls!Absent <=> kept[i] = Calls!Absent
  <2>1. kept[i] \in Texts \cup {Calls!Absent}
    BY <1>1 DEF OptionInv
  <2>2. CASE kept[i] = Calls!Absent
    BY <1>1, <2>2 DEF OptionInv
  <2>3. CASE kept[i] # Calls!Absent
    <3>1. kept[i] \in Texts /\ options[i] \in Spellings(kept[i])
      BY <1>1, <2>1, <2>3 DEF OptionInv
    <3> QED
      BY <2>3, <3>1, SpellsSomething
  <2> QED
    BY <2>2, <2>3
<1> HIDE DEF i
<1>4. /\ got'.of = i /\ got'.text = (IF options[i] = Calls!Absent THEN Calls!Absent ELSE answered.text)
      /\ got'.status = (IF options[i] = Calls!Absent THEN "ENOENT" ELSE answered.status)
  BY <1>2
<1>5. CASE kept[i] = Calls!Absent
  <2>1. Calls!EnvironmentAnswers'
    BY <1>1, <1>3, <1>4, <1>5 DEF Calls!EnvironmentAnswers
  <2> QED
    BY <1>1, <2>1 DEF OptionInv
<1>6. CASE kept[i] # Calls!Absent
  <2>1. \/ answered.status = "ESUCCESS" /\ answered.text = kept[i]
        \/ /\ answered.status = "ENOMEM" /\ answered.text = Calls!Absent
           /\ \E room \in Rooms : room <= Len(kept[i])
    BY <1>2, <1>3, <1>6 DEF i
  <2>2. got'.of = i /\ got'.text = answered.text /\ got'.status = answered.status /\ kept' = kept
    BY <1>1, <1>3, <1>4, <1>6
  <2>3. Calls!EnvironmentAnswers'
    BY <1>6, <2>1, <2>2, Zenon DEF Calls!EnvironmentAnswers
  <2> QED
    BY <1>1, <2>3 DEF OptionInv
<1> QED
  BY <1>5, <1>6

\* Looking an option up leaves it as it is; setting one writes its text to the
\* spelling that was found, or to a new one (env.c:22-54).
LEMMA OptionStep == OptionInv /\ (Calls!EnvNext \/ UNCHANGED optionVars) => OptionInv'
<1> SUFFICES ASSUME OptionInv, Calls!EnvNext \/ UNCHANGED optionVars PROVE OptionInv'
  OBVIOUS
<1>1. CASE UNCHANGED optionVars
  BY <1>1, Zenon DEF OptionInv, optionVars, Calls!EnvironmentAnswers
<1>2. ASSUME NEW n \in Names, kept[n.id] # Calls!Absent, value_buf' = Calls!Filled(options[n.id])
      PROVE  Calls!String(value_buf') = kept[n.id] /\ Len(kept[n.id]) \in Nat
  <2>1. n.id \in Calls!Ids
    BY DEF Calls!Ids
  <2>2. kept[n.id] \in Texts /\ options[n.id] \in Spellings(kept[n.id])
    BY <1>2, <2>1, Zenon DEF OptionInv
  <2>3. kept[n.id] \in Seq(Calls!Characters)
    BY <2>2, CallSizes
  <2> DEFINE C == Calls!Characters
  <2> HIDE DEF C
  <2>4. \A t \in Seq(C) : Len(t) \in Nat
    OBVIOUS
  <2> QED
    BY <1>2, <2>2, <2>3, <2>4, StringIsText, Zenon DEF C
<1>3. ASSUME NEW n \in Names, Calls!env_lookup(n) PROVE OptionInv'
  <2> DEFINE answered == [text |-> Calls!String(value_buf'), status |-> "ESUCCESS"]
  <2>1. Calls!Looked(n, answered)
    BY <1>3, Zenon DEF Calls!env_lookup
  <2>2. answered.text = Calls!String(value_buf') /\ answered.status = "ESUCCESS"
    OBVIOUS
  <2> HIDE DEF answered
  <2> QED
    BY <1>2, <2>1, <2>2, AnswerHolds, Zenon
<1>4. ASSUME NEW n \in Names, NEW room \in Rooms, Calls!env_get(n, room) PROVE OptionInv'
  <2> DEFINE text == Calls!String(value_buf')
             fits == Len(text) + 1 <= room
             answered == [text |-> IF fits THEN text ELSE Calls!Absent, status |-> IF fits THEN "ESUCCESS" ELSE "ENOMEM"]
  <2>1. Calls!Looked(n, answered)
    BY <1>4, Zenon DEF Calls!env_get
  <2>2. /\ answered.text = (IF fits THEN text ELSE Calls!Absent)
        /\ answered.status = (IF fits THEN "ESUCCESS" ELSE "ENOMEM")
    OBVIOUS
  <2>3. ASSUME kept[n.id] # Calls!Absent, value_buf' = Calls!Filled(options[n.id])
        PROVE  \/ answered.status = "ESUCCESS" /\ answered.text = kept[n.id]
               \/ /\ answered.status = "ENOMEM" /\ answered.text = Calls!Absent
                  /\ \E space \in Rooms : space <= Len(kept[n.id])
    <3>1. text = kept[n.id] /\ Len(text) \in Nat /\ room \in Nat
      BY <1>2, <2>3, ServicesAssumption, Zenon DEF Calls!CallsAssumption
    <3>2. CASE fits
      BY <2>2, <3>1, <3>2, Zenon
    <3>3. CASE ~fits
      <4>1. room <= Len(text)
        <5> HIDE DEF text
        <5> QED
          BY <3>1, <3>3
      <4> QED
        BY <2>2, <3>1, <3>3, <4>1, Zenon
    <3> QED
      BY <3>2, <3>3
  <2> HIDE DEF answered, text, fits
  <2> QED
    BY <2>1, <2>3, AnswerHolds, Zenon
<1>5. ASSUME NEW n \in Names, NEW text \in Texts, Calls!env_set(n, text) PROVE OptionInv'
  <2>1. got' = Calls!None
    BY <1>5, Zenon DEF Calls!env_set
  <2>2. CASE UNCHANGED <<options, kept>>
    BY <2>1, <2>2, Zenon DEF OptionInv, Calls!EnvironmentAnswers
  <2>3. CASE /\ options' = [options EXCEPT ![n.id] = Append(text, Calls!NUL)]
             /\ kept' = [kept EXCEPT ![n.id] = text]
    <3>1. kept' \in [Calls!Ids -> Texts \cup {Calls!Absent}] /\ DOMAIN options' = Calls!Ids
      BY <2>3 DEF OptionInv
    <3>2. ASSUME NEW i \in Calls!Ids
          PROVE  IF kept'[i] = Calls!Absent THEN options'[i] = Calls!Absent ELSE options'[i] \in Spellings(kept'[i])
      <4>1. CASE i = n.id
        <5>1. kept'[i] = text /\ options'[i] = Append(text, Calls!NUL)
          BY <2>3, <4>1 DEF OptionInv
        <5>2. text # Calls!Absent
          BY CallSizes
        <5> QED
          BY <5>1, <5>2 DEF Spellings
      <4>2. CASE i # n.id
        <5>1. kept'[i] = kept[i] /\ options'[i] = options[i]
          BY <2>3, <4>2 DEF OptionInv
        <5> QED
          BY <5>1 DEF OptionInv
      <4> QED
        BY <4>1, <4>2
    <3> QED
      BY <2>1, <3>1, <3>2 DEF OptionInv, Calls!EnvironmentAnswers
  <2> QED
    BY <1>5, <2>2, <2>3, Zenon DEF Calls!env_set
<1> QED
  BY <1>1, <1>3, <1>4, <1>5 DEF Calls!EnvNext

-----------------------------------------------------------------------------
(* The heap. *)

\* A place is rounded up to a multiple.
LEMMA RoundsUp ==
  ASSUME NEW u \in Nat, NEW a \in Nat \ {0}
  PROVE  Calls!Aligned(u, a) \in Nat /\ u <= Calls!Aligned(u, a) /\ Calls!Aligned(u, a) % a = 0
<1> DEFINE n == (u + a - 1) \div a
           r == (u + a - 1) % a
<1>1. u + a - 1 \in Nat
  OBVIOUS
<1>2. n \in Nat /\ r \in 0 .. a - 1 /\ u + a - 1 = n * a + r
  <2>1. \A m \in Nat : m \div a \in Nat /\ m % a \in 0 .. a - 1 /\ m = (m \div a) * a + (m % a)
    OBVIOUS
  <2> QED
    BY <1>1, <2>1
<1>3. Calls!Aligned(u, a) = n * a
  BY DEF Calls!Aligned
<1> HIDE DEF n, r
<1>4. n * a \in Nat /\ (n * a) % a = 0
  BY <1>2
<1>5. u <= n * a
  <2> DEFINE p == n * a
  <2>1. p \in Nat /\ u + a - 1 = p + r
    BY <1>2, <1>4
  <2> HIDE DEF p
  <2>2. u <= p
    BY <1>2, <2>1
  <2> QED
    BY <2>2 DEF p
<1> QED
  BY <1>3, <1>4, <1>5

HeapBlocks == [at : Nat, bytes : Nat, align : Nat \ {0}]

HeapInv ==
  /\ heap_used \in 0 .. HeapBytes /\ blocks \in Seq(HeapBlocks)
  /\ \A k \in 1 .. Len(blocks) : blocks[k].at % blocks[k].align = 0 /\ blocks[k].at + blocks[k].bytes <= heap_used
  /\ \A j, k \in 1 .. Len(blocks) : j < k => blocks[j].at + blocks[j].bytes <= blocks[k].at

\* The heap begins empty (heap.c:11-13).
LEMMA HeapStart == Calls!CallsInit => HeapInv
<1> SUFFICES ASSUME Calls!CallsInit PROVE HeapInv
  OBVIOUS
<1>1. heap_used = 0 /\ blocks = <<>>
  BY Zenon DEF Calls!CallsInit
<1>2. Len(<<>>) = 0 /\ <<>> \in Seq(HeapBlocks) /\ HeapBytes \in Nat
  BY CallSizes
<1> QED
  BY <1>1, <1>2 DEF HeapInv

\* A block goes behind the blocks before it, aligned, or is refused when it
\* would not fit (heap.c:15-34).
LEMMA HeapStep == HeapInv /\ (Calls!HeapNext \/ UNCHANGED heapVars) => HeapInv'
<1> SUFFICES ASSUME HeapInv, Calls!HeapNext \/ UNCHANGED heapVars PROVE HeapInv'
  OBVIOUS
<1>1. CASE UNCHANGED heapVars
  BY <1>1 DEF HeapInv, heapVars
<1>2. ASSUME NEW want \in Wants, Calls!zalloc_aligned(want) PROVE HeapInv'
  <2> DEFINE at == Calls!Aligned(heap_used, want[2])
             new_ == [at |-> at, bytes |-> want[1], align |-> want[2]]
  <2>1. want[1] \in Nat /\ want[2] \in Nat \ {0} /\ heap_used \in Nat /\ HeapBytes \in Nat /\ blocks \in Seq(HeapBlocks)
    BY CallSizes DEF HeapInv
  <2>2. at \in Nat /\ heap_used <= at /\ at % want[2] = 0
    BY <2>1, RoundsUp
  <2>3. at + want[1] <= HeapBytes /\ heap_used' = at + want[1] /\ blocks' = Append(blocks, new_)
    BY <1>2, Zenon DEF Calls!zalloc_aligned
  <2> HIDE DEF at
  <2>4. new_ \in HeapBlocks /\ new_.at = at /\ new_.bytes = want[1] /\ new_.align = want[2]
    BY <2>1, <2>2 DEF HeapBlocks
  <2> HIDE DEF new_
  <2>5. /\ blocks' \in Seq(HeapBlocks) /\ Len(blocks') = Len(blocks) + 1 /\ Len(blocks) \in Nat
        /\ \A k \in 1 .. Len(blocks) : blocks'[k] = blocks[k]
        /\ blocks'[Len(blocks) + 1] = new_
    BY <2>1, <2>3, <2>4
  <2>6. \A k \in 1 .. Len(blocks') : k \in 1 .. Len(blocks) \/ k = Len(blocks) + 1
    BY <2>5
  <2>7. ASSUME NEW k \in 1 .. Len(blocks')
        PROVE  blocks'[k].at % blocks'[k].align = 0 /\ blocks'[k].at + blocks'[k].bytes <= heap_used'
    <3>1. CASE k \in 1 .. Len(blocks)
      <4>1. blocks'[k] = blocks[k] /\ blocks[k] \in HeapBlocks
        BY <2>1, <2>5, <3>1
      <4>2. blocks[k].at \in Nat /\ blocks[k].bytes \in Nat
        BY <4>1 DEF HeapBlocks
      <4>3. blocks[k].at % blocks[k].align = 0 /\ blocks[k].at + blocks[k].bytes <= heap_used
        BY <3>1 DEF HeapInv
      <4>4. heap_used <= heap_used' /\ heap_used' \in Nat
        BY <2>1, <2>2, <2>3
      <4>5. blocks[k].at + blocks[k].bytes <= heap_used'
        BY <2>1, <4>2, <4>3, <4>4
      <4> QED
        BY <4>1, <4>3, <4>5
    <3>2. CASE k = Len(blocks) + 1
      <4>1. blocks'[k] = new_ /\ at + want[1] <= heap_used'
        BY <2>1, <2>2, <2>3, <2>5, <3>2
      <4> QED
        BY <2>2, <2>4, <4>1
    <3> QED
      BY <2>6, <3>1, <3>2
  <2>8. ASSUME NEW j \in 1 .. Len(blocks'), NEW k \in 1 .. Len(blocks'), j < k
        PROVE  blocks'[j].at + blocks'[j].bytes <= blocks'[k].at
    <3>1. j \in 1 .. Len(blocks)
      BY <2>5, <2>8
    <3>2. blocks'[j] = blocks[j] /\ blocks[j].at \in Nat /\ blocks[j].bytes \in Nat
      <4>1. blocks'[j] = blocks[j] /\ blocks[j] \in HeapBlocks
        BY <2>1, <2>5, <3>1
      <4> QED
        BY <4>1 DEF HeapBlocks
    <3>3. CASE k \in 1 .. Len(blocks)
      BY <2>5, <2>8, <3>1, <3>2, <3>3 DEF HeapInv
    <3>4. CASE k = Len(blocks) + 1
      <4>1. blocks'[k].at = at
        BY <2>4, <2>5, <3>4
      <4>2. blocks[j].at + blocks[j].bytes <= heap_used
        BY <3>1 DEF HeapInv
      <4>3. blocks[j].at + blocks[j].bytes <= at
        BY <2>1, <2>2, <3>2, <4>2
      <4> QED
        BY <3>2, <4>1, <4>3
    <3> QED
      BY <2>6, <3>3, <3>4
  <2>9. heap_used' \in 0 .. HeapBytes
    BY <2>1, <2>2, <2>3
  <2> QED
    BY <2>5, <2>7, <2>8, <2>9 DEF HeapInv
<1> QED
  BY <1>1, <1>2 DEF Calls!HeapNext

\* Blocks in order, below what is used, are apart and inside the heap.
LEMMA HeapIsSound == HeapInv => Calls!BlocksAreApart
<1> SUFFICES ASSUME HeapInv PROVE Calls!BlocksAreApart
  OBVIOUS
<1>1. \A j, k \in 1 .. Len(blocks) : j < k => blocks[j].at + blocks[j].bytes <= blocks[k].at
  BY DEF HeapInv
<1>2. ASSUME NEW k \in 1 .. Len(blocks)
      PROVE  blocks[k].at % blocks[k].align = 0 /\ blocks[k].at + blocks[k].bytes <= HeapBytes
  <2>1. blocks[k].at % blocks[k].align = 0 /\ blocks[k].at + blocks[k].bytes <= heap_used
    BY DEF HeapInv
  <2>2. blocks[k] \in HeapBlocks
    BY DEF HeapInv
  <2>3. blocks[k].at \in Nat /\ blocks[k].bytes \in Nat /\ heap_used \in Nat /\ heap_used <= HeapBytes /\ HeapBytes \in Nat
    BY <2>2, CallSizes DEF HeapBlocks, HeapInv
  <2>4. blocks[k].at + blocks[k].bytes <= HeapBytes
    BY <2>1, <2>3
  <2> QED
    BY <2>1, <2>4
<1> QED
  BY <1>1, <1>2 DEF Calls!BlocksAreApart

-----------------------------------------------------------------------------
(* The relative clock. *)

\* More of something is no fewer whole units.
LEMMA WholeUnits ==
  ASSUME NEW a \in Nat, NEW b \in Nat, a <= b, NEW u \in Nat \ {0}
  PROVE  a \div u \in Nat /\ b \div u \in Nat /\ a \div u <= b \div u
<1> DEFINE d == a \div u
           e == b \div u
           r == b % u
<1>1. \A n \in Nat : n \div u \in Nat /\ n % u \in 0 .. u - 1 /\ n = (n \div u) * u + (n % u)
  OBVIOUS
<1>2. d \in Nat /\ e \in Nat /\ r \in 0 .. u - 1 /\ b = e * u + r /\ a % u \in Nat /\ a = d * u + (a % u)
  BY <1>1
<1> HIDE DEF d, e, r
<1>3. d <= e
  <2>1. SUFFICES ASSUME d >= e + 1 PROVE FALSE
    BY <1>2
  <2>2. \A m, n \in Nat : m >= n => m * u >= n * u
    OBVIOUS
  <2>3. d * u >= (e + 1) * u /\ (e + 1) * u = e * u + u
    BY <1>2, <2>1, <2>2
  <2> DEFINE du == d * u
             eu == e * u
  <2>4. du \in Nat /\ eu \in Nat /\ du >= eu + u /\ b = eu + r /\ a = du + (a % u)
    BY <1>2, <2>3
  <2> HIDE DEF du, eu
  <2>5. a % u >= 0 /\ a % u \in Nat
    BY <1>2
  <2> DEFINE s == a % u
  <2> HIDE DEF s
  <2>6. a >= du /\ eu + u > b
    BY <1>2, <2>4, <2>5
  <2> QED
    BY <2>4, <2>6
<1> QED
  BY <1>2, <1>3 DEF d, e

\* Two readings of a word tell the time between them, if it is less than the
\* word holds.
LEMMA AcrossTheWord ==
  ASSUME NEW w \in Nat \ {0}, NEW a \in Nat, NEW d \in Nat, d < w
  PROVE  (((a + d) % w) - (a % w)) % w = d
<1> DEFINE r == a % w
           q == a \div w
<1>1. r \in 0 .. w - 1 /\ q \in Nat /\ a = q * w + r
  OBVIOUS
<1>2. \A n \in Nat, x \in 0 .. w - 1 : (n * w + x) % w = x
  OBVIOUS
<1> HIDE DEF r, q
<1>3. (q + 1) * w = q * w + w /\ q * w \in Nat
  BY <1>1
<1> DEFINE qw == q * w
<1>4. a = qw + r /\ qw \in Nat /\ (q + 1) * w = qw + w
  BY <1>1, <1>3
<1> HIDE DEF qw
<1>5. CASE r + d < w
  <2>1. a + d = qw + (r + d) /\ r + d \in 0 .. w - 1
    BY <1>1, <1>4, <1>5
  <2>2. (a + d) % w = r + d
    BY <1>1, <1>2, <2>1 DEF qw
  <2>3. (r + d) - r = d /\ d % w = d
    BY <1>1
  <2> QED
    BY <2>2, <2>3 DEF r
<1>6. CASE r + d >= w
  <2>1. a + d = (qw + w) + (r + d - w) /\ r + d - w \in 0 .. w - 1
    BY <1>1, <1>4, <1>6
  <2>2. a + d = (q + 1) * w + (r + d - w) /\ q + 1 \in Nat
    BY <1>1, <1>4, <2>1
  <2>3. (a + d) % w = r + d - w
    BY <1>2, <2>1, <2>2
  <2>4. (r + d - w) - r = d - w /\ (d - w) % w = d
    BY <1>1
  <2> QED
    BY <2>3, <2>4 DEF r
<1> QED
  BY <1>1, <1>5, <1>6

\* The time first and last asked at, and the reading between them that the
\* answers count from: the first, unless the word stood at 0 then.
RelInv ==
  /\ ms \in Nat /\ t0 \in Nat /\ toldTime \in Nat
  /\ firstLast = <<>> => t0 = 0 /\ toldTime = 0
  /\ firstLast # <<>> =>
       \E first \in Nat, last \in Nat, from \in Nat :
         /\ firstLast = <<first, last>> /\ first <= from /\ from <= last /\ last <= ms /\ ms - first <= MaxMs
         /\ t0 = from % MsWord /\ toldTime = (last - from) \div PerSecond
         /\ t0 = 0 => toldTime = 0
         /\ first % MsWord # 0 => from = first

\* The word of the first reading is 0 before any (arc.c:164-168).
LEMMA RelStart == Calls!CallsInit => RelInv
<1> SUFFICES ASSUME Calls!CallsInit PROVE RelInv
  OBVIOUS
<1>1. ms \in Starts /\ t0 = 0 /\ toldTime = 0 /\ firstLast = <<>>
  BY Zenon DEF Calls!CallsInit
<1>2. ms \in Nat
  BY <1>1, CallSizes
<1> QED
  BY <1>1, <1>2 DEF RelInv

\* Each answer counts the whole seconds from that reading, and none is less
\* than one before it (arc.c:164-168).
LEMMA RelStep ==
  RelInv /\ (Calls!ClockNext \/ UNCHANGED relVars) => RelInv' /\ (UNCHANGED Calls!clockVars \/ toldTime' >= toldTime)
<1> SUFFICES ASSUME RelInv, Calls!ClockNext \/ UNCHANGED relVars
             PROVE  RelInv' /\ (UNCHANGED Calls!clockVars \/ toldTime' >= toldTime)
  OBVIOUS
<1>0. MsWord \in Nat \ {0} /\ PerSecond \in Nat \ {0} /\ MaxMs \in Nat /\ MaxMs < MsWord
  BY CallSizes
<1>1. ms \in Nat /\ t0 \in Nat /\ toldTime \in Nat
  BY DEF RelInv
<1>2. CASE UNCHANGED relVars
  BY <1>1, <1>2, Zenon DEF RelInv, relVars, Calls!clockVars
<1>3. CASE Calls!Pass
  <2>1. firstLast # <<>> /\ ms - firstLast[1] < MaxMs /\ ms' = ms + 1 /\ UNCHANGED <<t0, toldTime, firstLast>>
    BY <1>3, Zenon DEF Calls!Pass
  <2>2. PICK first \in Nat, last \in Nat, from \in Nat :
          /\ firstLast = <<first, last>> /\ first <= from /\ from <= last /\ last <= ms /\ ms - first <= MaxMs
          /\ t0 = from % MsWord /\ toldTime = (last - from) \div PerSecond
          /\ t0 = 0 => toldTime = 0
          /\ first % MsWord # 0 => from = first
    BY <2>1, Zenon DEF RelInv
  <2>3. firstLast[1] = first
    BY <2>2
  <2>4. ms' \in Nat /\ last <= ms' /\ ms' - first <= MaxMs
    BY <1>0, <1>1, <2>1, <2>2, <2>3
  <2>5. RelInv'
    BY <1>1, <2>1, <2>2, <2>4, Zenon DEF RelInv
  <2>6. toldTime' >= toldTime
    BY <1>1, <2>1
  <2> QED
    BY <2>5, <2>6
<1>4. CASE Calls!GetRelativeTime
  <2> DEFINE read == IF t0 = 0 THEN ms % MsWord ELSE t0
             then == Calls!Since(read)
  <2>1. /\ t0' = read /\ toldTime' = then \div PerSecond /\ ms' = ms
        /\ firstLast' = IF firstLast = <<>> THEN <<ms, ms>> ELSE <<firstLast[1], ms>>
    BY <1>4, Zenon DEF Calls!GetRelativeTime
  <2>2. then = ((ms % MsWord) - read) % MsWord
    BY DEF Calls!Since
  \* A reading from which no more than a word's time has passed.
  <2>3. ASSUME NEW from \in Nat, from <= ms, ms - from <= MaxMs, read = from % MsWord
        PROVE  then = ms - from /\ t0' = from % MsWord /\ toldTime' = (ms - from) \div PerSecond
    <3> DEFINE d == ms - from
    <3>1. d \in Nat /\ d < MsWord /\ from + d = ms
      BY <1>0, <1>1, <2>3
    <3> HIDE DEF d
    <3>2. (((from + d) % MsWord) - (from % MsWord)) % MsWord = d
      BY <1>0, <3>1, AcrossTheWord
    <3> HIDE DEF read, then
    <3>3. then = d
      BY <2>2, <2>3, <3>1, <3>2
    <3> QED
      BY <2>1, <2>3, <3>3 DEF d
  <2>4. 0 \div PerSecond = 0 /\ ms - ms = 0
    BY <1>0, <1>1
  <2> HIDE DEF read, then
  <2>5. ASSUME NEW first \in Nat, NEW from \in Nat, first <= from, from <= ms, ms - first <= MaxMs,
               read = from % MsWord, firstLast' = <<first, ms>>, first % MsWord # 0 => from = first,
               read = 0 => from = ms
        PROVE  RelInv'
    <3>1. ms - from <= MaxMs
      BY <1>0, <1>1, <2>5
    <3>2. t0' = from % MsWord /\ toldTime' = (ms - from) \div PerSecond
      BY <2>3, <2>5, <3>1
    <3>3. (ms - from) \in Nat
      BY <1>1, <2>5
    <3>4. toldTime' \in Nat /\ t0' \in Nat
      BY <1>0, <2>5, <3>2, <3>3, WholeUnits
    <3>5. t0' = 0 => toldTime' = 0
      BY <2>1, <2>4, <2>5, <3>2
    <3>6. firstLast' # <<>> /\ ms <= ms /\ ms' = ms
      BY <1>1, <2>1, <2>5
    <3> QED
      BY <1>1, <2>5, <3>2, <3>4, <3>5, <3>6, Zenon DEF RelInv
  <2>6. CASE firstLast = <<>>
    <3>1. t0 = 0 /\ toldTime = 0
      BY <2>6, Zenon DEF RelInv
    <3>2. read = ms % MsWord /\ firstLast' = <<ms, ms>>
      BY <2>1, <2>6, <3>1 DEF read
    <3>3. ms <= ms /\ ms - ms <= MaxMs
      BY <1>0, <1>1
    <3>4. RelInv'
      BY <1>1, <2>5, <3>2, <3>3
    <3>5. toldTime' \in Nat
      BY <3>4, Zenon DEF RelInv
    <3> QED
      BY <3>1, <3>4, <3>5
  <2>7. CASE firstLast # <<>>
    <3>1. PICK first \in Nat, last \in Nat, from \in Nat :
            /\ firstLast = <<first, last>> /\ first <= from /\ from <= last /\ last <= ms /\ ms - first <= MaxMs
            /\ t0 = from % MsWord /\ toldTime = (last - from) \div PerSecond
            /\ t0 = 0 => toldTime = 0
            /\ first % MsWord # 0 => from = first
      BY <2>7, Zenon DEF RelInv
    <3>2. firstLast' = <<first, ms>>
      BY <2>1, <2>7, <3>1
    <3>3. CASE t0 = 0
      <4>1. read = ms % MsWord /\ first <= ms /\ ms <= ms
        BY <1>1, <3>1, <3>3 DEF read
      <4>2. first % MsWord # 0 => ms = first
        BY <3>1, <3>3
      <4>3. RelInv'
        BY <1>1, <2>5, <3>1, <3>2, <4>1, <4>2
      <4>4. toldTime = 0 /\ toldTime' \in Nat
        BY <3>1, <3>3, <4>3, Zenon DEF RelInv
      <4> QED
        BY <4>3, <4>4
    <3>4. CASE t0 # 0
      <4>1. read = from % MsWord /\ read # 0
        BY <3>1, <3>4 DEF read
      <4>2. from <= ms /\ ms - from <= MaxMs
        BY <1>0, <1>1, <3>1
      <4>3. RelInv'
        BY <2>5, <3>1, <3>2, <4>1, <4>2
      <4>4. toldTime' = (ms - from) \div PerSecond
        BY <2>3, <4>1, <4>2
      <4>5. last - from \in Nat /\ ms - from \in Nat /\ last - from <= ms - from
        BY <1>1, <3>1
      <4>6. (last - from) \div PerSecond <= (ms - from) \div PerSecond
        BY <1>0, <4>5, WholeUnits
      <4>7. toldTime' \in Nat
        BY <4>3, Zenon DEF RelInv
      <4> QED
        BY <1>1, <3>1, <4>3, <4>4, <4>6, <4>7
    <3> QED
      BY <3>3, <3>4
  <2> QED
    BY <2>6, <2>7
<1> QED
  BY <1>2, <1>3, <1>4, Zenon DEF Calls!ClockNext

\* Answers counted from the first reading, or from one after it, are not ahead
\* of the time that has passed.
LEMMA RelIsSound == RelInv => Calls!TimeIsRelative
<1> SUFFICES ASSUME RelInv, firstLast # <<>>
             PROVE  LET since == (firstLast[2] - firstLast[1]) \div PerSecond
                    IN  IF firstLast[1] % MsWord # 0 THEN toldTime = since ELSE toldTime \in 0 .. since
  BY DEF Calls!TimeIsRelative
<1>1. PICK first \in Nat, last \in Nat, from \in Nat :
        /\ firstLast = <<first, last>> /\ first <= from /\ from <= last
        /\ toldTime = (last - from) \div PerSecond
        /\ first % MsWord # 0 => from = first
  BY Zenon DEF RelInv
<1>2. firstLast[1] = first /\ firstLast[2] = last
  BY <1>1
<1>3. last - from \in Nat /\ last - first \in Nat /\ last - from <= last - first
  BY <1>1
<1>4. /\ (last - from) \div PerSecond \in Nat /\ (last - first) \div PerSecond \in Nat
      /\ (last - from) \div PerSecond <= (last - first) \div PerSecond
  BY <1>3, CallSizes, WholeUnits
<1> QED
  BY <1>1, <1>2, <1>4

\* What the firmware told a program, or gave one of its own tables, holds:
\* variables are read back as they were set, the tables never lie across one
\* another, and the relative time is the time since it was first asked for
\* and never runs back (env.c:18-54, heap.c:16-36, arc.c:164-168).
THEOREM FirmwareIsTrusted == ServicesSpec => FirmwareKeepsItsWord
<1> DEFINE FirmwareInv == OptionInv /\ HeapInv /\ RelInv
<1>1. ServicesInit => FirmwareInv
  BY OptionsStart, HeapStart, RelStart, Zenon DEF ServicesInit
<1>2. FirmwareInv /\ [ServicesNext]_servicesVars => FirmwareInv' /\ [toldTime' >= toldTime]_(Calls!clockVars)
  BY CallSteps, OptionStep, HeapStep, RelStep, Zenon
<1>3. FirmwareInv => Calls!EnvironmentAnswers /\ Calls!BlocksAreApart /\ Calls!TimeIsRelative
  BY HeapIsSound, RelIsSound, Zenon DEF OptionInv
<1> HIDE DEF FirmwareInv
<1>4. ServicesSpec => []FirmwareInv /\ [][toldTime' >= toldTime]_(Calls!clockVars)
  BY <1>1, <1>2, PTL DEF ServicesSpec
<1>5. ServicesSpec => [](Calls!EnvironmentAnswers /\ Calls!BlocksAreApart /\ Calls!TimeIsRelative)
  BY <1>3, <1>4, PTL
<1> QED
  BY <1>4, <1>5 DEF FirmwareKeepsItsWord, Calls!FirmwareKeepsItsWord, Calls!TimeNeverRunsBack

-----------------------------------------------------------------------------
(* The loader's memory list. *)

\* A step of the HAL's reservations, or none.
LEMMA LoaderSteps == [ServicesNext]_servicesVars => Hal!Next \/ UNCHANGED loaderVars
BY Zenon DEF ServicesNext, servicesVars

\* The numbers of the two ranges and of the lists.
LEMMA ListsAre ==
  /\ FrameBytes \in Nat \ {0} /\ ApertureLo \in Nat /\ ApertureHi \in Nat /\ ApertureLo < ApertureHi
  /\ DiskLo \in Nat /\ ApertureHi <= DiskLo /\ DiskBytes \subseteq Nat \ {0} /\ 1 \in Nat
  /\ \A l \in Lists : Hal!IsList(l)
BY ServicesAssumption DEF Hal!LoaderAssumption

\* One of the descriptors is in D.
Has(l, D) == \E k \in 1 .. Len(l) : l[k] \in D

\* Page p is listed with type t.
Of(p, t) == {d \in Hal!Descriptors : p \in Hal!PagesOf(d) /\ d.type = t}
Held(l, p, t) == Has(l, Of(p, t))

\* The pages lo .. hi - 1 are in one descriptor.
Over(lo, hi) == {d \in Hal!Descriptors : Hal!Covers(d, lo, hi)}
Whole(l, lo, hi) == Has(l, Over(lo, hi))

\* The two sets of descriptors.
LEMMA InOf ==
  ASSUME NEW d \in Hal!Descriptors, NEW p, NEW t
  PROVE  d \in Of(p, t) <=> p \in Hal!PagesOf(d) /\ d.type = t
BY DEF Of

LEMMA InOver ==
  ASSUME NEW d \in Hal!Descriptors, NEW lo, NEW hi
  PROVE  d \in Over(lo, hi) <=> Hal!Covers(d, lo, hi)
BY DEF Over

\* The descriptors of a list.
LEMMA ListOfDescriptors ==
  ASSUME NEW l, Hal!IsList(l)
  PROVE  /\ l \in Seq(Hal!Descriptors) /\ Len(l) \in Nat
         /\ \A k \in 1 .. Len(l) : l[k] \in Hal!Descriptors
         /\ \A j, k \in 1 .. Len(l) : j < k => Hal!PagesOf(l[j]) \cap Hal!PagesOf(l[k]) = {}
<1>1. l \in Seq(Hal!Descriptors) /\ \A j, k \in 1 .. Len(l) : j < k => Hal!PagesOf(l[j]) \cap Hal!PagesOf(l[k]) = {}
  BY Zenon DEF Hal!IsList
<1>2. Len(l) \in Nat
  BY <1>1
<1>3. \A k \in 1 .. Len(l) : l[k] \in Hal!Descriptors
  BY <1>1, ElementOfSeq
<1> QED
  BY <1>1, <1>2, <1>3

\* The pages of a descriptor.
LEMMA PagesIn ==
  ASSUME NEW d \in Hal!Descriptors
  PROVE  /\ d.base \in Nat /\ d.count \in Nat \ {0} /\ d.type \in Hal!Types
         /\ \A p : p \in Hal!PagesOf(d) <=> p \in Int /\ d.base <= p /\ p < d.base + d.count
         /\ \A lo, hi : Hal!Covers(d, lo, hi) <=> d.base <= lo /\ hi <= d.base + d.count
<1>1. d.base \in Nat /\ d.count \in Nat \ {0} /\ d.type \in Hal!Types
  BY DEF Hal!Descriptors
<1> QED
  BY <1>1 DEF Hal!PagesOf, Hal!Covers

\* What is listed is listed in some place.
LEMMA HeldIs ==
  ASSUME NEW l, Hal!IsList(l), NEW p, NEW t
  PROVE  Held(l, p, t) <=> \E k \in 1 .. Len(l) : p \in Hal!PagesOf(l[k]) /\ l[k].type = t
BY ListOfDescriptors, InOf, Zenon DEF Held, Has

\* A list of nothing, and of one descriptor.
LEMMA NothingHas == Hal!IsList(<<>>) /\ \A D : ~Has(<<>>, D)
BY DEF Hal!IsList, Has

LEMMA OneHas ==
  ASSUME NEW d \in Hal!Descriptors
  PROVE  Hal!IsList(<<d>>) /\ \A D : Has(<<d>>, D) <=> d \in D
<1> DEFINE one == <<d>>
<1>1. one \in Seq(Hal!Descriptors) /\ Len(one) = 1 /\ one[1] = d
  OBVIOUS
<1> HIDE DEF one
<1>2. Hal!IsList(one)
  BY <1>1 DEF Hal!IsList
<1>3. ASSUME NEW D PROVE Has(one, D) <=> d \in D
  BY <1>1 DEF Has
<1> QED
  BY <1>2, <1>3 DEF one

\* Two lists, one behind the other.
LEMMA JoinedHas ==
  ASSUME NEW s, NEW u, Hal!IsList(s), Hal!IsList(u),
         \A p, t1, t2 : ~(Held(s, p, t1) /\ Held(u, p, t2))
  PROVE  Hal!IsList(s \o u) /\ \A D : Has(s \o u, D) <=> Has(s, D) \/ Has(u, D)
<1> DEFINE su == s \o u
<1>1. /\ s \in Seq(Hal!Descriptors) /\ u \in Seq(Hal!Descriptors) /\ su \in Seq(Hal!Descriptors)
      /\ Len(s) \in Nat /\ Len(u) \in Nat /\ Len(su) = Len(s) + Len(u)
  BY ListOfDescriptors
<1>2. \A k \in 1 .. Len(s) : su[k] = s[k]
  BY <1>1
<1>3. \A k \in 1 .. Len(u) : su[Len(s) + k] = u[k]
  BY <1>1
<1>4. ASSUME NEW k \in 1 .. Len(su) PROVE k \in 1 .. Len(s) \/ \E n \in 1 .. Len(u) : k = Len(s) + n
  <2>1. CASE k <= Len(s)
    BY <1>1, <2>1
  <2>2. CASE ~(k <= Len(s))
    <3>1. k - Len(s) \in 1 .. Len(u) /\ k = Len(s) + (k - Len(s))
      BY <1>1, <2>2
    <3> QED
      BY <3>1
  <2> QED
    BY <2>1, <2>2
<1>5. /\ \A k \in 1 .. Len(s) : k \in 1 .. Len(su)
      /\ \A k \in 1 .. Len(u) : Len(s) + k \in 1 .. Len(su)
  BY <1>1
<1> HIDE DEF su
<1>6. ASSUME NEW D PROVE Has(su, D) <=> Has(s, D) \/ Has(u, D)
  BY <1>2, <1>3, <1>4, <1>5, Zenon DEF Has
<1>7. ASSUME NEW j \in 1 .. Len(su), NEW k \in 1 .. Len(su), j < k
      PROVE  Hal!PagesOf(su[j]) \cap Hal!PagesOf(su[k]) = {}
  <2>1. CASE j \in 1 .. Len(s) /\ k \in 1 .. Len(s)
    BY <1>2, <1>7, <2>1, ListOfDescriptors
  <2>2. CASE \E n \in 1 .. Len(u) : j = Len(s) + n
    <3>1. PICK n \in 1 .. Len(u) : j = Len(s) + n
      BY <2>2
    <3>2. PICK m \in 1 .. Len(u) : k = Len(s) + m
      <4>1. k \notin 1 .. Len(s)
        BY <1>1, <1>7, <3>1
      <4> QED
        BY <1>4, <4>1, Zenon
    <3>3. n < m
      BY <1>1, <1>7, <3>1, <3>2
    <3>4. Hal!PagesOf(u[n]) \cap Hal!PagesOf(u[m]) = {}
      BY <3>3, ListOfDescriptors
    <3> QED
      BY <1>3, <3>1, <3>2, <3>4
  <2>3. CASE j \in 1 .. Len(s) /\ \E m \in 1 .. Len(u) : k = Len(s) + m
    <3>1. PICK m \in 1 .. Len(u) : k = Len(s) + m
      BY <2>3
    <3>2. ASSUME NEW p, p \in Hal!PagesOf(s[j]), p \in Hal!PagesOf(u[m]) PROVE FALSE
      <4>1. Held(s, p, s[j].type)
        BY <2>3, <3>2, HeldIs, Zenon
      <4>2. Held(u, p, u[m].type)
        BY <3>1, <3>2, HeldIs, Zenon
      <4> QED
        BY <4>1, <4>2, Zenon
    <3>3. su[j] = s[j] /\ su[k] = u[m]
      BY <1>2, <1>3, <2>3, <3>1
    <3> QED
      BY <3>2, <3>3
  <2> QED
    BY <1>4, <2>1, <2>2, <2>3
<1>8. Hal!IsList(su)
  BY <1>1, <1>7 DEF Hal!IsList
<1> QED
  BY <1>6, <1>8 DEF su

\* A stretch of a list.
LEMMA StretchHas ==
  ASSUME NEW l, Hal!IsList(l), NEW a \in 1 .. Len(l) + 1, NEW b \in 0 .. Len(l), a <= b + 1
  PROVE  /\ Hal!IsList(SubSeq(l, a, b))
         /\ \A D : Has(SubSeq(l, a, b), D) <=> \E k \in a .. b : l[k] \in D
<1> DEFINE s == SubSeq(l, a, b)
<1>1. /\ l \in Seq(Hal!Descriptors) /\ Len(l) \in Nat /\ a \in Nat /\ b \in Nat
      /\ \A k \in 1 .. Len(l) : l[k] \in Hal!Descriptors
  BY ListOfDescriptors
<1>2. s \in Seq(Hal!Descriptors) /\ Len(s) = (b + 1) - a /\ \A n \in 1 .. (b + 1) - a : s[n] = l[a + n - 1]
  <2>1. \A n \in a .. b : l[n] \in Hal!Descriptors
    BY <1>1
  <2>2. /\ s \in Seq(Hal!Descriptors) /\ Len(s) = (IF a <= b THEN b - a + 1 ELSE 0)
        /\ \A n \in 1 .. b - a + 1 : s[n] = l[a + n - 1]
    BY <1>1, <2>1, SubSeqProperties
  <2> QED
    BY <1>1, <2>2
<1> HIDE DEF s
<1>3. \A n \in 1 .. Len(s) : a + n - 1 \in a .. b /\ a + n - 1 \in 1 .. Len(l)
  BY <1>1, <1>2
<1>4. \A k \in a .. b : k + 1 - a \in 1 .. Len(s) /\ s[k + 1 - a] = l[k]
  <2>1. ASSUME NEW k \in a .. b PROVE k + 1 - a \in 1 .. Len(s) /\ s[k + 1 - a] = l[k]
    <3>1. k + 1 - a \in 1 .. (b + 1) - a /\ a + (k + 1 - a) - 1 = k
      BY <1>1
    <3> QED
      BY <1>2, <3>1
  <2> QED
    BY <2>1
<1>5. ASSUME NEW j \in 1 .. Len(s), NEW k \in 1 .. Len(s), j < k
      PROVE  Hal!PagesOf(s[j]) \cap Hal!PagesOf(s[k]) = {}
  <2>1. a + j - 1 < a + k - 1
    BY <1>1, <1>2, <1>5
  <2>2. s[j] = l[a + j - 1] /\ s[k] = l[a + k - 1]
    BY <1>2
  <2> QED
    BY <1>3, <2>1, <2>2, ListOfDescriptors
<1>6. Hal!IsList(s)
  BY <1>2, <1>5 DEF Hal!IsList
<1>7. ASSUME NEW D PROVE Has(s, D) <=> \E k \in a .. b : l[k] \in D
  <2>1. ASSUME Has(s, D) PROVE \E k \in a .. b : l[k] \in D
    <3>1. PICK n \in 1 .. Len(s) : s[n] \in D
      BY <2>1 DEF Has
    <3>2. s[n] = l[a + n - 1] /\ a + n - 1 \in a .. b
      BY <1>2, <1>3
    <3> QED
      BY <3>1, <3>2
  <2>2. ASSUME NEW k \in a .. b, l[k] \in D PROVE Has(s, D)
    BY <1>4, <2>2 DEF Has
  <2> QED
    BY <2>1, <2>2
<1> QED
  BY <1>6, <1>7 DEF s

\* A page is listed with one type, and in one place.
LEMMA HeldOnce ==
  ASSUME NEW l, Hal!IsList(l), NEW p, NEW t, Held(l, p, t)
  PROVE  /\ Hal!TypeAt(l, p) = t
         /\ \A t2 : Held(l, p, t2) => t2 = t
         /\ p \in Hal!Memory(l)
         /\ Cardinality({k \in 1 .. Len(l) : p \in Hal!PagesOf(l[k])}) = 1
<1>1. PICK k \in 1 .. Len(l) : p \in Hal!PagesOf(l[k]) /\ l[k].type = t
  BY HeldIs
<1>2. \A j \in 1 .. Len(l) : p \in Hal!PagesOf(l[j]) => j = k
  <2>1. ASSUME NEW j \in 1 .. Len(l), p \in Hal!PagesOf(l[j]), j # k PROVE FALSE
    <3>1. j < k \/ k < j
      BY <2>1
    <3> QED
      BY <1>1, <2>1, <3>1, ListOfDescriptors
  <2> QED
    BY <2>1
<1>3. (CHOOSE j \in 1 .. Len(l) : p \in Hal!PagesOf(l[j])) = k
  BY <1>1, <1>2
<1>4. {j \in 1 .. Len(l) : p \in Hal!PagesOf(l[j])} = {k}
  BY <1>1, <1>2
<1>5. Cardinality({k}) = 1
  BY FS_Singleton
<1>6. \A t2 : Held(l, p, t2) => t2 = t
  <2>1. ASSUME NEW t2, Held(l, p, t2) PROVE t2 = t
    <3>1. PICK j \in 1 .. Len(l) : p \in Hal!PagesOf(l[j]) /\ l[j].type = t2
      BY <2>1, HeldIs
    <3> QED
      BY <1>1, <1>2, <3>1, Zenon
  <2> QED
    BY <2>1
<1> QED
  BY <1>1, <1>3, <1>4, <1>5, <1>6 DEF Hal!TypeAt, Hal!Memory

\* What is in memory is listed.
LEMMA MemoryIsHeld ==
  ASSUME NEW l, Hal!IsList(l), NEW p
  PROVE  p \in Hal!Memory(l) <=> \E t : Held(l, p, t)
<1>1. ASSUME p \in Hal!Memory(l) PROVE \E t : Held(l, p, t)
  <2>1. PICK k \in 1 .. Len(l) : p \in Hal!PagesOf(l[k])
    BY <1>1, Zenon DEF Hal!Memory
  <2>2. Held(l, p, l[k].type)
    BY <2>1, HeldIs, Zenon
  <2> QED
    BY <2>2
<1>2. ASSUME NEW t, Held(l, p, t) PROVE p \in Hal!Memory(l)
  <2>1. PICK k \in 1 .. Len(l) : p \in Hal!PagesOf(l[k])
    BY <1>2, HeldIs, Zenon
  <2> QED
    BY <2>1 DEF Hal!Memory
<1> QED
  BY <1>1, <1>2


\* A range is cut out of the one descriptor that covers it, where its type
\* allows it, and all else of the list stays as it was (init.c:112-149,
\* oemdisk.c:50-79).
LEMMA ReservesTheRange ==
  ASSUME Hal!IsList(list), NEW lo \in Nat, NEW hi \in Nat, lo < hi, NEW movable, NEW type \in Hal!Types,
         NEW cut, cut = Hal!Reserve(lo, hi, movable, type)
  PROVE  /\ Hal!IsList(cut)
         /\ \/ /\ cut = list
               /\ ~\E k \in 1 .. Len(list) : Hal!Covers(list[k], lo, hi) /\ list[k].type \in movable
            \/ /\ \A p \in lo .. hi - 1 : \E t \in movable : Held(list, p, t)
               /\ \A p, t : Held(cut, p, t) <=> IF p \in lo .. hi - 1 THEN t = type ELSE Held(list, p, t)
               /\ \A x, y : x \in Nat /\ y \in Nat /\ hi <= x /\ x < y /\ Whole(list, x, y) => Whole(cut, x, y)
<1> DEFINE covering == Hal!Covering(lo, hi)
           k == CHOOSE k \in covering : \A j \in covering : k <= j
           d == list[k]
           below == IF d.base < lo THEN <<[d EXCEPT !.count = lo - d.base]>> ELSE <<>>
           mid == <<[type |-> type, base |-> lo, count |-> hi - lo]>>
           above == Hal!Above(d, hi)
           a == SubSeq(list, 1, k - 1)
           e == SubSeq(list, k + 1, Len(list))
<1>1. /\ list \in Seq(Hal!Descriptors) /\ Len(list) \in Nat /\ \A n \in 1 .. Len(list) : list[n] \in Hal!Descriptors
  BY ListOfDescriptors
<1>2. ASSUME NEW n \in covering, NEW m \in covering PROVE n = m
  <2>1. n \in 1 .. Len(list) /\ m \in 1 .. Len(list) /\ Hal!Covers(list[n], lo, hi) /\ Hal!Covers(list[m], lo, hi)
    BY DEF Hal!Covering
  <2>2. lo \in Hal!PagesOf(list[n]) /\ lo \in Hal!PagesOf(list[m])
    <3>1. ASSUME NEW x \in Hal!Descriptors, Hal!Covers(x, lo, hi) PROVE lo \in Hal!PagesOf(x)
      <4>1. x.base \in Nat /\ x.count \in Nat /\ x.base <= lo /\ hi <= x.base + x.count
        BY <3>1, PagesIn, Zenon
      <4>2. lo < x.base + x.count
        BY <4>1
      <4> QED
        BY <4>1, <4>2, PagesIn
    <3> QED
      BY <1>1, <2>1, <3>1, Zenon
  <2>3. ~(n < m) /\ ~(m < n)
    BY <2>1, <2>2, ListOfDescriptors
  <2> QED
    BY <2>1, <2>3
<1>3. CASE covering = {}
  <2>1. cut = list
    BY <1>3 DEF Hal!Reserve
  <2> QED
    BY <1>3, <2>1 DEF Hal!Covering
<1>4. CASE covering # {}
  <2>1. k \in covering /\ \A j \in covering : j = k
    <3>1. PICK n \in covering : TRUE
      BY <1>4
    <3>2. n <= n /\ \A j \in covering : n <= j
      <4>1. n \in Int
        BY DEF Hal!Covering
      <4> QED
        BY <1>2, <4>1
    <3>3. k \in covering
      BY <3>2
    <3> QED
      BY <1>2, <3>3
  <2>2. k \in 1 .. Len(list) /\ Hal!Covers(d, lo, hi) /\ d \in Hal!Descriptors
    BY <1>1, <2>1 DEF Hal!Covering
  <2>3. cut = IF ~Hal!MayTake(d, movable) THEN list ELSE ((((a \o below) \o mid) \o above) \o e)
    BY <1>4 DEF Hal!Reserve
  <2> HIDE DEF k
  <2>4. CASE ~Hal!MayTake(d, movable)
    <3>1. ASSUME NEW n \in 1 .. Len(list), Hal!Covers(list[n], lo, hi), list[n].type \in movable PROVE FALSE
      <4>1. n \in covering
        BY <3>1 DEF Hal!Covering
      <4> QED
        BY <2>1, <2>4, <3>1, <4>1 DEF Hal!MayTake
    <3> QED
      BY <2>3, <2>4, <3>1
  <2>5. CASE Hal!MayTake(d, movable)
    <3>1. /\ d.base \in Nat /\ d.count \in Nat \ {0} /\ d.type \in Hal!Types /\ d.type \in movable
          /\ d.base <= lo /\ hi <= d.base + d.count
      <4>1. d.type \in movable
        BY <2>5 DEF Hal!MayTake
      <4>2. d.base \in Nat /\ d.count \in Nat \ {0} /\ d.type \in Hal!Types
        BY <2>2, PagesIn
      <4>3. d.base <= lo /\ hi <= d.base + d.count
        BY <2>2 DEF Hal!Covers
      <4> QED
        BY <4>1, <4>2, <4>3
    <3>2. /\ Hal!IsList(a) /\ \A D : Has(a, D) <=> \E n \in 1 .. k - 1 : list[n] \in D
      <4>1. 1 \in 1 .. Len(list) + 1 /\ k - 1 \in 0 .. Len(list) /\ 1 <= (k - 1) + 1
        BY <1>1, <2>2
      <4> QED
        BY <4>1, StretchHas, Zenon
    <3>3. /\ Hal!IsList(e) /\ \A D : Has(e, D) <=> \E n \in k + 1 .. Len(list) : list[n] \in D
      <4>1. k + 1 \in 1 .. Len(list) + 1 /\ Len(list) \in 0 .. Len(list) /\ k + 1 <= Len(list) + 1
        BY <1>1, <2>2
      <4> QED
        BY <4>1, StretchHas, Zenon
    <3> DEFINE b == [d EXCEPT !.count = lo - d.base]
               c == [type |-> type, base |-> lo, count |-> hi - lo]
               f == [type |-> d.type, base |-> hi, count |-> d.base + d.count - hi]
    <3>4. /\ d.base < lo => b \in Hal!Descriptors
          /\ b.type = d.type /\ b.base = d.base /\ b.count = lo - d.base
      BY <2>2, <3>1 DEF Hal!Descriptors
    <3>5. c \in Hal!Descriptors /\ c.type = type /\ c.base = lo /\ c.count = hi - lo
      BY <3>1 DEF Hal!Descriptors
    <3>6. d.base + d.count > hi => /\ f \in Hal!Descriptors
                                   /\ f.type = d.type /\ f.base = hi /\ f.count = d.base + d.count - hi
      BY <3>1 DEF Hal!Descriptors
    <3>7. /\ Hal!IsList(below) /\ \A D : Has(below, D) <=> d.base < lo /\ b \in D
      BY <3>4, OneHas, NothingHas, Zenon
    <3>8. /\ Hal!IsList(mid) /\ \A D : Has(mid, D) <=> c \in D
      BY <3>5, OneHas, Zenon
    <3>9. /\ Hal!IsList(above) /\ \A D : Has(above, D) <=> d.base + d.count > hi /\ f \in D
      BY <3>6, OneHas, NothingHas, Zenon DEF Hal!Above
    <3> HIDE DEF a, below, mid, above, e, b, c, f
    <3>10. /\ \A p, t : Held(a, p, t) <=> \E n \in 1 .. k - 1 : p \in Hal!PagesOf(list[n]) /\ list[n].type = t
           /\ \A p, t : Held(below, p, t) <=> d.base < lo /\ p \in d.base .. lo - 1 /\ t = d.type
           /\ \A p, t : Held(mid, p, t) <=> p \in lo .. hi - 1 /\ t = type
           /\ \A p, t : Held(above, p, t) <=> d.base + d.count > hi /\ p \in hi .. d.base + d.count - 1 /\ t = d.type
           /\ \A p, t : Held(e, p, t) <=> \E n \in k + 1 .. Len(list) : p \in Hal!PagesOf(list[n]) /\ list[n].type = t
      <4>1. ASSUME NEW p, NEW t PROVE Held(below, p, t) <=> d.base < lo /\ p \in d.base .. lo - 1 /\ t = d.type
        <5>1. Held(below, p, t) <=> d.base < lo /\ b \in Hal!Descriptors /\ p \in Hal!PagesOf(b) /\ b.type = t
          BY <3>4, <3>7, InOf, Zenon DEF Held
        <5> QED
          BY <3>1, <3>4, <5>1, PagesIn
      <4>2. ASSUME NEW p, NEW t PROVE Held(mid, p, t) <=> p \in lo .. hi - 1 /\ t = type
        <5>1. Held(mid, p, t) <=> c \in Hal!Descriptors /\ p \in Hal!PagesOf(c) /\ c.type = t
          BY <3>5, <3>8, InOf, Zenon DEF Held
        <5> QED
          BY <3>1, <3>5, <5>1, PagesIn
      <4>3. ASSUME NEW p, NEW t
            PROVE  Held(above, p, t) <=> d.base + d.count > hi /\ p \in hi .. d.base + d.count - 1 /\ t = d.type
        <5>1. Held(above, p, t) <=> d.base + d.count > hi /\ f \in Hal!Descriptors /\ p \in Hal!PagesOf(f) /\ f.type = t
          BY <3>6, <3>9, InOf, Zenon DEF Held
        <5> QED
          BY <3>1, <3>6, <5>1, PagesIn
      <4>4. ASSUME NEW p, NEW t
            PROVE  Held(a, p, t) <=> \E n \in 1 .. k - 1 : p \in Hal!PagesOf(list[n]) /\ list[n].type = t
        <5>1. \A n \in 1 .. k - 1 : list[n] \in Hal!Descriptors
          BY <1>1, <2>2
        <5>2. \A n \in 1 .. k - 1 : list[n] \in Of(p, t) <=> p \in Hal!PagesOf(list[n]) /\ list[n].type = t
          BY <5>1, InOf, Zenon
        <5> QED
          BY <3>2, <5>2, Zenon DEF Held
      <4>5. ASSUME NEW p, NEW t
            PROVE  Held(e, p, t) <=> \E n \in k + 1 .. Len(list) : p \in Hal!PagesOf(list[n]) /\ list[n].type = t
        <5>1. \A n \in k + 1 .. Len(list) : list[n] \in Hal!Descriptors
          BY <1>1, <2>2
        <5>2. \A n \in k + 1 .. Len(list) : list[n] \in Of(p, t) <=> p \in Hal!PagesOf(list[n]) /\ list[n].type = t
          BY <5>1, InOf, Zenon
        <5> QED
          BY <3>3, <5>2, Zenon DEF Held
      <4> QED
        BY <4>1, <4>2, <4>3, <4>4, <4>5, Zenon
    <3>11. /\ \A p : p \in Hal!PagesOf(d) <=> p \in d.base .. d.base + d.count - 1
           /\ \A n \in 1 .. Len(list) : n # k => Hal!PagesOf(list[n]) \cap Hal!PagesOf(d) = {}
      <4>1. \A p : p \in Hal!PagesOf(d) <=> p \in d.base .. d.base + d.count - 1
        BY <2>2, <3>1, PagesIn
      <4>2. ASSUME NEW n \in 1 .. Len(list), n # k PROVE Hal!PagesOf(list[n]) \cap Hal!PagesOf(d) = {}
        <5>1. n < k \/ k < n
          BY <2>2, <4>2
        <5> QED
          BY <2>2, <5>1, ListOfDescriptors
      <4> QED
        BY <4>1, <4>2
    <3>12. ASSUME NEW n \in 1 .. k - 1, NEW m \in k + 1 .. Len(list)
           PROVE  /\ n \in 1 .. Len(list) /\ m \in 1 .. Len(list) /\ n # k /\ m # k
                  /\ Hal!PagesOf(list[n]) \cap Hal!PagesOf(list[m]) = {}
      <4>1. n \in 1 .. Len(list) /\ m \in 1 .. Len(list) /\ n # k /\ m # k /\ n < m
        BY <1>1, <2>2
      <4> QED
        BY <4>1, ListOfDescriptors
    <3>13. ASSUME NEW p, NEW t1, NEW t2
           PROVE  /\ ~(Held(a, p, t1) /\ Held(below, p, t2)) /\ ~(Held(a, p, t1) /\ Held(mid, p, t2))
                  /\ ~(Held(a, p, t1) /\ Held(above, p, t2)) /\ ~(Held(a, p, t1) /\ Held(e, p, t2))
                  /\ ~(Held(below, p, t1) /\ Held(mid, p, t2)) /\ ~(Held(below, p, t1) /\ Held(above, p, t2))
                  /\ ~(Held(below, p, t1) /\ Held(e, p, t2)) /\ ~(Held(mid, p, t1) /\ Held(above, p, t2))
                  /\ ~(Held(mid, p, t1) /\ Held(e, p, t2)) /\ ~(Held(above, p, t1) /\ Held(e, p, t2))
      <4>1. Held(a, p, t1) => p \notin d.base .. d.base + d.count - 1
        <5>1. SUFFICES ASSUME Held(a, p, t1) PROVE p \notin d.base .. d.base + d.count - 1
          OBVIOUS
        <5>2. PICK n \in 1 .. k - 1 : p \in Hal!PagesOf(list[n])
          BY <3>10, <5>1, Zenon
        <5>3. n \in 1 .. Len(list) /\ n # k
          BY <1>1, <2>2
        <5> QED
          BY <3>11, <5>2, <5>3
      <4>2. Held(e, p, t2) => p \notin d.base .. d.base + d.count - 1
        <5>1. SUFFICES ASSUME Held(e, p, t2) PROVE p \notin d.base .. d.base + d.count - 1
          OBVIOUS
        <5>2. PICK n \in k + 1 .. Len(list) : p \in Hal!PagesOf(list[n])
          BY <3>10, <5>1, Zenon
        <5>3. n \in 1 .. Len(list) /\ n # k
          BY <1>1, <2>2
        <5> QED
          BY <3>11, <5>2, <5>3
      <4>3. ~(Held(a, p, t1) /\ Held(e, p, t2))
        <5>1. SUFFICES ASSUME Held(a, p, t1), Held(e, p, t2) PROVE FALSE
          OBVIOUS
        <5>2. PICK n \in 1 .. k - 1 : p \in Hal!PagesOf(list[n])
          BY <3>10, <5>1, Zenon
        <5>3. PICK m \in k + 1 .. Len(list) : p \in Hal!PagesOf(list[m])
          BY <3>10, <5>1, Zenon
        <5> QED
          BY <3>12, <5>2, <5>3
      <4>4. /\ Held(below, p, t1) => p \in d.base .. lo - 1
            /\ Held(below, p, t2) => p \in d.base .. lo - 1
            /\ Held(mid, p, t1) => p \in lo .. hi - 1
            /\ Held(mid, p, t2) => p \in lo .. hi - 1
            /\ Held(above, p, t1) => p \in hi .. d.base + d.count - 1
            /\ Held(above, p, t2) => p \in hi .. d.base + d.count - 1
        BY <3>10, Zenon
      <4>5. /\ p \in d.base .. lo - 1 => p \in d.base .. d.base + d.count - 1
            /\ p \in lo .. hi - 1 => p \in d.base .. d.base + d.count - 1
            /\ p \in hi .. d.base + d.count - 1 => p \in d.base .. d.base + d.count - 1
            /\ ~(p \in d.base .. lo - 1 /\ p \in lo .. hi - 1)
            /\ ~(p \in d.base .. lo - 1 /\ p \in hi .. d.base + d.count - 1)
            /\ ~(p \in lo .. hi - 1 /\ p \in hi .. d.base + d.count - 1)
        BY <3>1
      <4> QED
        BY <4>1, <4>2, <4>3, <4>4, <4>5, Zenon
    <3> DEFINE l1 == a \o below
               l2 == l1 \o mid
               l3 == l2 \o above
               l4 == l3 \o e
    <3>14. Hal!IsList(l1) /\ \A D : Has(l1, D) <=> Has(a, D) \/ Has(below, D)
      BY <3>2, <3>7, <3>13, JoinedHas
    <3> HIDE DEF l1
    <3>15. Hal!IsList(l2) /\ \A D : Has(l2, D) <=> Has(l1, D) \/ Has(mid, D)
      <4>1. \A p, t1, t2 : ~(Held(l1, p, t1) /\ Held(mid, p, t2))
        BY <3>13, <3>14, Zenon DEF Held
      <4> QED
        BY <3>14, <3>8, <4>1, JoinedHas
    <3> HIDE DEF l2
    <3>16. Hal!IsList(l3) /\ \A D : Has(l3, D) <=> Has(l2, D) \/ Has(above, D)
      <4>1. \A p, t1, t2 : ~(Held(l2, p, t1) /\ Held(above, p, t2))
        BY <3>13, <3>14, <3>15, Zenon DEF Held
      <4> QED
        BY <3>15, <3>9, <4>1, JoinedHas
    <3> HIDE DEF l3
    <3>17. Hal!IsList(l4) /\ \A D : Has(l4, D) <=> Has(l3, D) \/ Has(e, D)
      <4>1. \A p, t1, t2 : ~(Held(l3, p, t1) /\ Held(e, p, t2))
        BY <3>13, <3>14, <3>15, <3>16, Zenon DEF Held
      <4> QED
        BY <3>16, <3>3, <4>1, JoinedHas
    <3>18. Hal!IsList(cut) /\ \A D : Has(cut, D) <=> \/ Has(a, D) \/ Has(below, D) \/ Has(mid, D) \/ Has(above, D) \/ Has(e, D)
      <4>1. cut = l4
        BY <2>3, <2>5 DEF l1, l2, l3
      <4> QED
        BY <4>1, <3>14, <3>15, <3>16, <3>17, Zenon
    <3>19. \A p \in lo .. hi - 1 : \E t \in movable : Held(list, p, t)
      <4>1. ASSUME NEW p \in lo .. hi - 1 PROVE Held(list, p, d.type)
        <5>1. p \in Hal!PagesOf(d)
          BY <3>1, <3>11
        <5> QED
          BY <2>2, <5>1, HeldIs
      <4> QED
        BY <3>1, <4>1
    <3>20. ASSUME NEW p, NEW t PROVE Held(cut, p, t) <=> IF p \in lo .. hi - 1 THEN t = type ELSE Held(list, p, t)
      <4>1. Held(cut, p, t) <=> \/ Held(a, p, t) \/ Held(below, p, t) \/ Held(mid, p, t) \/ Held(above, p, t) \/ Held(e, p, t)
        BY <3>18, Zenon DEF Held
      <4>2. Held(list, p, t) <=> (Held(a, p, t) \/ (p \in Hal!PagesOf(d) /\ t = d.type) \/ Held(e, p, t))
        <5>1. Held(list, p, t) <=> \E n \in 1 .. Len(list) : p \in Hal!PagesOf(list[n]) /\ list[n].type = t
          BY HeldIs
        <5>2. \A n : n \in 1 .. Len(list) <=> (n \in 1 .. k - 1 \/ n = k \/ n \in k + 1 .. Len(list))
          BY <1>1, <2>2
        <5>3. /\ Held(a, p, t) <=> \E n \in 1 .. k - 1 : p \in Hal!PagesOf(list[n]) /\ list[n].type = t
              /\ Held(e, p, t) <=> \E n \in k + 1 .. Len(list) : p \in Hal!PagesOf(list[n]) /\ list[n].type = t
          BY <3>10, Zenon
        <5>4. ASSUME Held(list, p, t) PROVE Held(a, p, t) \/ (p \in Hal!PagesOf(d) /\ t = d.type) \/ Held(e, p, t)
          <6>1. PICK n \in 1 .. Len(list) : p \in Hal!PagesOf(list[n]) /\ list[n].type = t
            BY <5>1, <5>4
          <6> QED
            BY <5>2, <5>3, <6>1, Zenon
        <5>5. ASSUME Held(a, p, t) \/ (p \in Hal!PagesOf(d) /\ t = d.type) \/ Held(e, p, t) PROVE Held(list, p, t)
          BY <5>1, <5>2, <5>3, <5>5, Zenon
        <5> QED
          BY <5>4, <5>5
      <4>3. /\ p \in Hal!PagesOf(d) <=> (\/ (d.base < lo /\ p \in d.base .. lo - 1)
                                        \/ p \in lo .. hi - 1
                                        \/ (d.base + d.count > hi /\ p \in hi .. d.base + d.count - 1))
            /\ p \in lo .. hi - 1 => p \notin d.base .. lo - 1 /\ p \notin hi .. d.base + d.count - 1
        BY <3>1, <3>11
      <4>4. p \in Hal!PagesOf(d) => ~Held(a, p, t) /\ ~Held(e, p, t)
        <5>1. SUFFICES ASSUME p \in Hal!PagesOf(d) PROVE ~Held(a, p, t) /\ ~Held(e, p, t)
          OBVIOUS
        <5>2. ASSUME Held(a, p, t) PROVE FALSE
          <6>1. PICK n \in 1 .. k - 1 : p \in Hal!PagesOf(list[n])
            BY <3>10, <5>2, Zenon
          <6>2. n \in 1 .. Len(list) /\ n # k
            BY <1>1, <2>2
          <6> QED
            BY <3>11, <5>1, <6>1, <6>2
        <5>3. ASSUME Held(e, p, t) PROVE FALSE
          <6>1. PICK n \in k + 1 .. Len(list) : p \in Hal!PagesOf(list[n])
            BY <3>10, <5>3, Zenon
          <6>2. n \in 1 .. Len(list) /\ n # k
            BY <1>1, <2>2
          <6> QED
            BY <3>11, <5>1, <6>1, <6>2
        <5> QED
          BY <5>2, <5>3
      <4> QED
        <5>1. /\ Held(below, p, t) <=> (d.base < lo /\ p \in d.base .. lo - 1 /\ t = d.type)
              /\ Held(mid, p, t) <=> (p \in lo .. hi - 1 /\ t = type)
              /\ Held(above, p, t) <=> (d.base + d.count > hi /\ p \in hi .. d.base + d.count - 1 /\ t = d.type)
          BY <3>10, Zenon
        <5> QED
          BY <4>1, <4>2, <4>3, <4>4, <5>1, Zenon
    <3>21. ASSUME NEW x \in Nat, NEW y \in Nat, hi <= x, x < y, Whole(list, x, y) PROVE Whole(cut, x, y)
      <4>1. PICK n \in 1 .. Len(list) : list[n] \in Over(x, y)
        BY <3>21 DEF Whole, Has
      <4>2. CASE n = k
        <5>1. d.base <= x /\ y <= d.base + d.count
          BY <2>2, <4>1, <4>2, InOver, PagesIn
        <5>2. d.base + d.count > hi /\ hi + (d.base + d.count - hi) = d.base + d.count
          BY <3>1, <3>21, <5>1
        <5>3. f \in Over(x, y)
          BY <3>6, <3>21, <5>1, <5>2, InOver, PagesIn
        <5> QED
          BY <3>9, <3>18, <5>2, <5>3, Zenon DEF Whole
      <4>3. CASE n # k
        <5>1. n \in 1 .. k - 1 \/ n \in k + 1 .. Len(list)
          BY <1>1, <2>2, <4>3
        <5> QED
          BY <3>2, <3>3, <3>18, <4>1, <5>1, Zenon DEF Whole
      <4> QED
        BY <4>2, <4>3
    <3> QED
      BY <3>18, <3>19, <3>20, <3>21
  <2> QED
    BY <2>4, <2>5
<1> QED
  BY <1>3, <1>4

\* What a page that was listed with type t may be listed with (init.c:99-149,
\* oemdisk.c:40-79).
Fate(p, t, u) ==
  \/ u = t
  \/ t = "free" /\ p \in ApertureLo .. ApertureHi - 1
  \/ t \in {"free", "temporary"} /\ p \in DiskLo .. Hal!DiskHi - 1

\* Each page is still listed, once, and as what it may be; a descriptor that
\* had the disk's pages has them still when they are reserved, and they are
\* reserved when the disk is there.
LoaderInv ==
  /\ given \in Lists /\ Hal!IsList(list) /\ header.bytes \in Nat \ {0}
  /\ stage = "aperture" => list = given
  /\ present <=> stage = "done" /\ header.state = "valid"
  /\ \A p, u : Held(list, p, u) => \E t : Held(given, p, t) /\ Fate(p, t, u)
  /\ \A p, t : Held(given, p, t) => \E u : Held(list, p, u)
  /\ stage = "disk" /\ Whole(given, DiskLo, Hal!DiskHi) => Whole(list, DiskLo, Hal!DiskHi)
  /\ present /\ Whole(given, DiskLo, Hal!DiskHi) =>
       \A p \in DiskLo .. Hal!DiskHi - 1, u \in {"free", "temporary"} : ~Held(list, p, u)

\* The list is the loader's before anything is reserved.
LEMMA LoaderStart == Hal!Init => LoaderInv
<1> SUFFICES ASSUME Hal!Init PROVE LoaderInv
  OBVIOUS
<1>1. /\ given \in Lists /\ list = given /\ present = FALSE /\ stage = "aperture"
      /\ header \in [state : {"absent", "rejected", "notFat"}, bytes : {1}] \cup [state : {"valid"}, bytes : DiskBytes]
  BY DEF Hal!Init
<1>2. header.bytes \in Nat \ {0}
  <2>1. CASE header \in [state : {"absent", "rejected", "notFat"}, bytes : {1}]
    <3>1. header.bytes = 1 /\ 1 \in Nat \ {0}
      BY <2>1
    <3> QED
      BY <3>1
  <2>2. CASE header \in [state : {"valid"}, bytes : DiskBytes]
    BY <2>2, ListsAre
  <2> QED
    BY <1>1, <2>1, <2>2
<1>3. Hal!IsList(list)
  BY <1>1, ListsAre
<1> QED
  BY <1>1, <1>2, <1>3, Zenon DEF LoaderInv, Fate

\* The pages with a byte of the disk's header or of its image are DiskLo ..
\* DiskHi - 1 (oemdisk.c:126-147).
LEMMA DiskEnds ==
  ASSUME header.bytes \in Nat \ {0}
  PROVE  /\ Hal!DiskHi \in Nat /\ DiskLo < Hal!DiskHi
         /\ \A p \in DiskLo .. Hal!DiskHi - 1 : p * FrameBytes < (DiskLo + 1) * FrameBytes + header.bytes
         /\ \A b \in DiskLo * FrameBytes .. (DiskLo + 1) * FrameBytes + header.bytes - 1 :
              b \div FrameBytes \in DiskLo .. Hal!DiskHi - 1
         /\ \A p \in {DiskLo, Hal!DiskHi - 1} :
              p * FrameBytes \in DiskLo * FrameBytes .. (DiskLo + 1) * FrameBytes + header.bytes - 1
         /\ \A p \in Nat : (p * FrameBytes) \div FrameBytes = p
<1> DEFINE w == FrameBytes
           n == header.bytes + w - 1
           q == n \div w
           lo == DiskLo
           hi == Hal!DiskHi
           by == header.bytes
<1>1. w \in Nat \ {0} /\ n \in Nat /\ lo \in Nat /\ by \in Nat \ {0} /\ n = by + w - 1
  BY ListsAre
<1>2. q \in Nat /\ q * w <= n /\ n < (q + 1) * w
  BY <1>1, Quotient
<1>3. hi = lo + 1 + q
  BY DEF Hal!DiskHi
<1> HIDE DEF w, n, q, lo, hi, by
<1>4. \A a, b \in Nat : (a + b) * w = a * w + b * w /\ a * w \in Nat /\ (a <= b => a * w <= b * w)
  BY <1>1
<1>5. /\ q * w \in Nat /\ (q + 1) * w = q * w + w /\ lo * w \in Nat /\ (lo + 1) * w = lo * w + w
      /\ hi * w = lo * w + w + q * w /\ (lo + q) * w = lo * w + q * w /\ 1 * w = w
  BY <1>1, <1>2, <1>3, <1>4
<1>6. by <= q * w /\ hi * w >= (lo + 1) * w + by /\ (lo + q) * w < (lo + 1) * w + by
  BY <1>1, <1>2, <1>5
<1>7. hi \in Nat /\ lo < hi /\ hi - 1 = lo + q
  BY <1>1, <1>2, <1>3
<1>8. ASSUME NEW p \in lo .. hi - 1 PROVE p * w < (lo + 1) * w + by
  <2>1. p \in Nat /\ p <= lo + q /\ lo + q \in Nat
    BY <1>1, <1>2, <1>7
  <2>2. p * w <= (lo + q) * w /\ p * w \in Nat /\ (lo + q) * w \in Nat
    BY <1>4, <2>1
  <2> QED
    BY <1>1, <1>5, <1>6, <2>2
<1>9. ASSUME NEW b \in lo * w .. (lo + 1) * w + by - 1 PROVE b \div w \in lo .. hi - 1
  <2>1. b \in Nat /\ lo * w <= b /\ b < hi * w
    BY <1>1, <1>5, <1>6
  <2>2. b \div w \in Nat /\ (b \div w) * w <= b /\ b < (b \div w + 1) * w
    BY <1>1, <2>1, Quotient
  <2> DEFINE m == b \div w
  <2> HIDE DEF m
  <2>3. m \in Nat /\ m * w <= b /\ b < (m + 1) * w
    BY <2>2 DEF m
  <2>4. ~(m + 1 <= lo)
    <3>1. SUFFICES ASSUME m + 1 <= lo PROVE FALSE
      OBVIOUS
    <3>2. (m + 1) * w <= lo * w /\ (m + 1) * w \in Nat
      BY <1>1, <1>4, <2>3, <3>1
    <3> QED
      BY <1>5, <2>1, <2>3, <3>2
  <2>5. ~(hi <= m)
    <3>1. SUFFICES ASSUME hi <= m PROVE FALSE
      OBVIOUS
    <3>2. hi * w <= m * w /\ m * w \in Nat /\ hi * w \in Nat
      BY <1>4, <1>7, <2>3, <3>1
    <3> QED
      BY <2>1, <2>3, <3>2
  <2>6. m \in lo .. hi - 1
    BY <1>1, <1>7, <2>3, <2>4, <2>5
  <2> QED
    BY <2>6 DEF m
<1>10. ASSUME NEW p \in {lo, hi - 1} PROVE p * w \in lo * w .. (lo + 1) * w + by - 1
  <2>1. p \in lo .. hi - 1 /\ p \in Nat
    BY <1>1, <1>7
  <2>2. lo * w <= p * w /\ p * w \in Nat
    BY <1>1, <1>4, <2>1
  <2>3. p * w < (lo + 1) * w + by
    BY <1>8, <2>1
  <2> QED
    BY <1>1, <1>5, <2>2, <2>3
<1>11. ASSUME NEW p \in Nat PROVE (p * w) \div w = p
  <2>1. p * w \in Nat /\ (p + 1) * w = p * w + w
    BY <1>1, <1>4, <1>5
  <2>2. p * w < (p + 1) * w /\ p * w <= p * w
    BY <1>1, <2>1
  <2> QED
    BY <1>1, <2>1, <2>2, Quotient
<1> QED
  BY <1>7, <1>8, <1>9, <1>10, <1>11 DEF w, lo, hi, by

\* Two reservations, of which the first leaves the disk's pages together.
LEMMA LoaderStep == LoaderInv /\ (Hal!Next \/ UNCHANGED loaderVars) => LoaderInv'
<1> SUFFICES ASSUME LoaderInv, Hal!Next \/ UNCHANGED loaderVars PROVE LoaderInv'
  OBVIOUS
<1>0. /\ ApertureLo \in Nat /\ ApertureHi \in Nat /\ ApertureLo < ApertureHi
      /\ DiskLo \in Nat /\ ApertureHi <= DiskLo
  BY ListsAre
<1>1. /\ given \in Lists /\ Hal!IsList(list) /\ header.bytes \in Nat \ {0}
      /\ stage = "aperture" => list = given
      /\ present <=> stage = "done" /\ header.state = "valid"
      /\ \A p, u : Held(list, p, u) => \E t : Held(given, p, t) /\ Fate(p, t, u)
      /\ \A p, t : Held(given, p, t) => \E u : Held(list, p, u)
      /\ stage = "disk" /\ Whole(given, DiskLo, Hal!DiskHi) => Whole(list, DiskLo, Hal!DiskHi)
      /\ present /\ Whole(given, DiskLo, Hal!DiskHi) =>
           \A p \in DiskLo .. Hal!DiskHi - 1, u \in {"free", "temporary"} : ~Held(list, p, u)
  BY Zenon DEF LoaderInv
<1>2. Hal!DiskHi \in Nat /\ DiskLo < Hal!DiskHi
  BY <1>1, DiskEnds
<1>3. CASE UNCHANGED loaderVars
  <2>1. UNCHANGED <<given, list, header, present, stage>> /\ Hal!DiskHi' = Hal!DiskHi
    BY <1>3 DEF loaderVars, Hal!DiskHi
  <2> QED
    BY <1>1, <2>1, Zenon DEF LoaderInv, Fate
<1>4. CASE Hal!HalpReserveVgaAperture
  <2>1. /\ stage = "aperture" /\ stage' = "disk" /\ UNCHANGED <<given, header, present>>
        /\ list' = Hal!Reserve(ApertureLo, ApertureHi, {"free"}, "special")
    BY <1>4 DEF Hal!HalpReserveVgaAperture
  <2>2. Hal!DiskHi' = Hal!DiskHi /\ list = given /\ present = FALSE
    BY <1>1, <2>1 DEF Hal!DiskHi
  <2>3. /\ Hal!IsList(list')
        /\ \/ list' = list
           \/ /\ \A p \in ApertureLo .. ApertureHi - 1 : \E t \in {"free"} : Held(list, p, t)
              /\ \A p, t : Held(list', p, t) <=> IF p \in ApertureLo .. ApertureHi - 1 THEN t = "special" ELSE Held(list, p, t)
              /\ \A x, y : x \in Nat /\ y \in Nat /\ ApertureHi <= x /\ x < y /\ Whole(list, x, y) => Whole(list', x, y)
    <3>1. "special" \in Hal!Types
      BY DEF Hal!Types
    <3> QED
      <4>1. Hal!IsList(list) /\ ApertureLo \in Nat /\ ApertureHi \in Nat /\ ApertureLo < ApertureHi
        BY <1>0, <1>1
      <4>2. list' = Hal!Reserve(ApertureLo, ApertureHi, {"free"}, "special")
        BY <2>1
      <4>3. /\ Hal!IsList(list')
         /\ \/ /\ list' = list
               /\ ~\E k \in 1 .. Len(list) : Hal!Covers(list[k], ApertureLo, ApertureHi) /\ list[k].type \in {"free"}
            \/ /\ \A p \in ApertureLo .. ApertureHi - 1 : \E t \in {"free"} : Held(list, p, t)
               /\ \A p, t : Held(list', p, t) <=> IF p \in ApertureLo .. ApertureHi - 1 THEN t = "special" ELSE Held(list, p, t)
               /\ \A x, y : x \in Nat /\ y \in Nat /\ ApertureHi <= x /\ x < y /\ Whole(list, x, y) => Whole(list', x, y)
        BY <4>1, <4>2, <3>1, ReservesTheRange
      <4> QED
        BY <4>3, Zenon
  <2>4. \A p, u : Held(list', p, u) => \E t : Held(given, p, t) /\ Fate(p, t, u)
    <3>1. SUFFICES ASSUME NEW p, NEW u, Held(list', p, u) PROVE \E t : Held(given, p, t) /\ Fate(p, t, u)
      OBVIOUS
    <3>2. CASE Held(list, p, u)
      BY <2>2, <3>2 DEF Fate
    <3>3. CASE p \in ApertureLo .. ApertureHi - 1 /\ Held(list, p, "free")
      BY <2>2, <3>3 DEF Fate
    <3> QED
      BY <2>3, <3>1, <3>2, <3>3, Zenon
  <2>5. \A p, t : Held(given, p, t) => \E u : Held(list', p, u)
    BY <2>2, <2>3, Zenon
  <2>6. Whole(given, DiskLo, Hal!DiskHi) => Whole(list', DiskLo, Hal!DiskHi)
    BY <1>0, <1>2, <2>2, <2>3, Zenon
  <2>7. stage' # "aperture" /\ stage' # "done"
    BY <2>1
  <2>8. ~present'
    BY <2>1, <2>2
  <2> QED
    BY <1>1, <2>1, <2>2, <2>3, <2>4, <2>5, <2>6, <2>7, <2>8, Zenon DEF LoaderInv, Fate
<1>5. CASE Hal!HalpOemDiskInitialize
  <2>1. /\ stage = "disk" /\ stage' = "done" /\ UNCHANGED <<given, header>>
        /\ IF header.state # "valid" THEN UNCHANGED <<list, present>>
           ELSE /\ list' = Hal!Reserve(DiskLo, Hal!DiskHi, {"free", "temporary"}, "permanent")
                /\ present' = TRUE
    BY <1>5 DEF Hal!HalpOemDiskInitialize
  <2>2. Hal!DiskHi' = Hal!DiskHi /\ ~present /\ stage' # "aperture" /\ stage' # "disk"
    BY <1>1, <2>1 DEF Hal!DiskHi
  <2>3. CASE header.state # "valid"
    <3>1. list' = list /\ present' = present
      BY <2>1, <2>3
    <3> QED
      BY <1>1, <2>1, <2>2, <2>3, <3>1, Zenon DEF LoaderInv, Fate
  <2>4. CASE header.state = "valid"
    <3>1. list' = Hal!Reserve(DiskLo, Hal!DiskHi, {"free", "temporary"}, "permanent") /\ present' = TRUE
      BY <2>1, <2>4
    <3>2. /\ Hal!IsList(list')
          /\ \/ /\ list' = list
                /\ ~\E k \in 1 .. Len(list) : Hal!Covers(list[k], DiskLo, Hal!DiskHi) /\ list[k].type \in {"free", "temporary"}
             \/ /\ \A p \in DiskLo .. Hal!DiskHi - 1 : \E t \in {"free", "temporary"} : Held(list, p, t)
                /\ \A p, t : Held(list', p, t) <=> IF p \in DiskLo .. Hal!DiskHi - 1 THEN t = "permanent" ELSE Held(list, p, t)
      <4>1. "permanent" \in Hal!Types
        BY DEF Hal!Types
      <4> QED
        <5>1. Hal!IsList(list) /\ DiskLo \in Nat /\ Hal!DiskHi \in Nat /\ DiskLo < Hal!DiskHi
          BY <1>0, <1>1, <1>2
        <5>2. /\ Hal!IsList(list')
           /\ \/ /\ list' = list
                 /\ ~\E k \in 1 .. Len(list) : Hal!Covers(list[k], DiskLo, Hal!DiskHi) /\ list[k].type \in {"free", "temporary"}
              \/ /\ \A p \in DiskLo .. Hal!DiskHi - 1 : \E t \in {"free", "temporary"} : Held(list, p, t)
                 /\ \A p, t : Held(list', p, t) <=> IF p \in DiskLo .. Hal!DiskHi - 1 THEN t = "permanent" ELSE Held(list, p, t)
                 /\ \A x, y : x \in Nat /\ y \in Nat /\ Hal!DiskHi <= x /\ x < y /\ Whole(list, x, y) => Whole(list', x, y)
          BY <3>1, <4>1, <5>1, ReservesTheRange
        <5> QED
          BY <5>2, Zenon
    <3>3. \A p, u : Held(list', p, u) => \E t : Held(given, p, t) /\ Fate(p, t, u)
      <4>1. SUFFICES ASSUME NEW p, NEW u, Held(list', p, u) PROVE \E t : Held(given, p, t) /\ Fate(p, t, u)
        OBVIOUS
      <4>2. CASE Held(list, p, u)
        BY <1>1, <4>2, Zenon
      <4>3. CASE p \in DiskLo .. Hal!DiskHi - 1 /\ \E t \in {"free", "temporary"} : Held(list, p, t)
        <5>1. PICK t \in {"free", "temporary"} : Held(list, p, t)
          BY <4>3
        <5>2. PICK was : Held(given, p, was) /\ Fate(p, was, t)
          BY <1>1, <5>1, Zenon
        <5>3. Fate(p, was, u)
          BY <4>3, <5>1, <5>2 DEF Fate
        <5> QED
          BY <5>2, <5>3
      <4> QED
        BY <3>2, <4>1, <4>2, <4>3, Zenon
    <3>4. \A p, t : Held(given, p, t) => \E u : Held(list', p, u)
      <4>1. SUFFICES ASSUME NEW p, NEW t, Held(given, p, t) PROVE \E u : Held(list', p, u)
        OBVIOUS
      <4>2. PICK u : Held(list, p, u)
        BY <1>1, <4>1, Zenon
      <4> QED
        BY <3>2, <4>2, Zenon
    <3>5. Whole(given, DiskLo, Hal!DiskHi) =>
            \A p \in DiskLo .. Hal!DiskHi - 1, u \in {"free", "temporary"} : ~Held(list', p, u)
      <4>1. SUFFICES ASSUME Whole(given, DiskLo, Hal!DiskHi), NEW p \in DiskLo .. Hal!DiskHi - 1,
                            NEW u \in {"free", "temporary"}, Held(list', p, u)
                     PROVE  FALSE
        OBVIOUS
      <4>2. u # "permanent"
        OBVIOUS
      <4>3. CASE list' = list /\ ~\E k \in 1 .. Len(list) : /\ Hal!Covers(list[k], DiskLo, Hal!DiskHi)
                                                            /\ list[k].type \in {"free", "temporary"}
        <5>1. PICK k \in 1 .. Len(list) : list[k] \in Over(DiskLo, Hal!DiskHi)
          BY <1>1, <2>1, <4>1, Zenon DEF Whole, Has
        <5>2. list[k] \in Hal!Descriptors /\ Hal!Covers(list[k], DiskLo, Hal!DiskHi)
          BY <5>1 DEF Over
        <5>3. p \in Hal!PagesOf(list[k])
          BY <1>0, <1>2, <5>2, PagesIn
        <5>4. Held(list, p, list[k].type)
          BY <1>1, <5>3, HeldIs, Zenon
        <5>5. u = list[k].type
          BY <1>1, <4>1, <4>3, <5>4, HeldOnce
        <5> QED
          BY <4>3, <5>2, <5>5
      <4> QED
        BY <3>2, <4>1, <4>2, <4>3, Zenon
    <3> QED
      <4>1. /\ given' = given /\ header' = header /\ Hal!DiskHi' = Hal!DiskHi
            /\ stage' # "aperture" /\ stage' # "disk" /\ (present' <=> stage' = "done" /\ header'.state = "valid")
        BY <2>1, <2>2, <2>4, <3>1
      <4>2. Hal!IsList(list')
        BY <3>2, Zenon
      <4> QED
        BY <1>1, <3>3, <3>4, <3>5, <4>1, <4>2, Zenon DEF LoaderInv, Fate
  <2> QED
    BY <2>3, <2>4
<1> QED
  BY <1>3, <1>4, <1>5 DEF Hal!Next

\* What the invariant says of the pages, the types and the disk.
LEMMA LoaderKeeps == LoaderInv => Hal!ReservesItsOwn
<1> SUFFICES ASSUME LoaderInv PROVE Hal!ReservesItsOwn
  OBVIOUS
<1>1. /\ given \in Lists /\ Hal!IsList(list) /\ header.bytes \in Nat \ {0}
      /\ \A p, u : Held(list, p, u) => \E t : Held(given, p, t) /\ Fate(p, t, u)
      /\ \A p, t : Held(given, p, t) => \E u : Held(list, p, u)
      /\ present /\ Whole(given, DiskLo, Hal!DiskHi) =>
           \A p \in DiskLo .. Hal!DiskHi - 1, u \in {"free", "temporary"} : ~Held(list, p, u)
  BY Zenon DEF LoaderInv
<1>2. Hal!IsList(given)
  BY <1>1, ListsAre
<1>3. Hal!PagesAreKept
  <2>1. ASSUME NEW p PROVE p \in Hal!Memory(list) <=> p \in Hal!Memory(given)
    BY <1>1, <1>2, MemoryIsHeld, Zenon
  <2>2. Hal!Memory(list) = Hal!Memory(given)
    BY <2>1
  <2>3. ASSUME NEW p \in Hal!Memory(given)
        PROVE  Cardinality({k \in 1 .. Len(list) : p \in Hal!PagesOf(list[k])}) = 1
    <3>1. PICK u : Held(list, p, u)
      BY <1>1, <2>2, <2>3, MemoryIsHeld, Zenon
    <3> QED
      BY <1>1, <3>1, HeldOnce
  <2> QED
    BY <2>2, <2>3, Zenon DEF Hal!PagesAreKept, Hal!Cardinality, Cardinality
<1>4. Hal!LoadedIsLeftAlone
  <2>1. SUFFICES ASSUME NEW p \in Hal!Memory(given)
                 PROVE  \/ Hal!TypeAt(list, p) = Hal!TypeAt(given, p)
                        \/ Hal!TypeAt(given, p) = "free" /\ p \in ApertureLo .. ApertureHi - 1
                        \/ /\ Hal!TypeAt(given, p) \in {"free", "temporary"}
                           /\ p * FrameBytes < (DiskLo + 1) * FrameBytes + header.bytes /\ p >= DiskLo
    BY Zenon DEF Hal!LoadedIsLeftAlone
  <2>2. PICK was : Held(given, p, was)
    BY <1>2, <2>1, MemoryIsHeld, Zenon
  <2>3. PICK u : Held(list, p, u)
    BY <1>1, <2>2, Zenon
  <2>4. PICK t : Held(given, p, t) /\ Fate(p, t, u)
    BY <1>1, <2>3, Zenon
  <2>5. Hal!TypeAt(list, p) = u /\ Hal!TypeAt(given, p) = t
    BY <1>1, <1>2, <2>3, <2>4, HeldOnce
  <2>6. p \in DiskLo .. Hal!DiskHi - 1 => p * FrameBytes < (DiskLo + 1) * FrameBytes + header.bytes /\ p >= DiskLo
    BY <1>1, DiskEnds
  <2> QED
    BY <2>4, <2>5, <2>6, Zenon DEF Fate
<1>5. Hal!DiskIsProtected
  <2> DEFINE bytes == DiskLo * FrameBytes .. (DiskLo + 1) * FrameBytes + header.bytes - 1
             pages == {b \div FrameBytes : b \in bytes}
  <2>1. SUFFICES ASSUME present
                 PROVE  \/ \A p \in pages : p \in Hal!Memory(list) => Hal!TypeAt(list, p) \notin {"free", "temporary"}
                        \/ ~\E k \in 1 .. Len(given) : pages \subseteq Hal!PagesOf(given[k])
    BY Zenon DEF Hal!DiskIsProtected
  <2>2. CASE Whole(given, DiskLo, Hal!DiskHi)
    <3>1. ASSUME NEW p \in pages, p \in Hal!Memory(list) PROVE Hal!TypeAt(list, p) \notin {"free", "temporary"}
      <4>1. p \in DiskLo .. Hal!DiskHi - 1
        BY <1>1, <3>1, DiskEnds
      <4>2. PICK u : Held(list, p, u)
        BY <1>1, <3>1, MemoryIsHeld, Zenon
      <4>3. Hal!TypeAt(list, p) = u
        BY <1>1, <4>2, HeldOnce
      <4> QED
        BY <1>1, <2>1, <2>2, <4>1, <4>2, <4>3, Zenon
    <3> QED
      BY <3>1, Zenon
  <2>3. CASE ~Whole(given, DiskLo, Hal!DiskHi)
    <3>1. ASSUME NEW k \in 1 .. Len(given), pages \subseteq Hal!PagesOf(given[k]) PROVE FALSE
      <4>1. Hal!DiskHi \in Nat /\ DiskLo \in Nat /\ DiskLo < Hal!DiskHi
        BY <1>1, DiskEnds, ListsAre
      <4>2. DiskLo \in pages /\ Hal!DiskHi - 1 \in pages
        <5>1. ASSUME NEW p \in {DiskLo, Hal!DiskHi - 1} PROVE p \in pages
          <6>1. p \in Nat
            BY <4>1
          <6>2. p * FrameBytes \in bytes /\ p = (p * FrameBytes) \div FrameBytes
            BY <1>1, <6>1, DiskEnds
          <6> QED
            BY <6>2
        <5> QED
          BY <5>1
      <4>3. given[k] \in Hal!Descriptors
        BY <1>2, ListOfDescriptors
      <4> HIDE DEF pages
      <4>4. Hal!Covers(given[k], DiskLo, Hal!DiskHi)
        BY <3>1, <4>1, <4>2, <4>3, PagesIn
      <4>5. given[k] \in Over(DiskLo, Hal!DiskHi)
        BY <4>3, <4>4, InOver
      <4> QED
        BY <2>3, <4>5, Zenon DEF Whole, Has
    <3> QED
      BY <3>1
  <2> QED
    BY <2>2, <2>3
<1> QED
  BY <1>3, <1>4, <1>5, Zenon DEF Hal!ReservesItsOwn

\* What the HAL reserves in the loader's list is the aperture and the disk, all
\* of the disk, and nothing that was anybody else's, for every list, range and
\* size of the image (init.c:99-149, oemdisk.c:40-79).
THEOREM OthersMemoryIsKept == ServicesSpec => []ReservesItsOwn
<1>1. ServicesInit => LoaderInv
  BY LoaderStart, Zenon DEF ServicesInit
<1>2. LoaderInv /\ [ServicesNext]_servicesVars => LoaderInv'
  BY LoaderSteps, LoaderStep
<1>3. LoaderInv => ReservesItsOwn
  BY LoaderKeeps DEF ReservesItsOwn
<1> QED
  BY <1>1, <1>2, <1>3, PTL DEF ServicesSpec
=============================================================================
