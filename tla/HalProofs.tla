------------------------------ MODULE HalProofs ------------------------------
(***************************************************************************)
(* Theorems about what the HAL and the loader tell others of the machine:   *)
(* resources, memory, the environment, drive letters, the time of day and   *)
(* the configuration space, for every value of the constants.               *)
(***************************************************************************)
EXTENDS MCServices, LeastElement, SequenceTheorems, FiniteSetTheorems

-----------------------------------------------------------------------------
(* The clock. *)

\* The increments are whole milliseconds, and each count is that many.
Counts(ticks, increment) ==
  \E n \in 1 .. 10 : ticks = TicksPerMs * n /\ increment = n * MINIMUM_INCREMENT

\* What the decrementer started from, of which the passed ticks are gone: the
\* next tick reports just that interval.
Runs(run) ==
  /\ Counts(run, current)
  /\ IF pending
       THEN elapsed - started > run /\ dec = Word - (elapsed - started - run) /\ dec >= Word - 1 - MaxLate
       ELSE dec = run - (elapsed - started) /\ dec >= 0

\* What was reported is no more than the time up to the last tick.
Behind == reported * TicksPerMs <= started * MINIMUM_INCREMENT

IInv ==
  /\ pending \in BOOLEAN
  /\ elapsed \in 0 .. MaxElapsed /\ started \in 0 .. elapsed /\ reported \in Nat
  /\ Counts(clockCount, new)
  /\ \E run \in Nat : Runs(run)
  /\ Behind

\* HalSetTimeIncrement programs one to ten milliseconds.
LEMMA WholeMilliseconds == \A d \in Increments : Milliseconds(d) \in 1 .. 10
<1> SUFFICES ASSUME NEW d \in 0 .. MAXIMUM_INCREMENT PROVE Milliseconds(d) \in 1 .. 10
  BY ClockAssumption, SMTT(60)
<1> DEFINE m == MINIMUM_INCREMENT
<1>1. m \in Nat \ {0} /\ MAXIMUM_INCREMENT = 10 * m
  <2>1. MAXIMUM_INCREMENT = 10 * m
    BY Zenon DEF MAXIMUM_INCREMENT
  <2>2. m \in Nat \ {0}
    BY SMTT(60) DEF MINIMUM_INCREMENT
  <2> QED
    BY <2>1, <2>2, Zenon
<1>2. Milliseconds(d) = IF d \div m = 0 THEN 1 ELSE d \div m
  BY DEF Milliseconds
<1> HIDE DEF m
<1>3. d \in Nat /\ d <= 10 * m
  BY <1>1
<1> DEFINE q == d \div m
<1>4. q \in Int /\ m * q <= d
  BY <1>1, <1>3
<1>5. q >= 0
  BY <1>1, <1>3
<1> HIDE DEF q
<1>6. q <= 10
  <2> SUFFICES ASSUME q >= 11 PROVE FALSE
    BY <1>4
  <2>1. m * q >= m * 11
    BY <1>1, <1>4
  <2> QED
    BY <1>1, <1>3, <1>4, <2>1
<1> QED
  BY <1>2, <1>4, <1>5, <1>6 DEF q

\* What a count and an increment that agree are, as numbers.
LEMMA CountsAre ==
  ASSUME NEW ticks, NEW increment, Counts(ticks, increment)
  PROVE  /\ ticks \in TicksPerMs .. 10 * TicksPerMs /\ increment \in Nat
         /\ increment * TicksPerMs = ticks * MINIMUM_INCREMENT
<1>1. PICK n \in 1 .. 10 : ticks = TicksPerMs * n /\ increment = n * MINIMUM_INCREMENT
  BY DEF Counts
<1>2. TicksPerMs * n \in TicksPerMs .. 10 * TicksPerMs
  BY ClockAssumption
<1>3. (n * 10000) * TicksPerMs = (TicksPerMs * n) * 10000
  BY ClockAssumption
<1>4. increment \in Nat
  BY <1>1 DEF MINIMUM_INCREMENT
<1>5. increment * TicksPerMs = ticks * MINIMUM_INCREMENT
  BY <1>1, <1>3 DEF MINIMUM_INCREMENT
<1> QED
  BY <1>1, <1>2, <1>4, <1>5

(* The clock starts with the invariant (HalpInitializeClock, clock.c:27). *)
LEMMA InitIInv == Init => IInv
<1> SUFFICES ASSUME Init PROVE IInv
  OBVIOUS
<1>1. Counts(clockCount, new) /\ Counts(clockCount, current)
  <2>1. (10 * 10000) \div 10000 = 10
    OBVIOUS
  <2>2. clockCount = TicksPerMs * 10 /\ new = 10 * MINIMUM_INCREMENT /\ current = 10 * MINIMUM_INCREMENT
    BY <2>1 DEF Init, MINIMUM_INCREMENT, MAXIMUM_INCREMENT
  <2>3. 10 \in 1 .. 10
    OBVIOUS
  <2> QED
    BY <2>2, <2>3 DEF Counts
<1>2. clockCount \in Nat /\ Runs(clockCount)
  BY <1>1, CountsAre, ClockAssumption DEF Init, Runs
<1>3. \E run \in Nat : Runs(run)
  BY <1>2
<1>4. Behind
  BY ClockAssumption, SMTT(60) DEF Init, Behind, MINIMUM_INCREMENT
<1>5. pending \in BOOLEAN
  BY Zenon DEF Init
<1>6. elapsed \in 0 .. MaxElapsed /\ started \in 0 .. elapsed /\ reported \in Nat
  BY ClockAssumption DEF Init
<1> QED
  BY <1>1, <1>3, <1>4, <1>5, <1>6 DEF IInv

\* The tick finds the decrementer below zero and starts the interval anew.
LEMMA ReloadsWhole ==
  ASSUME NEW value \in TicksPerMs .. 10 * TicksPerMs, dec >= Word - 1 - MaxLate, dec \in Int
  PROVE  Reload(value) = value
BY ClockAssumption DEF Reload

(* Time that passes in the decrementer keeps it. *)
LEMMA PassIInv == IInv /\ Pass => IInv'
<1> SUFFICES ASSUME IInv, Pass PROVE IInv'
  OBVIOUS
<1>1. PICK run \in Nat : Runs(run)
  BY DEF IInv
<1>2. run \in TicksPerMs .. 10 * TicksPerMs
  BY <1>1, CountsAre DEF Runs
<1>3. /\ elapsed' = elapsed + 1 /\ elapsed' \in 0 .. MaxElapsed /\ started' \in 0 .. elapsed'
      /\ UNCHANGED <<clockCount, current, new, started, reported>>
  BY ClockAssumption DEF IInv, Pass
<1>4. Runs(run)'
  <2>. Counts(run, current)'
    BY <1>1, <1>3 DEF Runs, Counts
  <2>1. CASE pending
    <3>1. dec \in Int /\ dec > Word - 1 - MaxLate /\ elapsed - started > run /\ dec = Word - (elapsed - started - run)
      BY <1>1, <2>1, ClockAssumption DEF Runs, IInv, Pass
    <3>2. (dec - 1) % Word = dec - 1
      BY <1>2, <3>1, ClockAssumption DEF IInv
    <3>3. pending' /\ dec' = dec - 1
      BY <2>1, <3>2 DEF Pass
    <3> QED
      BY <1>2, <1>3, <3>1, <3>3, ClockAssumption DEF Runs, IInv
  <2>2. CASE ~pending /\ dec = 0
    <3>1. (dec - 1) % Word = Word - 1
      BY <2>2, ClockAssumption
    <3>2. pending' /\ dec' = Word - 1
      BY <2>2, <3>1 DEF Pass
    <3>3. elapsed - started = run
      BY <1>1, <1>2, <2>2, ClockAssumption DEF Runs, IInv
    <3> QED
      BY <1>2, <1>3, <3>2, <3>3, ClockAssumption, SMTT(60) DEF Runs, IInv
  <2>3. CASE ~pending /\ dec # 0
    <3>1. dec = run - (elapsed - started) /\ dec > 0 /\ dec \in Int
      BY <1>1, <1>2, <2>3, ClockAssumption DEF Runs, IInv
    <3>2. (dec - 1) % Word = dec - 1
      BY <1>2, <3>1, ClockAssumption DEF IInv
    <3>3. ~pending' /\ dec' = dec - 1
      BY <2>3, <3>2 DEF Pass
    <3> QED
      BY <1>2, <1>3, <3>1, <3>3, ClockAssumption DEF Runs, IInv
  <2> QED
    BY <2>1, <2>2, <2>3 DEF IInv
<1>5. pending' \in BOOLEAN
  BY DEF Pass, IInv
<1> QED
  BY <1>3, <1>4, <1>5 DEF IInv, Counts, Behind

(* A tick, which reloads the decrementer and moves the pipeline, keeps it. *)
LEMMA TickIInv == IInv /\ DecrementerTick => IInv'
<1> SUFFICES ASSUME IInv, DecrementerTick PROVE IInv'
  OBVIOUS
<1>1. PICK run \in Nat : Runs(run)
  BY DEF IInv
<1>2. /\ elapsed - started > run /\ dec \in Int /\ dec >= Word - 1 - MaxLate
      /\ current \in Nat /\ current * TicksPerMs = run * MINIMUM_INCREMENT
  BY <1>1, CountsAre, ClockAssumption DEF DecrementerTick, Runs, IInv, MINIMUM_INCREMENT
<1>3. clockCount \in TicksPerMs .. 10 * TicksPerMs
  BY CountsAre DEF IInv
<1>4. dec' = clockCount /\ started' = elapsed /\ current' = new /\ reported' = reported + current
      /\ pending' = FALSE /\ UNCHANGED <<clockCount, new, elapsed>>
  BY <1>2, <1>3, ReloadsWhole DEF DecrementerTick
<1>5. \E later \in Nat : Runs(later)'
  <2>1. PICK next \in Nat : next = clockCount
    BY <1>3, ClockAssumption
  <2>2. Runs(next)'
    BY <1>3, <1>4, <2>1, ClockAssumption DEF Runs, IInv, Counts
  <2> QED
    BY <2>2
<1>6. Behind'
  <2>1. reported' * TicksPerMs = reported * TicksPerMs + current * TicksPerMs
    BY <1>2, <1>4, ClockAssumption DEF IInv
  <2> QED
    BY <1>2, <1>4, <2>1, ClockAssumption DEF Behind, IInv, MINIMUM_INCREMENT
<1>7. elapsed' \in 0 .. MaxElapsed /\ started' \in 0 .. elapsed' /\ reported' \in Nat
  BY <1>2, <1>4, ClockAssumption DEF IInv
<1> QED
  BY <1>4, <1>5, <1>6, <1>7 DEF IInv, Counts

(* HalSetTimeIncrement, which only asks for a later increment, keeps it. *)
LEMMA SetIInv == \A desired \in Increments : IInv /\ HalSetTimeIncrement(desired) => IInv'
<1> SUFFICES ASSUME NEW desired \in Increments, IInv, HalSetTimeIncrement(desired) PROVE IInv'
  OBVIOUS
<1>1. Counts(clockCount, new)'
  BY WholeMilliseconds DEF HalSetTimeIncrement, Counts
<1>2. \E run \in Nat : Runs(run)'
  BY DEF HalSetTimeIncrement, IInv, Runs, Counts
<1> QED
  BY <1>1, <1>2 DEF HalSetTimeIncrement, IInv, Behind

\* The steps of the clock keep the invariant.
LEMMA ClockInvariant == Spec => []IInv
<1>1. Init => IInv
  BY InitIInv
<1>2. IInv /\ UNCHANGED vars => IInv'
  BY DEF vars, IInv, Runs, Counts, Behind
<1>3. IInv /\ [Next]_vars => IInv'
  BY <1>2, PassIInv, TickIInv, SetIInv DEF Next
<1> QED
  BY <1>1, <1>3, PTL DEF Spec

\* Ticks keep time at every frequency: each reports just the interval that
\* ended, NT's time never runs ahead of the timebase, and no tick is due late
\* (clock.c:18-48).
THEOREM ClockKeepsTime == Spec => []TicksKeepTime
<1>1. IInv => TicksKeepTime
  <2> SUFFICES ASSUME IInv PROVE TicksKeepTime
    OBVIOUS
  <2>1. PICK run \in Nat : Runs(run)
    BY DEF IInv
  <2>2. current * TicksPerMs = run * MINIMUM_INCREMENT
    BY <2>1, CountsAre DEF Runs
  <2>3. TickMatchesInterval
    BY <2>1, <2>2 DEF TickMatchesInterval, Runs, IInv, MINIMUM_INCREMENT
  <2>4. NeverAhead
    BY ClockAssumption DEF NeverAhead, IInv, Behind, MINIMUM_INCREMENT
  <2>5. DueOnTime
    BY <2>1, <2>2, ClockAssumption DEF DueOnTime, Runs, IInv, MINIMUM_INCREMENT
  <2> QED
    BY <2>3, <2>4, <2>5 DEF TicksKeepTime
<1> QED
  BY <1>1, ClockInvariant, PTL

\* A step of the decrementer's clock, or none.
LEMMA ClockSteps == [ServicesNext]_servicesVars => [Next]_vars
BY Zenon DEF ServicesNext, servicesVars

\* The clock is one of the services.
LEMMA ServicesRunTheClock == ServicesSpec => Spec
<1>1. ServicesInit => Init
  BY Zenon DEF ServicesInit
<1> QED
  BY <1>1, ClockSteps, PTL DEF ServicesSpec, Spec

-----------------------------------------------------------------------------
(* Bus addresses and slot resources. *)

\* A step of the bus service, or none.
LEMMA BusSteps == [ServicesNext]_servicesVars => Bus!Next \/ UNCHANGED busVars
BY Zenon DEF ServicesNext, servicesVars

Requests == [type : {"pci", "isa", "other"}, bus : DOMAIN Bridge \cup {9}, space : {"io", "memory"}, address : Addresses]

\* What was asked and assigned last, if anything; HalpFbPhys is what the card says.
BusInv ==
  /\ card \in Vram /\ fbPhys \in {0, card}
  /\ \/ asked = Bus!NoAddress /\ found = -1
     \/ asked \in Requests /\ found = Bus!HalTranslateBusAddress(asked, asked.address)
  /\ \/ function = Bus!NoFunction /\ resources = <<>>
     \/ function \in Headers /\ resources = Bus!WithInterrupt(function, Bus!RangesOf(function))

\* Both memories of the card's address say the same (vga.c:20-40).
LEMMA CardIsKnown == BusInv => Bus!HalpVgaVramPhys = card
BY DEF BusInv, Bus!HalpVgaVramPhys

LEMMA BusStart == Bus!Init => BusInv
BY DEF Bus!Init, BusInv

LEMMA BusStep == BusInv /\ (Bus!Next \/ UNCHANGED busVars) => BusInv'
<1> SUFFICES ASSUME BusInv, Bus!Next \/ UNCHANGED busVars PROVE BusInv'
  OBVIOUS
<1>1. Bus!HalpVgaVramPhys = card
  BY CardIsKnown
<1>2. CASE Bus!TranslateAddress
  <2>1. PICK r \in Requests :
          /\ asked' = r /\ found' = Bus!HalTranslateBusAddress(r, r.address)
          /\ fbPhys' = (IF r.type = "pci" /\ r.bus \in DOMAIN Bridge /\ r.space = "memory" /\ Bus!IsWindow(r.address)
                          THEN Bus!HalpVgaVramPhys ELSE fbPhys)
          /\ function' = Bus!NoFunction /\ resources' = <<>> /\ UNCHANGED card
    BY <1>2, Zenon DEF Bus!TranslateAddress, Requests
  <2>2. card' \in Vram /\ fbPhys' \in {0, card'}
    BY <1>1, <2>1 DEF BusInv
  <2>3. Bus!HalpVgaVramPhys' = Bus!HalpVgaVramPhys
    BY <1>1, <2>1, <2>2 DEF Bus!HalpVgaVramPhys, BusInv
  <2>4. Bus!HalTranslateBusAddress(r, r.address)' = Bus!HalTranslateBusAddress(r, r.address)
    BY <2>3, Zenon DEF Bus!HalTranslateBusAddress, Bus!PciMemoryAt, Bus!PciPort, Bus!IsaAt, Bus!IsWindow, Bus!InWindow
  <2>5. asked' \in Requests /\ found' = Bus!HalTranslateBusAddress(asked, asked.address)'
    BY <2>1, <2>4, Zenon
  <2> QED
    BY <2>1, <2>2, <2>5, Zenon DEF BusInv
<1>3. CASE Bus!HalAssignSlotResources
  BY <1>3, Zenon DEF Bus!HalAssignSlotResources, BusInv
<1>4. CASE UNCHANGED busVars
  BY <1>4, Zenon DEF BusInv, busVars, Bus!HalTranslateBusAddress, Bus!PciMemoryAt, Bus!PciPort, Bus!IsaAt, Bus!IsWindow,
                     Bus!InWindow, Bus!HalpVgaVramPhys
<1> QED
  BY <1>2, <1>3, <1>4 DEF Bus!Next

LEMMA BusNumbers ==
  /\ Addresses \subseteq Nat /\ PciMemory \in Nat /\ Window \in Nat \ {0} /\ Mirror \in Nat
  /\ \A w \in Windows : w \in Nat /\ w % Window = 0
  /\ \A v \in Vram : v \in Nat /\ (v = 0 \/ v >= PciMemory)
  /\ 0 \in DOMAIN Bridge /\ \A b \in DOMAIN Bridge : Bridge[b] \in Nat /\ Bridge[b] >= PciMemory
  /\ IoFirst \in Nat /\ IoSize \in Nat /\ IsaLast \in Nat /\ MaxBars \in Nat
BY ServicesAssumption, Zenon DEF Bus!BusAssumption

\* How far into its window an address lies.
LEMMA InsideOf ==
  ASSUME NEW w \in Windows, NEW a \in Nat, w <= a, a < w + Window
  PROVE  a % Window = a - w
<1> DEFINE n == Window
<1>1. n \in Nat \ {0} /\ w \in Nat /\ w % n = 0
  BY BusNumbers
<1>2. a < w + n
  OBVIOUS
<1> HIDE DEF n
<1>3. w = (w \div n) * n /\ w \div n \in Nat
  BY <1>1
<1>4. \A q \in Nat, r \in 0 .. n - 1 : (q * n + r) % n = r
  BY <1>1
<1>5. a - w \in 0 .. n - 1 /\ a = (w \div n) * n + (a - w)
  BY <1>1, <1>2, <1>3
<1>6. a % n = a - w
  BY <1>3, <1>4, <1>5
<1> QED
  BY <1>6 DEF n

\* An address that is translated is in the card's memory, in a bridge's ports, or itself.
LEMMA TranslatedIs ==
  ASSUME BusInv, NEW r \in Requests, NEW a \in Nat, Bus!HalTranslateBusAddress(r, a) # -1
  PROVE  /\ r.space = "io" =>
              \E b \in DOMAIN Bridge : (r.type = "isa" => b = 0) /\ (r.type = "pci" => b = r.bus)
                                       /\ Bus!HalTranslateBusAddress(r, a) = Bridge[b] + a
         /\ r.space = "memory" /\ r.type = "pci" =>
              IF Bus!IsWindow(a) THEN card # 0 /\ Bus!HalTranslateBusAddress(r, a) = card + Mirror + (a % Window)
              ELSE a >= PciMemory /\ Bus!HalTranslateBusAddress(r, a) = a
         /\ r.space = "memory" /\ r.type # "pci" => a >= PciMemory /\ Bus!HalTranslateBusAddress(r, a) = a
         /\ r.type \in {"pci", "isa"}
<1>1. Bus!HalpVgaVramPhys = card
  BY CardIsKnown
<1>2. r.type \in {"pci", "isa", "other"} /\ r.space \in {"io", "memory"}
  BY DEF Requests
<1>3. CASE r.type = "pci" /\ r.bus \in DOMAIN Bridge
  <2>1. Bus!HalTranslateBusAddress(r, a) = IF r.space = "io" THEN Bus!PciPort(r.bus, a) ELSE Bus!PciMemoryAt(a)
    BY <1>3 DEF Bus!HalTranslateBusAddress
  <2>2. CASE r.space = "io"
    BY <1>3, <2>1, <2>2 DEF Bus!PciPort
  <2>3. CASE r.space = "memory"
    <3>1. Bus!HalTranslateBusAddress(r, a) = Bus!PciMemoryAt(a)
      BY <2>1, <2>3
    <3>2. CASE Bus!IsWindow(a)
      BY <1>1, <1>3, <2>3, <3>1, <3>2 DEF Bus!PciMemoryAt, Bus!InWindow
    <3>3. CASE ~Bus!IsWindow(a)
      BY <1>3, <2>3, <3>1, <3>3, BusNumbers DEF Bus!PciMemoryAt
    <3> QED
      BY <3>2, <3>3
  <2> QED
    BY <1>2, <2>2, <2>3
<1>4. CASE r.type = "isa"
  <2>1. Bus!HalTranslateBusAddress(r, a) = Bus!IsaAt(r.space, a)
    BY <1>4 DEF Bus!HalTranslateBusAddress
  <2> QED
    BY <1>2, <1>4, <2>1, BusNumbers DEF Bus!IsaAt
<1>5. CASE ~(r.type = "pci" /\ r.bus \in DOMAIN Bridge) /\ r.type # "isa"
  <2>1. Bus!HalTranslateBusAddress(r, a) = -1
    BY <1>2, <1>5 DEF Bus!HalTranslateBusAddress
  <2> QED
    BY <2>1
<1> QED
  BY <1>3, <1>4, <1>5

\* pci.c:178-179.
LEMMA BusAvoidsRam == BusInv => Bus!NeverInRam
<1> SUFFICES ASSUME BusInv, found # -1 PROVE found >= PciMemory
  BY DEF Bus!NeverInRam
<1>1. asked \in Requests /\ found = Bus!HalTranslateBusAddress(asked, asked.address)
  BY DEF BusInv
<1>2. asked.address \in Nat /\ asked.space \in {"io", "memory"}
  BY <1>1, BusNumbers DEF Requests
<1>3. CASE asked.space = "io"
  <2>1. PICK b \in DOMAIN Bridge : found = Bridge[b] + asked.address
    BY <1>1, <1>2, <1>3, TranslatedIs
  <2> QED
    BY <1>2, <2>1, BusNumbers
<1>4. CASE asked.space = "memory"
  <2>1. card \in Nat /\ (card = 0 \/ card >= PciMemory)
    BY BusNumbers DEF BusInv
  <2>2. asked.address % Window \in Nat
    BY <1>2, BusNumbers
  <2>3. (card # 0 /\ found = card + Mirror + (asked.address % Window)) \/ (asked.address >= PciMemory /\ found = asked.address)
    BY <1>1, <1>2, <1>4, TranslatedIs
  <2> QED
    BY <1>2, <2>1, <2>2, <2>3, BusNumbers
<1> QED
  BY <1>2, <1>3, <1>4

\* pci.c:159-162.
LEMMA RangesAreWhole == BusInv => Bus!RangeIsWhole
<1> SUFFICES ASSUME BusInv, NEW hi \in Addresses, hi >= asked.address, found # -1,
                    Bus!HalTranslateBusAddress(asked, hi) # -1, Bus!OneKind(asked.space, asked.address, hi)
             PROVE  Bus!HalTranslateBusAddress(asked, hi) - found = hi - asked.address
  BY DEF Bus!RangeIsWhole
<1> DEFINE lo == asked.address
           end == Bus!HalTranslateBusAddress(asked, hi)
<1>1. asked \in Requests /\ found = Bus!HalTranslateBusAddress(asked, lo)
  BY DEF BusInv
<1>2. lo \in Nat /\ hi \in Nat /\ asked.space \in {"io", "memory"} /\ asked.type \in {"pci", "isa", "other"}
  BY <1>1, BusNumbers DEF Requests
<1>3. card \in Nat /\ Mirror \in Nat /\ Window \in Nat \ {0}
  BY BusNumbers DEF BusInv
<1>4. CASE asked.space = "io"
  <2>1. PICK b \in DOMAIN Bridge : found = Bridge[b] + lo /\ (asked.type = "isa" => b = 0) /\ (asked.type = "pci" => b = asked.bus)
    BY <1>1, <1>2, <1>4, TranslatedIs
  <2>2. PICK c \in DOMAIN Bridge : end = Bridge[c] + hi /\ (asked.type = "isa" => c = 0) /\ (asked.type = "pci" => c = asked.bus)
    BY <1>1, <1>2, <1>4, TranslatedIs
  <2>3. asked.type \in {"pci", "isa"}
    BY <1>1, <1>2, TranslatedIs
  <2>4. b = c /\ Bridge[b] \in Nat
    BY <2>1, <2>2, <2>3, BusNumbers
  <2> QED
    BY <1>2, <2>1, <2>2, <2>4
<1>5. CASE asked.space = "memory" /\ asked.type # "pci"
  <2>1. found = lo /\ end = hi
    BY <1>1, <1>2, <1>5, TranslatedIs
  <2> QED
    BY <2>1
<1>6. CASE asked.space = "memory" /\ asked.type = "pci"
  <2>1. /\ IF Bus!IsWindow(lo) THEN found = card + Mirror + (lo % Window) ELSE found = lo
        /\ IF Bus!IsWindow(hi) THEN end = card + Mirror + (hi % Window) ELSE end = hi
    BY <1>1, <1>2, <1>6, TranslatedIs
  <2>2. CASE \E w \in Windows : lo >= w /\ hi < w + Window
    <3>1. PICK w \in Windows : lo >= w /\ hi < w + Window
      BY <2>2
    <3>2. w \in Nat /\ lo <= hi
      BY <3>1, BusNumbers
    <3>3. lo \in w .. w + Window - 1 /\ hi \in w .. w + Window - 1
      BY <1>2, <1>3, <3>1, <3>2
    <3>4. Bus!IsWindow(lo) /\ Bus!IsWindow(hi)
      BY <3>1, <3>3 DEF Bus!IsWindow
    <3>5. lo % Window = lo - w /\ hi % Window = hi - w
      <4>1. w <= lo /\ lo < w + Window /\ w <= hi /\ hi < w + Window
        BY <1>2, <1>3, <3>1, <3>2
      <4> QED
        BY <1>2, <3>1, <4>1, InsideOf
    <3>6. found = card + Mirror + (lo - w) /\ end = card + Mirror + (hi - w)
      BY <2>1, <3>4, <3>5
    <3> QED
      BY <1>2, <1>3, <3>2, <3>6
  <2>3. CASE lo >= PciMemory /\ \A w \in Windows : hi < w \/ lo >= w + Window
    <3>1. \A w \in Windows : lo \notin w .. w + Window - 1 /\ hi \notin w .. w + Window - 1
      BY <1>2, <1>3, <2>3, BusNumbers
    <3>2. ~Bus!IsWindow(lo) /\ ~Bus!IsWindow(hi)
      BY <3>1 DEF Bus!IsWindow
    <3> QED
      BY <2>1, <3>2
  <2> QED
    BY <1>6, <2>2, <2>3 DEF Bus!OneKind
<1> QED
  BY <1>2, <1>4, <1>5, <1>6

\* What a base address may be, and what a driver is told of one.
BarOf == [kind : Bus!BarKinds, base : Nat, length : Nat]
RangeOf == [kind : {"port", "memory"}, base : Nat, length : Nat]
LoopState == [skip : BOOLEAN, descs : Seq(RangeOf)]

LEMMA SizedIs == ASSUME NEW h \in Headers, NEW bar \in Nat \ {0} PROVE Bus!HalpSizeBar(h, bar) \in BarOf
<1>1. Bus!NotThere \in BarOf
  <2>1. "none" \in Bus!BarKinds
    BY DEF Bus!BarKinds
  <2> QED
    BY <2>1 DEF BarOf, Bus!NotThere
<1>2. h.bars \in Seq(BarOf)
  BY ServicesAssumption, Zenon DEF Bus!BusAssumption, BarOf
<1>3. CASE bar <= Len(h.bars)
  <2>1. h.bars[bar] \in BarOf
    BY <1>2, <1>3, ElementOfSeq
  <2> QED
    BY <1>3, <2>1 DEF Bus!HalpSizeBar
<1> QED
  BY <1>1, <1>3 DEF Bus!HalpSizeBar

LEMMA DescribedAs == ASSUME NEW v \in BarOf PROVE Bus!Descriptor(v) \in RangeOf
BY DEF Bus!Descriptor, BarOf, RangeOf

LoopStep(h, bar, s) ==
  IF s.skip \/ Bus!HalpSizeBar(h, bar).kind = "none" THEN [skip |-> FALSE, descs |-> s.descs]
  ELSE [skip |-> Bus!HalpSizeBar(h, bar).kind \in {"memory64"},
        descs |-> Append(s.descs, Bus!Descriptor(Bus!HalpSizeBar(h, bar)))]

\* The loop over a function's base addresses, one after the other (pci.c:243-256).
LEMMA LoopRuns ==
  ASSUME NEW h \in Headers, NEW after, after = Bus!LoopOver(h, {"memory64"})
  PROVE  /\ after \in [0 .. MaxBars -> LoopState]
         /\ after[0] = [skip |-> FALSE, descs |-> <<>>]
         /\ \A bar \in 1 .. MaxBars : after[bar] = LoopStep(h, bar, after[bar - 1])
<1> DEFINE start == [skip |-> FALSE, descs |-> <<>>]
           step == [bar \in 1 .. MaxBars |-> [s \in LoopState |-> LoopStep(h, bar, s)]]
           Is(g) == g = [bar \in 0 .. MaxBars |->
                           IF bar = 0 THEN [skip |-> FALSE, descs |-> <<>>]
                           ELSE IF g[bar - 1].skip \/ Bus!HalpSizeBar(h, bar).kind = "none"
                             THEN [skip |-> FALSE, descs |-> g[bar - 1].descs]
                           ELSE [skip |-> Bus!HalpSizeBar(h, bar).kind \in {"memory64"},
                                 descs |-> Append(g[bar - 1].descs, Bus!Descriptor(Bus!HalpSizeBar(h, bar)))]]
<1>1. MaxBars \in Nat
  BY BusNumbers
<1>2. start \in LoopState
  <2>1. <<>> \in Seq(RangeOf)
    OBVIOUS
  <2> QED
    BY <2>1 DEF LoopState
<1>3. ASSUME NEW bar \in 1 .. MaxBars, NEW s \in LoopState PROVE LoopStep(h, bar, s) \in LoopState
  <2> DEFINE v == Bus!HalpSizeBar(h, bar)
             d == Bus!Descriptor(v)
             k == v.kind \in {"memory64"}
  <2>1. d \in RangeOf
    BY SizedIs, DescribedAs
  <2>2. s.descs \in Seq(RangeOf)
    BY DEF LoopState
  <2> HIDE DEF d
  <2>3. Append(s.descs, d) \in Seq(RangeOf) /\ k \in BOOLEAN
    BY <2>1, <2>2
  <2> HIDE DEF k
  <2>4. [skip |-> k, descs |-> Append(s.descs, d)] \in LoopState /\ [skip |-> FALSE, descs |-> s.descs] \in LoopState
    BY <2>2, <2>3, Zenon DEF LoopState
  <2> QED
    BY <2>4, Zenon DEF LoopStep, d, k
<1>4. \A bar \in 1 .. MaxBars : step[bar] \in [LoopState -> LoopState]
  BY <1>3, Zenon
<1>5. PICK f : f \in [0 .. MaxBars -> LoopState] /\ f[0] = start /\ \A bar \in 1 .. MaxBars : f[bar] = step[bar][f[bar - 1]]
  <2> HIDE DEF step, start
  <2>1. StayIn(LoopState, step, MaxBars)
    BY <1>4 DEF StayIn
  <2>2. \E f : Takes(f, LoopState, start, step, MaxBars)
    BY <1>1, <1>2, <2>1, RecursionExists, Zenon
  <2> QED
    BY <2>2 DEF Takes
<1>6. \A bar \in 1 .. MaxBars : f[bar - 1] \in LoopState /\ f[bar] = LoopStep(h, bar, f[bar - 1])
  <2>1. \A bar \in 1 .. MaxBars : f[bar - 1] \in LoopState
    BY <1>1, <1>5
  <2> QED
    BY <1>5, <2>1, Zenon
<1>7. Is(f)
  <2>1. \A bar \in 0 .. MaxBars : bar = 0 \/ bar \in 1 .. MaxBars
    BY <1>1
  <2>2. \A bar \in 1 .. MaxBars : bar # 0
    OBVIOUS
  <2> QED
    BY <1>5, <1>6, <2>1, <2>2, Zenon DEF LoopStep
<1>8. after = CHOOSE g : Is(g)
  BY Zenon DEF Bus!LoopOver
<1>9. Is(after)
  BY <1>7, <1>8, Zenon
<1>10. 0 \in 0 .. MaxBars /\ \A bar \in 1 .. MaxBars : bar \in 0 .. MaxBars /\ bar # 0
  BY <1>1
<1>11. after[0] = start /\ \A bar \in 1 .. MaxBars : after[bar] = LoopStep(h, bar, after[bar - 1])
  BY <1>9, <1>10, Zenon DEF LoopStep
<1>12. after[0] \in LoopState /\ \A bar \in 1 .. MaxBars : after[bar - 1] \in LoopState => after[bar] \in LoopState
  <2> HIDE DEF start
  <2> QED
    BY <1>2, <1>3, <1>11
<1>13. \A bar \in 0 .. MaxBars : after[bar] \in LoopState
  <2> DEFINE S == {bar \in 0 .. MaxBars : after[bar] \in LoopState}
  <2>1. 0 \in S /\ \A bar \in 1 .. MaxBars : bar - 1 \in S => bar \in S
    BY <1>10, <1>12
  <2>2. \A bar \in 0 .. MaxBars : bar \in S
    <3> HIDE DEF S
    <3> QED
      BY <1>1, <2>1, InductionTo
  <2> QED
    BY <2>2
<1>14. after \in [0 .. MaxBars -> LoopState]
  BY <1>9, <1>13, Zenon
<1> QED
  BY <1>11, <1>14

\* The base addresses that are there, of the first bar of them.
RealTo(h, bar) == {k \in DOMAIN h.bars : k <= bar /\ h.bars[k].kind # "none"}

\* Each of them has one descriptor; only an empty one is passed over.
LEMMA LoopGives ==
  ASSUME NEW h \in Headers, NEW after, after = Bus!LoopOver(h, {"memory64"})
  PROVE  \A bar \in 0 .. MaxBars :
           /\ IsFiniteSet(RealTo(h, bar)) /\ Len(after[bar].descs) = Cardinality(RealTo(h, bar))
           /\ \A k \in RealTo(h, bar) : \E n \in DOMAIN after[bar].descs : after[bar].descs[n] = Bus!Descriptor(h.bars[k])
           /\ after[bar].skip => Bus!HalpSizeBar(h, bar + 1).kind = "none"
<1> DEFINE Counted(bar) == IsFiniteSet(RealTo(h, bar)) /\ Len(after[bar].descs) = Cardinality(RealTo(h, bar))
           Given(bar) ==
             /\ Counted(bar)
             /\ \A k \in RealTo(h, bar) : \E n \in DOMAIN after[bar].descs : after[bar].descs[n] = Bus!Descriptor(h.bars[k])
             /\ after[bar].skip => Bus!HalpSizeBar(h, bar + 1).kind = "none"
           S == {bar \in 0 .. MaxBars : Given(bar)}
<1>1. /\ after \in [0 .. MaxBars -> LoopState] /\ after[0] = [skip |-> FALSE, descs |-> <<>>]
      /\ \A bar \in 1 .. MaxBars : after[bar] = LoopStep(h, bar, after[bar - 1])
  BY LoopRuns
<1>2. MaxBars \in Nat
  BY BusNumbers
<1>3. /\ h.bars \in Seq(BarOf) /\ Len(h.bars) \in Nat /\ DOMAIN h.bars = 1 .. Len(h.bars)
      /\ \A k \in 1 .. Len(h.bars) - 1 : h.bars[k].kind = "memory64" => h.bars[k + 1].kind = "none"
  <2>1. /\ h.bars \in Seq(BarOf)
        /\ \A k \in 1 .. Len(h.bars) - 1 : h.bars[k].kind = "memory64" => h.bars[k + 1].kind = "none"
    BY ServicesAssumption, Zenon DEF Bus!BusAssumption, BarOf
  <2> QED
    BY <2>1
<1>4. Given(0)
  <2>1. RealTo(h, 0) = {}
    BY <1>3 DEF RealTo
  <2>2. IsFiniteSet(RealTo(h, 0)) /\ Cardinality(RealTo(h, 0)) = 0
    BY <2>1, FS_EmptySet, Zenon
  <2>3. after[0].descs = <<>> /\ Len(<<>>) = 0 /\ after[0].skip = FALSE
    BY <1>1
  <2>4. Len(after[0].descs) = Cardinality(RealTo(h, 0))
    BY <2>2, <2>3
  <2> QED
    BY <2>1, <2>2, <2>3, <2>4, Zenon
<1>5. ASSUME NEW bar \in 1 .. MaxBars, Given(bar - 1) PROVE Given(bar)
  <2> DEFINE was == after[bar - 1]
             v == Bus!HalpSizeBar(h, bar)
  <2>1. was \in LoopState /\ after[bar] = LoopStep(h, bar, was) /\ v \in BarOf /\ bar \in Nat \ {0} /\ bar - 1 \in Nat
    BY <1>1, <1>2, SizedIs
  <2>2. was.descs \in Seq(RangeOf) /\ was.skip \in BOOLEAN /\ (was.skip => v.kind = "none")
    BY <1>5, <2>1 DEF LoopState
  <2>3. CASE v.kind = "none"
    <3>1. RealTo(h, bar) = RealTo(h, bar - 1)
      BY <1>3, <2>1, <2>3 DEF RealTo, Bus!HalpSizeBar
    <3>2. after[bar].descs = was.descs /\ after[bar].skip = FALSE
      BY <2>1, <2>3 DEF LoopStep
    <3> QED
      BY <1>5, <3>1, <3>2
  <2>4. CASE v.kind # "none"
    <3>1. bar <= Len(h.bars) /\ v = h.bars[bar]
      BY <2>1, <2>4 DEF Bus!HalpSizeBar, Bus!NotThere
    <3>2. RealTo(h, bar) = RealTo(h, bar - 1) \cup {bar} /\ bar \notin RealTo(h, bar - 1)
      BY <1>3, <2>1, <2>4, <3>1 DEF RealTo
    <3>3. IsFiniteSet(RealTo(h, bar)) /\ Cardinality(RealTo(h, bar)) = Cardinality(RealTo(h, bar - 1)) + 1
      <4> DEFINE old == RealTo(h, bar - 1)
      <4>1. IsFiniteSet(old) /\ RealTo(h, bar) = old \cup {bar} /\ bar \notin old
        BY <1>5, <3>2
      <4> HIDE DEF old
      <4>2. IsFiniteSet(old \cup {bar}) /\ Cardinality(old \cup {bar}) = Cardinality(old) + 1
        BY <4>1, FS_AddElement
      <4> QED
        BY <4>1, <4>2, Zenon DEF old
    <3> DEFINE d == Bus!Descriptor(v)
    <3>4. d \in RangeOf
      BY <2>1, DescribedAs
    <3>5. after[bar].descs = Append(was.descs, d) /\ after[bar].skip = (v.kind \in {"memory64"})
      <4> DEFINE wide == v.kind \in {"memory64"}
                 more == Append(was.descs, d)
      <4>1. after[bar] = [skip |-> wide, descs |-> more]
        BY <2>1, <2>2, <2>4, Zenon DEF LoopStep
      <4> HIDE DEF wide, more
      <4>2. after[bar].skip = wide /\ after[bar].descs = more
        BY <4>1
      <4> QED
        BY <4>2 DEF wide, more
    <3>6. d = Bus!Descriptor(h.bars[bar])
      BY <3>1
    <3> HIDE DEF d
    <3>7. Len(after[bar].descs) = Len(was.descs) + 1 /\ after[bar].descs[Len(was.descs) + 1] = d
          /\ DOMAIN after[bar].descs = 1 .. Len(was.descs) + 1 /\ DOMAIN was.descs = 1 .. Len(was.descs) /\ Len(was.descs) \in Nat
          /\ \A n \in 1 .. Len(was.descs) : after[bar].descs[n] = was.descs[n]
      BY <2>2, <3>4, <3>5, SMTT(60)
    <3>8. Len(after[bar].descs) = Cardinality(RealTo(h, bar))
      <4>1. Len(was.descs) = Cardinality(RealTo(h, bar - 1))
        <5>1. Counted(bar - 1)
          <6> HIDE DEF Counted
          <6> QED
            BY <1>5
        <5> QED
          BY <5>1
      <4> QED
        BY <3>3, <3>7, <4>1
    <3>9. ASSUME NEW k \in RealTo(h, bar)
          PROVE  \E n \in DOMAIN after[bar].descs : after[bar].descs[n] = Bus!Descriptor(h.bars[k])
      <4>1. CASE k = bar
        <5>1. Len(was.descs) + 1 \in DOMAIN after[bar].descs
          BY <3>7
        <5> QED
          BY <3>6, <3>7, <4>1, <5>1
      <4>2. CASE k # bar
        <5>1. PICK n \in DOMAIN was.descs : was.descs[n] = Bus!Descriptor(h.bars[k])
          BY <1>5, <3>2, <4>2
        <5>2. n \in 1 .. Len(was.descs) /\ n \in 1 .. Len(was.descs) + 1
          BY <3>7, <5>1
        <5>3. n \in DOMAIN after[bar].descs /\ after[bar].descs[n] = was.descs[n]
          BY <3>7, <5>2, Zenon
        <5> QED
          BY <5>1, <5>3, Zenon
      <4> QED
        BY <4>1, <4>2
    <3>10. ASSUME after[bar].skip PROVE Bus!HalpSizeBar(h, bar + 1).kind = "none"
      <4>1. v.kind = "memory64"
        BY <3>5, <3>10
      <4> QED
        BY <1>3, <2>1, <3>1, <4>1 DEF Bus!HalpSizeBar, Bus!NotThere
    <3> QED
      BY <3>3, <3>8, <3>9, <3>10
  <2> QED
    BY <2>3, <2>4
<1>6. 0 \in S /\ \A bar \in 1 .. MaxBars : bar - 1 \in S => bar \in S
  <2>1. \A bar \in 1 .. MaxBars : bar - 1 \in 0 .. MaxBars /\ bar \in 0 .. MaxBars
    BY <1>2
  <2>2. 0 \in 0 .. MaxBars
    BY <1>2
  <2> HIDE DEF Given
  <2> QED
    BY <1>4, <1>5, <2>1, <2>2
<1>7. \A bar \in 0 .. MaxBars : bar \in S
  <2> HIDE DEF S
  <2> QED
    BY <1>2, <1>6, InductionTo
<1> QED
  BY <1>7

\* pci.c:243-264.
LEMMA DecodersGiven == BusInv => Bus!DecodersAreGiven
<1> SUFFICES ASSUME BusInv PROVE Bus!DecodersAreGiven
  OBVIOUS
<1> DEFINE real == {k \in DOMAIN function.bars : function.bars[k].kind # "none"}
<1>1. CASE function = Bus!NoFunction /\ resources = <<>>
  <2>1. function.bars = <<>> /\ function.line = 0
    BY <1>1 DEF Bus!NoFunction
  <2>2. real = {}
    BY <2>1
  <2> HIDE DEF real
  <2>3. Cardinality(real) = 0
    BY <2>2, FS_EmptySet
  <2>4. Len(resources) = 0 /\ MaxBars \in Nat
    BY <1>1, BusNumbers
  <2> QED
    BY <2>1, <2>2, <2>3, <2>4 DEF Bus!DecodersAreGiven, Bus!Cardinality, Cardinality, real
<1>2. CASE function \in Headers /\ resources = Bus!WithInterrupt(function, Bus!RangesOf(function))
  <2> DEFINE after == Bus!LoopOver(function, {"memory64"})
             made == after[MaxBars].descs
  <2>1. MaxBars \in Nat /\ MaxBars \in 0 .. MaxBars
    BY BusNumbers
  <2>2. /\ function.line \in Nat /\ Len(function.bars) <= MaxBars /\ function.bars \in Seq(BarOf)
        /\ DOMAIN function.bars = 1 .. Len(function.bars) /\ Len(function.bars) \in Nat
    <3>1. function.line \in Nat /\ Len(function.bars) <= MaxBars /\ function.bars \in Seq(BarOf)
      BY <1>2, ServicesAssumption, Zenon DEF Bus!BusAssumption, BarOf
    <3> QED
      BY <3>1
  <2>3. real = RealTo(function, MaxBars)
    BY <2>1, <2>2 DEF RealTo
  <2>4. after[MaxBars] \in LoopState
    <3> HIDE DEF after
    <3>1. after \in [0 .. MaxBars -> LoopState]
      BY <1>2, LoopRuns DEF after
    <3> QED
      BY <2>1, <3>1
  <2>5. /\ IsFiniteSet(real) /\ Len(made) = Cardinality(real)
        /\ \A k \in real : \E n \in DOMAIN made : made[n] = Bus!Descriptor(function.bars[k])
    <3> HIDE DEF after, real
    <3>1. \A bar \in 0 .. MaxBars :
           /\ IsFiniteSet(RealTo(function, bar)) /\ Len(after[bar].descs) = Cardinality(RealTo(function, bar))
           /\ \A k \in RealTo(function, bar) :
                \E n \in DOMAIN after[bar].descs : after[bar].descs[n] = Bus!Descriptor(function.bars[k])
      BY <1>2, LoopGives DEF after
    <3> QED
      BY <2>1, <2>3, <3>1, Zenon
  <2>6. made \in Seq(RangeOf) /\ Bus!RangesOf(function) = made
    BY <2>4 DEF LoopState, Bus!RangesOf
  <2> HIDE DEF after, made, real
  <2>7. Cardinality(real) <= MaxBars /\ Cardinality(real) \in Nat
    <3>1. real \subseteq 1 .. MaxBars
      BY <2>1, <2>2 DEF real
    <3>2. IsFiniteSet(1 .. MaxBars) /\ Cardinality(1 .. MaxBars) = MaxBars
      BY <2>1, FS_Interval
    <3> QED
      BY <2>1, <2>5, <3>1, <3>2, FS_Subset, FS_CardinalityType
  <2>8. DOMAIN made = 1 .. Len(made) /\ Len(made) \in Nat
    BY <2>6
  <2>9. CASE function.line = 0
    <3>1. resources = made
      BY <1>2, <2>6, <2>9 DEF Bus!WithInterrupt
    <3> QED
      BY <2>1, <2>5, <2>7, <2>9, <3>1 DEF Bus!DecodersAreGiven, Bus!Cardinality, Cardinality, real
  <2>10. CASE function.line # 0
    <3> DEFINE last == [kind |-> "interrupt", base |-> function.line, length |-> 0]
    <3>1. resources = Append(made, last)
      BY <1>2, <2>6, <2>10 DEF Bus!WithInterrupt
    <3> HIDE DEF last
    <3>2. Len(resources) = Len(made) + 1 /\ DOMAIN resources = 1 .. Len(made) + 1
          /\ \A n \in 1 .. Len(made) : resources[n] = made[n]
      BY <2>6, <3>1
    <3>3. \A n \in DOMAIN made : n \in DOMAIN resources /\ resources[n] = made[n]
      BY <2>8, <3>2
    <3>4. \A k \in real : \E n \in DOMAIN resources : resources[n] = Bus!Descriptor(function.bars[k])
      BY <2>5, <3>3
    <3>5. Len(resources) = Cardinality(real) + 1 /\ Len(resources) <= MaxBars + 1
      BY <2>1, <2>5, <2>7, <3>2
    <3> QED
      BY <2>10, <3>4, <3>5 DEF Bus!DecodersAreGiven, Bus!Cardinality, Cardinality, real
  <2> QED
    BY <2>9, <2>10
<1> QED
  BY <1>1, <1>2 DEF BusInv

LEMMA BusInvariant == ServicesSpec => []BusInv
<1>1. ServicesInit => BusInv
  BY BusStart, Zenon DEF ServicesInit
<1>2. BusInv /\ [ServicesNext]_servicesVars => BusInv'
  BY BusSteps, BusStep, Zenon
<1> QED
  BY <1>1, <1>2, PTL DEF ServicesSpec

\* What a driver is told of a device leads to that device: no bus address is
\* found in RAM, a range both of whose ends are translated is whole, and every
\* address a function decodes is given to its driver once (pci.c:130-279).
THEOREM DriversFindTheirDevice == ServicesSpec => []LeadsToTheDevice
<1>1. BusInv => LeadsToTheDevice
  BY BusAvoidsRam, RangesAreWhole, DecodersGiven, Zenon DEF LeadsToTheDevice, Bus!LeadsToTheDevice
<1> QED
  BY <1>1, BusInvariant, PTL

-----------------------------------------------------------------------------
(* The firmware's memory descriptors. *)

\* A step of the firmware's memory service, or none.
LEMMA ArcSteps == [ServicesNext]_servicesVars => Arc!Next \/ UNCHANGED memoryVars
BY Zenon DEF ServicesNext, servicesVars

MemoryType == {"permanent", "temporary", "program", "free"}
DescOf == [type : MemoryType, base : Nat, count : Nat]
RangeTodo == [type : {"free", "temporary"}, base : Nat, end : Nat]

\* A page with a byte of an available range.
Overlaps(a, p) == a[1] < (p + 1) * PageBytes /\ p * PageBytes < a[1] + a[2]
IsAvailable(p) == \E n \in 1 .. Len(machine.available) : Overlaps(machine.available[n], p)

\* The installed pages memory_init has come past, typed or about to be.
Reached == {p \in Nat : \/ \E n \in 1 .. bank - 1 : n <= Len(machine.reg) /\ p \in Arc!First(n) .. Arc!End(n) - 1
                        \/ bank <= Len(machine.reg) /\ p \in Arc!First(bank) .. walked - 1}

\* What the variables of memory_init hold, and the rows and cells it is at.
ArcTypes ==
  /\ machine \in Machines
  /\ bank \in 1 .. Len(machine.reg) + 1 /\ slot \in 1 .. Len(machine.available) + 1 /\ walked \in Nat
  /\ descs \in Seq(DescOf) /\ todo \in Seq(RangeTodo)

\* Descriptors that end below a page, that ascend, and two of which differ in
\* type where they touch.
Below(s, page) == \A k \in DOMAIN s : s[k].base + s[k].count <= page
Ascending(s) == \A j, k \in DOMAIN s : j < k => s[j].base + s[j].count <= s[k].base
Merged(s) == \A k \in DOMAIN s : k + 1 \in DOMAIN s /\ s[k].base + s[k].count = s[k + 1].base => s[k].type # s[k + 1].type

\* What is to be typed lies behind what is, below where memory_init has come.
ArcOrder ==
  /\ bank <= Len(machine.reg) => Arc!First(bank) <= walked /\ walked <= Arc!End(bank)
  /\ Len(todo) <= 2
  /\ \A i \in DOMAIN todo : todo[i].base < todo[i].end /\ (bank <= Len(machine.reg) => todo[i].end <= walked)
  /\ \A i, j \in DOMAIN todo : i < j => todo[i].end <= todo[j].base
  /\ \A i \in DOMAIN todo : Below(descs, todo[i].base)
  /\ bank <= Len(machine.reg) => Below(descs, walked)
  /\ Ascending(descs) /\ Merged(descs)

\* The pages come past are those typed and those to be typed.
ArcCover ==
  \A p \in Nat : p \in Reached <=> ( \/ \E k \in DOMAIN descs : p \in Arc!Pages(descs[k])
                                     \/ \E i \in DOMAIN todo : p \in todo[i].base .. todo[i].end - 1 )

\* The available ranges gone past lie behind, or beyond the bank.
ArcPassed ==
  bank <= Len(machine.reg) =>
    \A n \in 1 .. slot - 1 :
      LET a == machine.available[n]
      IN  Arc!PageUp(a[1] + a[2]) <= walked \/ Arc!End(bank) <= walked \/ Arc!End(bank) <= Arc!Page(a[1])

\* What is to be typed as free is available, and what is typed has the type of
\* its use.
ArcUses ==
  /\ \A i \in DOMAIN todo : \A p \in todo[i].base .. todo[i].end - 1 : todo[i].type = "free" <=> IsAvailable(p)
  /\ \A k \in DOMAIN descs : \A p \in Arc!Pages(descs[k]) : descs[k].type = Arc!UseOf(p)

\* The inductive invariant of memory_init.
ArcInv == ArcTypes /\ ArcOrder /\ ArcCover /\ ArcPassed /\ ArcUses

LEMMA ArcNumbers == PageBytes \in Nat \ {0} /\ Permanent \in Nat /\ Kseg0 \in Nat /\ MaxDesc \in Nat
BY ServicesAssumption, Zenon DEF Arc!ArcMemoryAssumption

\* Banks and available ranges ascend, in bytes, and what the program takes are
\* pages.
LEMMA MachineIs ==
  ASSUME machine \in Machines
  PROVE  /\ machine.reg \in Seq(Nat \X Nat) /\ Len(machine.reg) \in Nat \ {0}
         /\ machine.available \in Seq(Nat \X Nat) /\ Len(machine.available) \in Nat
         /\ machine.program[1] \in Nat /\ machine.program[2] \in Nat /\ machine.program[1] + machine.program[2] <= Kseg0
         /\ \A n \in 1 .. Len(machine.reg) :
              /\ machine.reg[n][1] \in Nat /\ machine.reg[n][2] \in Nat
              /\ \A m \in 1 .. Len(machine.reg) : n < m => machine.reg[n][1] + machine.reg[n][2] <= machine.reg[m][1]
         /\ \A n \in 1 .. Len(machine.available) :
              /\ machine.available[n][1] \in Nat /\ machine.available[n][2] \in Nat
              /\ \A m \in 1 .. Len(machine.available) :
                   n < m => machine.available[n][1] + machine.available[n][2] <= machine.available[m][1]
<1>1. /\ machine.reg \in Seq(Nat \X Nat) /\ machine.reg # <<>> /\ Arc!Ascend(machine.reg)
      /\ machine.available \in Seq(Nat \X Nat) /\ Arc!Ascend(machine.available)
      /\ machine.program \in Nat \X Nat /\ machine.program[1] + machine.program[2] <= Kseg0
  BY ServicesAssumption, Zenon DEF Arc!ArcMemoryAssumption
<1>2. ASSUME NEW s, s \in Seq(Nat \X Nat), Arc!Ascend(s)
      PROVE  \A n \in 1 .. Len(s) : /\ s[n][1] \in Nat /\ s[n][2] \in Nat
                                    /\ \A m \in 1 .. Len(s) : n < m => s[n][1] + s[n][2] <= s[m][1]
  <2>1. DOMAIN s = 1 .. Len(s) /\ \A n \in 1 .. Len(s) : s[n] \in Nat \X Nat
    BY <1>2
  <2>2. \A e \in Nat \X Nat : e[1] \in Nat /\ e[2] \in Nat
    OBVIOUS
  <2> QED
    BY <1>2, <2>1, <2>2 DEF Arc!Ascend
<1>3. Len(machine.reg) \in Nat \ {0} /\ Len(machine.available) \in Nat
  BY <1>1
<1>4. machine.program[1] \in Nat /\ machine.program[2] \in Nat
  BY <1>1
<1> QED
  BY <1>1, <1>2, <1>3, <1>4

\* The pages below a byte's, and those with a byte below it.
LEMMA PageCuts ==
  ASSUME NEW b \in Nat, NEW p \in Nat
  PROVE  /\ Arc!Page(b) \in Nat /\ (p < Arc!Page(b) <=> (p + 1) * PageBytes <= b)
         /\ Arc!PageUp(b) \in Nat /\ (p < Arc!PageUp(b) <=> p * PageBytes < b)
<1> DEFINE w == PageBytes
<1>1. w \in Nat \ {0}
  BY ArcNumbers
<1> HIDE DEF w
<1>2. \A q, r \in Nat : q <= r => q * w <= r * w
  <2>1. ASSUME NEW q \in Nat, NEW r \in Nat, q <= r PROVE q * w <= r * w
    <3>1. r - q \in Nat /\ (r - q) * w \in Nat
      BY <1>1, <2>1
    <3>2. r * w = q * w + (r - q) * w
      BY <1>1, <3>1
    <3>3. q * w \in Nat
      BY <1>1
    <3> QED
      BY <3>1, <3>2, <3>3
  <2> QED
    BY <2>1
<1>3. p < b \div w <=> (p + 1) * w <= b
  <2> DEFINE d == b \div w
  <2>1. d \in Nat /\ d * w <= b /\ b < (d + 1) * w
    BY <1>1, Quotient
  <2> HIDE DEF d
  <2>2. d * w \in Nat /\ (d + 1) * w \in Nat /\ (p + 1) * w \in Nat
    BY <1>1, <2>1
  <2>3. CASE p < d
    <3>1. (p + 1) * w <= d * w
      BY <1>2, <2>1, <2>3
    <3> QED
      BY <2>1, <2>2, <2>3, <3>1 DEF d
  <2>4. CASE d <= p
    <3>1. (d + 1) * w <= (p + 1) * w
      BY <1>2, <2>1, <2>4
    <3> QED
      BY <2>1, <2>2, <2>4, <3>1 DEF d
  <2> QED
    BY <2>1, <2>3, <2>4
<1>4. p < (b + w - 1) \div w <=> p * w < b
  <2> DEFINE n == b + w - 1
             d == n \div w
  <2>1. n \in Nat
    BY <1>1
  <2>2. d \in Nat /\ d * w <= n /\ n < (d + 1) * w
    <3> HIDE DEF n
    <3> QED
      BY <1>1, <2>1, Quotient
  <2> HIDE DEF d
  <2>3. d * w \in Nat /\ (p + 1) * w = p * w + w /\ (d + 1) * w = d * w + w /\ p * w \in Nat
    BY <1>1, <2>2
  <2>4. CASE p < d
    <3>1. (p + 1) * w <= d * w
      BY <1>2, <2>2, <2>4
    <3> QED
      BY <1>1, <2>2, <2>3, <2>4, <3>1 DEF d
  <2>5. CASE d <= p
    <3>1. d * w <= p * w
      BY <1>2, <2>2, <2>5
    <3> QED
      BY <1>1, <2>2, <2>3, <2>5, <3>1 DEF d
  <2> QED
    BY <2>2, <2>4, <2>5
<1>5. b \div w \in Nat /\ (b + w - 1) \div w \in Nat
  BY <1>1
<1> QED
  BY <1>3, <1>4, <1>5, Zenon DEF w, Arc!Page, Arc!PageUp

\* Page and PageUp grow with the byte.
LEMMA PagesGrow ==
  ASSUME NEW b \in Nat, NEW c \in Nat, b <= c
  PROVE  /\ Arc!Page(b) \in Nat /\ Arc!PageUp(b) \in Nat /\ Arc!Page(c) \in Nat /\ Arc!PageUp(c) \in Nat
         /\ Arc!Page(b) <= Arc!Page(c) /\ Arc!PageUp(b) <= Arc!PageUp(c) /\ Arc!Page(b) <= Arc!PageUp(b)
<1> DEFINE w == PageBytes
<1>1. w \in Nat \ {0}
  BY ArcNumbers
<1> HIDE DEF w
<1>2. \A p \in Nat : p * w \in Nat /\ (p + 1) * w = p * w + w
  BY <1>1
<1>3. \A n, m \in Nat : (\A p \in Nat : p < n => p < m) => n <= m
  <2> SUFFICES ASSUME NEW n \in Nat, NEW m \in Nat, \A p \in Nat : p < n => p < m, m < n PROVE FALSE
    OBVIOUS
  <2> QED
    OBVIOUS
<1>4. \A p \in Nat : /\ Arc!Page(b) \in Nat /\ (p < Arc!Page(b) <=> (p + 1) * w <= b)
                     /\ Arc!PageUp(b) \in Nat /\ (p < Arc!PageUp(b) <=> p * w < b)
                     /\ Arc!Page(c) \in Nat /\ (p < Arc!Page(c) <=> (p + 1) * w <= c)
                     /\ Arc!PageUp(c) \in Nat /\ (p < Arc!PageUp(c) <=> p * w < c)
  BY PageCuts DEF w
<1>5. \A p \in Nat : p < Arc!Page(b) => p < Arc!Page(c) /\ p < Arc!PageUp(b)
  BY <1>1, <1>2, <1>4
<1>6. \A p \in Nat : p < Arc!PageUp(b) => p < Arc!PageUp(c)
  BY <1>2, <1>4
<1>7. Arc!Page(b) \in Nat /\ Arc!PageUp(b) \in Nat /\ Arc!Page(c) \in Nat /\ Arc!PageUp(c) \in Nat
  <2>1. 0 \in Nat
    OBVIOUS
  <2> QED
    BY <1>4, <2>1
<1> QED
  BY <1>3, <1>5, <1>6, <1>7

\* The banks ascend, page by page.
LEMMA BanksAscend ==
  ASSUME machine \in Machines
  PROVE  \A n \in 1 .. Len(machine.reg) :
           /\ Arc!First(n) \in Nat /\ Arc!End(n) \in Nat /\ Arc!First(n) <= Arc!End(n)
           /\ \A m \in 1 .. Len(machine.reg) : n < m => Arc!End(n) <= Arc!First(m)
<1> SUFFICES ASSUME NEW n \in 1 .. Len(machine.reg)
             PROVE  /\ Arc!First(n) \in Nat /\ Arc!End(n) \in Nat /\ Arc!First(n) <= Arc!End(n)
                    /\ \A m \in 1 .. Len(machine.reg) : n < m => Arc!End(n) <= Arc!First(m)
  OBVIOUS
<1> DEFINE lo == machine.reg[n][1]
           hi == machine.reg[n][1] + machine.reg[n][2]
<1>1. lo \in Nat /\ hi \in Nat /\ lo <= hi
  <2>1. machine.reg[n][1] \in Nat /\ machine.reg[n][2] \in Nat
    BY MachineIs, Zenon
  <2> QED
    BY <2>1
<1>2. ASSUME NEW m \in 1 .. Len(machine.reg), n < m PROVE Arc!End(n) <= Arc!First(m)
  <2> DEFINE next == machine.reg[m][1]
  <2>1. next \in Nat /\ hi <= next
    BY <1>2, MachineIs
  <2> HIDE DEF hi, next
  <2>2. Arc!Page(hi) <= Arc!Page(next)
    BY <1>1, <2>1, PagesGrow
  <2> QED
    BY <2>2 DEF hi, next, Arc!End, Arc!First
<1> HIDE DEF lo, hi
<1>3. Arc!Page(lo) \in Nat /\ Arc!Page(hi) \in Nat /\ Arc!Page(lo) <= Arc!Page(hi)
  BY <1>1, PagesGrow
<1> QED
  BY <1>2, <1>3 DEF lo, hi, Arc!End, Arc!First

\* The pages of an available range.
LEMMA OverlapsIs ==
  ASSUME NEW a \in Nat \X Nat, NEW p \in Nat
  PROVE  Overlaps(a, p) <=> Arc!Page(a[1]) <= p /\ p < Arc!PageUp(a[1] + a[2])
<1>1. a[1] \in Nat /\ a[1] + a[2] \in Nat
  OBVIOUS
<1>2. PageBytes \in Nat \ {0} /\ (p + 1) * PageBytes \in Nat
  BY ArcNumbers
<1> DEFINE b == a[1]
           c == a[1] + a[2]
           n == (p + 1) * PageBytes
<1> HIDE DEF b, c, n
<1>3. /\ Arc!Page(b) \in Nat /\ (p < Arc!Page(b) <=> n <= b) /\ (p < Arc!PageUp(c) <=> p * PageBytes < c)
  BY <1>1, PageCuts DEF b, c, n
<1>4. b < n <=> Arc!Page(b) <= p
  BY <1>1, <1>2, <1>3 DEF b, n
<1> QED
  BY <1>3, <1>4 DEF Overlaps, b, c, n

\* A descriptor is appended, or the last one grows over the range (memory.c:24-34).
Appended(s, type, base, len, more) ==
  /\ more = Append(s, [type |-> type, base |-> base, count |-> len])
  /\ s = <<>> \/ s[Len(s)].type # type \/ s[Len(s)].base + s[Len(s)].count # base
Grown(s, type, base, len, more) ==
  /\ Len(s) > 0 /\ Len(more) = Len(s)
  /\ \A k \in 1 .. Len(s) - 1 : more[k] = s[k]
  /\ s[Len(s)].type = type /\ s[Len(s)].base + s[Len(s)].count = base
  /\ more[Len(s)] = [type |-> type, base |-> s[Len(s)].base, count |-> s[Len(s)].count + len]

\* add appends a descriptor, or lengthens the last (memory.c:24-34).
LEMMA AddIs ==
  ASSUME NEW given_ \in Seq(DescOf), NEW type \in MemoryType, NEW base \in Nat, NEW len \in Nat,
         NEW more, more = Arc!add(given_, type, base, len)
  PROVE  more \in Seq(DescOf) /\ (Appended(given_, type, base, len, more) \/ Grown(given_, type, base, len, more))
<1> DEFINE n == Len(given_)
           last == given_[n]
           new_ == [type |-> type, base |-> base, count |-> len]
<1>1. new_ \in DescOf
  BY DEF DescOf
<1>2. CASE given_ # <<>> /\ last.type = type /\ last.base + last.count = base
  <2>1. n \in Nat \ {0} /\ last \in DescOf /\ DOMAIN given_ = 1 .. n
    BY <1>2
  <2>2. last.base \in Nat /\ last.count \in Nat /\ last = [type |-> type, base |-> last.base, count |-> last.count]
    BY <1>2, <2>1 DEF DescOf
  <2> DEFINE grown == [type |-> type, base |-> last.base, count |-> last.count + len]
  <2>3. grown \in DescOf
    BY <2>2 DEF DescOf
  <2>4. more = [given_ EXCEPT ![n] = [given_[n] EXCEPT !.count = given_[n].count + len]]
    BY <1>2, Zenon DEF Arc!add
  <2>5. [last EXCEPT !.count = last.count + len] = grown
    BY <2>2
  <2>6. more = [given_ EXCEPT ![n] = grown]
    BY <2>4, <2>5, Zenon
  <2> HIDE DEF grown
  <2>7. more \in Seq(DescOf) /\ Len(more) = n /\ more[n] = grown /\ \A k \in 1 .. n - 1 : more[k] = given_[k]
    <3>1. n \in 1 .. Len(given_)
      BY <2>1
    <3> HIDE DEF n
    <3>2. LET e == [given_ EXCEPT ![n] = grown]
          IN  e \in Seq(DescOf) /\ Len(e) = Len(given_) /\ \A j \in 1 .. Len(given_) : e[j] = IF j = n THEN grown ELSE given_[j]
      BY <2>3, <3>1, ExceptSeq
    <3> QED
      BY <2>6, <3>1, <3>2 DEF n
  <2>8. n > 0
    BY <2>1
  <2> QED
    BY <1>2, <2>7, <2>8, Zenon DEF grown, Grown
<1>3. CASE ~(given_ # <<>> /\ last.type = type /\ last.base + last.count = base)
  <2>1. more = Append(given_, new_)
    BY <1>3, Zenon DEF Arc!add
  <2> HIDE DEF new_
  <2>2. more \in Seq(DescOf)
    BY <1>1, <2>1
  <2> QED
    BY <1>3, <2>1, <2>2, Zenon DEF new_, Appended
<1> QED
  BY <1>2, <1>3, Zenon

\* more holds what s does and the pages base .. top - 1 behind it, of that type.
Extends(s, type, base, top, more) ==
  /\ more \in Seq(DescOf) /\ Below(more, top) /\ Ascending(more) /\ Merged(more)
  /\ \A p \in Nat : (\E k \in DOMAIN more : p \in Arc!Pages(more[k]))
                      <=> (\E k \in DOMAIN s : p \in Arc!Pages(s[k])) \/ p \in base .. top - 1
  /\ \A k \in DOMAIN more : \A p \in Arc!Pages(more[k]) :
       \/ \E j \in DOMAIN s : p \in Arc!Pages(s[j]) /\ s[j].type = more[k].type
       \/ (p \in base .. top - 1 /\ more[k].type = type)

\* Either way the descriptors ascend and are merged, and have the pages they had
\* and the added ones.
LEMMA AddKeeps ==
  ASSUME NEW given_ \in Seq(DescOf), NEW type \in MemoryType, NEW base \in Nat, NEW len \in Nat,
         NEW more, more = Arc!add(given_, type, base, len),
         Below(given_, base), Ascending(given_), Merged(given_)
  PROVE  Extends(given_, type, base, base + len, more)
<1> DEFINE n == Len(given_)
           added == [type |-> type, base |-> base, count |-> len]
<1>0. more \in Seq(DescOf) /\ (Appended(given_, type, base, len, more) \/ Grown(given_, type, base, len, more))
  BY AddIs
<1>1. more \in Seq(DescOf) /\ n \in Nat /\ DOMAIN given_ = 1 .. n
  BY <1>0
<1>6. \/ /\ more = Append(given_, added)
         /\ given_ = <<>> \/ given_[n].type # type \/ given_[n].base + given_[n].count # base
      \/ /\ n > 0 /\ Len(more) = n
         /\ \A k \in 1 .. n - 1 : more[k] = given_[k]
         /\ given_[n].type = type /\ given_[n].base + given_[n].count = base
         /\ more[n] = [type |-> type, base |-> given_[n].base, count |-> given_[n].count + len]
  BY <1>0, Zenon DEF Appended, Grown
<1>5. n = 0 <=> given_ = <<>>
  BY <1>1
<1>7. Len(given_) = n
  OBVIOUS
<1>8. base + len - 1 = (base + len) - 1
  OBVIOUS
<1> HIDE DEF n
<1>2. \A k \in 1 .. n : /\ given_[k] \in DescOf /\ given_[k].base \in Nat /\ given_[k].count \in Nat
                        /\ given_[k].base + given_[k].count <= base
  <2>1. \A k \in 1 .. n : given_[k] \in DescOf
    BY <1>1, <1>7
  <2>2. \A d \in DescOf : d.base \in Nat /\ d.count \in Nat
    BY DEF DescOf
  <2> QED
    BY <1>1, <2>1, <2>2 DEF Below
<1>3. CASE more = Append(given_, added) /\ (n = 0 \/ given_[n].type # type \/ given_[n].base + given_[n].count # base)
  <2>1. /\ DOMAIN more = 1 .. n + 1 /\ more[n + 1] = added /\ \A k \in 1 .. n : more[k] = given_[k]
        /\ added.base = base /\ added.count = len /\ added.type = type
    BY <1>1, <1>3, <1>7
  <2>2. \A k \in 1 .. n + 1 : k = n + 1 \/ k \in 1 .. n
    BY <1>1
  <2> HIDE DEF added
  <2>3. Below(more, base + len)
    BY <1>2, <2>1, <2>2 DEF Below
  <2>4. Ascending(more)
    <3> SUFFICES ASSUME NEW j \in 1 .. n + 1, NEW k \in 1 .. n + 1, j < k PROVE more[j].base + more[j].count <= more[k].base
      BY <2>1 DEF Ascending
    <3>1. j \in 1 .. n
      BY <1>1
    <3> QED
      BY <1>1, <1>2, <2>1, <2>2, <3>1 DEF Ascending
  <2>5. Merged(more)
    <3> SUFFICES ASSUME NEW k \in 1 .. n + 1, k + 1 \in 1 .. n + 1, more[k].base + more[k].count = more[k + 1].base
                 PROVE  more[k].type # more[k + 1].type
      BY <2>1 DEF Merged
    <3>1. k \in 1 .. n /\ (k + 1 \in 1 .. n \/ k = n)
      BY <1>1
    <3>2. CASE k = n
      BY <1>3, <2>1, <3>1, <3>2
    <3>3. CASE k + 1 \in 1 .. n
      BY <1>1, <2>1, <3>1, <3>3 DEF Merged
    <3> QED
      BY <3>1, <3>2, <3>3
  <2>6. Arc!Pages(more[n + 1]) = base .. base + len - 1
    BY <2>1 DEF Arc!Pages
  <2>7. n + 1 \in 1 .. n + 1 /\ \A k \in 1 .. n : k \in 1 .. n + 1
    BY <1>1
  <2> QED
    <3>1. \A p \in Nat : (\E k \in DOMAIN more : p \in Arc!Pages(more[k]))
                            <=> (\E k \in DOMAIN given_ : p \in Arc!Pages(given_[k])) \/ p \in base .. base + len - 1
      BY <1>1, <2>1, <2>2, <2>6, <2>7, Zenon
    <3>2. \A k \in DOMAIN more : \A p \in Arc!Pages(more[k]) :
            \/ \E j \in DOMAIN given_ : p \in Arc!Pages(given_[j]) /\ given_[j].type = more[k].type
            \/ (p \in base .. base + len - 1 /\ more[k].type = type)
      BY <1>1, <2>1, <2>2, <2>6, <2>7, Zenon
    <3> QED
      BY <1>1, <1>8, <2>3, <2>4, <2>5, <3>1, <3>2, ZenonT(60) DEF Extends
<1>4. CASE /\ n > 0 /\ Len(more) = n
           /\ \A k \in 1 .. n - 1 : more[k] = given_[k]
           /\ given_[n].type = type /\ given_[n].base + given_[n].count = base
           /\ more[n] = [type |-> type, base |-> given_[n].base, count |-> given_[n].count + len]
  <2>0. n > 0 /\ Len(more) = n
    BY <1>4, Zenon
  <2>1. DOMAIN more = 1 .. n /\ n \in 1 .. n /\ \A k \in 1 .. n : k = n \/ k \in 1 .. n - 1
    BY <1>1, <2>0
  <2>2. more[n].type = type /\ more[n].base = given_[n].base /\ more[n].count = given_[n].count + len
    BY <1>4
  <2>3. \A k \in 1 .. n - 1 : more[k] = given_[k]
    BY <1>4
  <2>4. \A k \in 1 .. n : more[k].base = given_[k].base /\ more[k].type = given_[k].type
    BY <1>4, <2>1, <2>2, <2>3
  <2>5. Below(more, base + len)
    <3>1. given_[n].base + (given_[n].count + len) = base + len /\ given_[n].base \in Nat /\ given_[n].count \in Nat
      <4>1. given_[n].base + given_[n].count = base
        BY <1>4, Zenon
      <4>2. given_[n].base \in Nat /\ given_[n].count \in Nat
        BY <1>2, <2>1, Zenon
      <4> QED
        BY <4>1, <4>2
    <3>2. \A k \in 1 .. n - 1 : given_[k].base + given_[k].count <= base + len
      BY <1>2, <1>1
    <3>3. \A k \in 1 .. n : more[k].base + more[k].count <= base + len
      <4> SUFFICES ASSUME NEW k \in 1 .. n PROVE more[k].base + more[k].count <= base + len
        OBVIOUS
      <4>1. CASE k = n
        <5>1. more[k].base = given_[n].base /\ more[k].count = given_[n].count + len
          BY <2>2, <4>1, Zenon
        <5>2. given_[n].base + (given_[n].count + len) <= base + len
          BY <3>1
        <5> QED
          BY <5>1, <5>2, Zenon
      <4>2. CASE k \in 1 .. n - 1
        BY <2>3, <3>2, <4>2, Zenon
      <4> QED
        BY <2>1, <4>1, <4>2
    <3> QED
      BY <2>1, <3>3 DEF Below
  <2>6. Ascending(more)
    <3> SUFFICES ASSUME NEW j \in 1 .. n, NEW k \in 1 .. n, j < k PROVE more[j].base + more[j].count <= more[k].base
      BY <2>1 DEF Ascending
    <3>1. j \in 1 .. n - 1
      BY <1>1
    <3> QED
      BY <1>1, <2>3, <2>4, <3>1 DEF Ascending
  <2>7. Merged(more)
    <3> SUFFICES ASSUME NEW k \in 1 .. n, k + 1 \in 1 .. n, more[k].base + more[k].count = more[k + 1].base
                 PROVE  more[k].type # more[k + 1].type
      BY <2>1 DEF Merged
    <3>1. k \in 1 .. n - 1
      BY <1>1
    <3> QED
      BY <1>1, <2>3, <2>4, <3>1 DEF Merged
  <2>8. \A p \in Nat : p \in Arc!Pages(more[n]) <=> p \in Arc!Pages(given_[n]) \/ p \in base .. base + len - 1
    <3> DEFINE b == given_[n].base
               c == given_[n].count
    <3>1. b \in Nat /\ c \in Nat /\ b + c = base /\ more[n].base = b /\ more[n].count = c + len
      BY <1>2, <1>4, <2>1, <2>2
    <3>2. \A p \in Nat : (p \in Arc!Pages(more[n]) <=> p \in b .. b + (c + len) - 1)
                         /\ (p \in Arc!Pages(given_[n]) <=> p \in b .. b + c - 1)
      <4>1. Arc!Pages(more[n]) = b .. b + (c + len) - 1 /\ Arc!Pages(given_[n]) = b .. b + c - 1
        BY <3>1, Zenon DEF Arc!Pages
      <4> QED
        BY <4>1
    <3> HIDE DEF b, c
    <3> QED
      BY <3>1, <3>2
  <2>9. \A p \in Nat : (\E k \in 1 .. n : p \in Arc!Pages(more[k]))
                         <=> (\E k \in 1 .. n : p \in Arc!Pages(given_[k])) \/ p \in base .. base + len - 1
    BY <2>1, <2>3, <2>8, Zenon
  <2>10. ASSUME NEW k \in 1 .. n, NEW p \in Arc!Pages(more[k])
         PROVE  \/ \E j \in 1 .. n : p \in Arc!Pages(given_[j]) /\ given_[j].type = more[k].type
                \/ (p \in base .. base + len - 1 /\ more[k].type = type)
    <3>1. p \in Nat
      <4>1. p \in more[k].base .. more[k].base + more[k].count - 1
        BY Zenon DEF Arc!Pages
      <4>2. more[k].base \in Nat
        BY <1>2, <2>4, Zenon
      <4> QED
        BY <4>1, <4>2
    <3> QED
      BY <2>1, <2>2, <2>3, <2>4, <2>8, <3>1, Zenon
  <2> QED
    BY <1>1, <1>8, <2>1, <2>5, <2>6, <2>7, <2>9, <2>10, ZenonT(60) DEF Extends
<1> QED
  BY <1>3, <1>4, <1>5, <1>6

\* A page's use, and the types of the pages of a range up to where it may
\* change (memory.c:36-63).
Use(p) ==
  IF p < Permanent THEN "permanent"
  ELSE IF p \in machine.program[1] .. machine.program[1] + machine.program[2] - 1 THEN "program"
  ELSE IF p < Kseg0 /\ IsAvailable(p) THEN "free" ELSE "temporary"

\* UseOf in the names of this module.
LEMMA UseIs == \A p \in Nat : Arc!UseOf(p) = Use(p)
BY Zenon DEF Arc!UseOf, Use, IsAvailable, Overlaps

\* Where type_range cuts a range, one use ends, or the range (memory.c:36-63).
LEMMA CutIs ==
  ASSUME machine \in Machines, NEW r \in RangeTodo, r.base < r.end,
         \A p \in r.base .. r.end - 1 : r.type = "free" <=> IsAvailable(p),
         NEW cut, cut = Arc!Cut(r.base, r.end, r.type)
  PROVE  /\ cut.type \in MemoryType /\ cut.at \in Nat /\ r.base < cut.at /\ cut.at <= r.end
         /\ \A p \in r.base .. cut.at - 1 : Arc!UseOf(p) = cut.type
<1> DEFINE base == r.base
           end == r.end
           from == machine.program[1]
           to == from + machine.program[2]
           free == IF r.type = "free" /\ end > Kseg0 THEN Kseg0 ELSE end
<1>1. /\ base \in Nat /\ end \in Nat /\ base < end /\ r.type \in {"free", "temporary"}
      /\ Permanent \in Nat /\ Kseg0 \in Nat
  BY ArcNumbers DEF RangeTodo
<1>2. from \in Nat /\ to \in Nat /\ to <= Kseg0
  <2>1. machine.program[1] \in Nat /\ machine.program[2] \in Nat /\ machine.program[1] + machine.program[2] <= Kseg0
    BY MachineIs
  <2> QED
    BY <2>1
<1>3. \A p \in Nat : Arc!UseOf(p) = (IF p < Permanent THEN "permanent"
                                     ELSE IF p \in from .. to - 1 THEN "program"
                                     ELSE IF p < Kseg0 /\ IsAvailable(p) THEN "free" ELSE "temporary")
  <2>1. machine.program[1] \in Nat /\ machine.program[2] \in Nat
    BY MachineIs
  <2>2. machine.program[1] + machine.program[2] - 1 = to - 1
    BY <2>1
  <2> QED
    BY <2>2, UseIs, Zenon DEF Use
<1>4. cut = (IF base < Permanent THEN [type |-> "permanent", at |-> IF Permanent < end THEN Permanent ELSE end]
             ELSE IF r.type = "free" /\ base >= Kseg0 THEN [type |-> "temporary", at |-> end]
             ELSE IF base \in from .. to - 1 THEN [type |-> "program", at |-> IF to < free THEN to ELSE free]
             ELSE [type |-> r.type, at |-> Arc!UpToProgram(base, free)])
  BY Zenon DEF Arc!Cut
<1>5. \A p \in base .. end - 1 : p \in Nat /\ (r.type = "free" <=> IsAvailable(p))
  BY <1>1
<1> HIDE DEF base, end, from, to
<1>6. CASE base < Permanent
  BY <1>1, <1>3, <1>4, <1>6 DEF MemoryType, base, end
<1>7. CASE ~(base < Permanent) /\ r.type = "free" /\ base >= Kseg0
  <2>1. cut.type = "temporary" /\ cut.at = end
    BY <1>4, <1>7
  <2> QED
    BY <1>1, <1>2, <1>3, <1>7, <2>1 DEF MemoryType, base, end
<1>8. CASE ~(base < Permanent) /\ ~(r.type = "free" /\ base >= Kseg0) /\ base \in from .. to - 1
  <2>1. cut.type = "program" /\ cut.at = IF to < free THEN to ELSE free
    BY <1>4, <1>8
  <2> QED
    BY <1>1, <1>2, <1>3, <1>8, <2>1 DEF MemoryType, base, end
<1>9. CASE ~(base < Permanent) /\ ~(r.type = "free" /\ base >= Kseg0) /\ base \notin from .. to - 1
  <2>1. cut.type = r.type /\ cut.at = Arc!UpToProgram(base, free)
    BY <1>4, <1>9
  <2>2. cut.at = IF base < from /\ from < free THEN from ELSE free
    BY <2>1 DEF Arc!UpToProgram, from
  <2>3. cut.at \in Nat /\ base < cut.at /\ cut.at <= end /\ (r.type = "free" => cut.at <= Kseg0)
    BY <1>1, <1>2, <1>9, <2>2
  <2>4. \A p \in base .. cut.at - 1 : p \in Nat /\ ~(p < Permanent) /\ p \notin from .. to - 1 /\ p \in base .. end - 1
    BY <1>1, <1>2, <1>9, <2>2, <2>3
  <2>5. ASSUME NEW p \in base .. cut.at - 1 PROVE Arc!UseOf(p) = cut.type
    <3>1. p < Kseg0 /\ r.type = "free" <=> p < Kseg0 /\ IsAvailable(p)
      BY <1>5, <2>4
    <3>2. r.type = "free" => p < Kseg0
      BY <1>1, <2>3
    <3> QED
      BY <1>1, <1>3, <2>1, <2>4, <3>1, <3>2
  <2> QED
    BY <1>1, <2>1, <2>3, <2>5 DEF MemoryType, base, end
<1> QED
  BY <1>6, <1>7, <1>8, <1>9

\* What is left of the ranges to be typed when the first is, up to a page.
Left(s, at, rest, gone) ==
  /\ rest \in Seq(RangeTodo) /\ Len(rest) = Len(s) - gone /\ DOMAIN rest = 1 .. Len(s) - gone
  /\ \A i \in DOMAIN rest : /\ i + gone \in DOMAIN s
                            /\ rest[i].type = s[i + gone].type /\ rest[i].end = s[i + gone].end
                            /\ rest[i].base = IF i + gone = 1 THEN at ELSE s[i + gone].base

\* What of a range is left when its first pages are typed.
LEMMA LeftIs ==
  ASSUME NEW s \in Seq(RangeTodo), s # <<>>, NEW at \in Nat
  PROVE  Left(s, at, IF at < Head(s).end THEN <<[Head(s) EXCEPT !.base = at]>> \o Tail(s) ELSE Tail(s),
              IF at < Head(s).end THEN 0 ELSE 1)
<1> DEFINE left_ == [Head(s) EXCEPT !.base = at]
           tail == Tail(s)
           front == <<left_>>
           rest == front \o tail
<1>1. Head(s) \in RangeTodo /\ Head(s) = s[1] /\ Len(s) \in Nat \ {0} /\ DOMAIN s = 1 .. Len(s)
  BY HeadTailProperties
<1>2. tail \in Seq(RangeTodo) /\ Len(tail) = Len(s) - 1 /\ DOMAIN tail = 1 .. Len(s) - 1
      /\ \A i \in 1 .. Len(s) - 1 : tail[i] = s[i + 1]
  <2>1. tail \in Seq(RangeTodo) /\ Len(tail) = Len(s) - 1 /\ \A i \in 1 .. Len(tail) : tail[i] = s[i + 1]
    BY HeadTailProperties
  <2> HIDE DEF tail
  <2>2. DOMAIN tail = 1 .. Len(tail)
    BY <2>1
  <2> QED
    BY <2>1, <2>2
<1>3. left_ \in RangeTodo /\ left_.base = at /\ left_.end = s[1].end /\ left_.type = s[1].type
  BY <1>1 DEF RangeTodo
<1>4. front \in Seq(RangeTodo) /\ Len(front) = 1 /\ front[1] = left_
  <2> HIDE DEF left_
  <2> QED
    BY <1>3
<1>5. CASE at < Head(s).end
  <2> HIDE DEF left_, tail, front
  <2>1. rest \in Seq(RangeTodo) /\ Len(rest) = Len(front) + Len(tail)
        /\ \A i \in 1 .. Len(front) + Len(tail) : rest[i] = IF i <= Len(front) THEN front[i] ELSE tail[i - Len(front)]
    <3>1. front \in Seq(RangeTodo) /\ tail \in Seq(RangeTodo)
      BY <1>2, <1>4
    <3> QED
      BY <3>1, ConcatProperties
  <2> HIDE DEF rest
  <2>2. Len(rest) = Len(s) /\ DOMAIN rest = 1 .. Len(s) /\ rest[1] = left_
    BY <1>1, <1>2, <1>4, <2>1
  <2>3. \A i \in 1 .. Len(s) : i # 1 => rest[i] = s[i]
    <3> SUFFICES ASSUME NEW i \in 1 .. Len(s), i # 1 PROVE rest[i] = s[i]
      OBVIOUS
    <3>1. i - 1 \in 1 .. Len(s) - 1 /\ i \in 1 .. Len(front) + Len(tail) /\ ~(i <= Len(front)) /\ (i - 1) + 1 = i
      BY <1>1, <1>2, <1>4
    <3>2. rest[i] = tail[i - 1]
      BY <1>4, <2>1, <3>1
    <3> QED
      BY <1>2, <3>1, <3>2
  <2>4. Left(s, at, rest, 0)
    <3>1. \A i \in 1 .. Len(s) : i + 0 = i
      OBVIOUS
    <3>2. Len(s) - 0 = Len(s)
      BY <1>1
    <3>3. \A i \in DOMAIN rest : i \in 1 .. Len(s)
      BY <2>2
    <3> QED
      BY <1>1, <1>3, <2>1, <2>2, <2>3, <3>1, <3>2, <3>3, Zenon DEF Left
  <2> QED
    BY <1>5, <2>4, Zenon DEF rest, front, left_, tail
<1>6. CASE ~(at < Head(s).end)
  <2>1. Left(s, at, tail, 1)
    <3>1. \A i \in 1 .. Len(s) - 1 : i + 1 # 1 /\ i + 1 \in 1 .. Len(s)
      BY <1>1
    <3> HIDE DEF tail
    <3> QED
      BY <1>1, <1>2, <3>1, Zenon DEF Left
  <2> QED
    BY <1>6, <2>1, Zenon
<1> QED
  BY <1>5, <1>6

\* What the invariant is about does not change when these do not.
LEMMA ArcStays == ArcInv /\ UNCHANGED <<machine, descs, bank, slot, walked, todo>> => ArcInv'
<1> SUFFICES ASSUME ArcInv, UNCHANGED <<machine, descs, bank, slot, walked, todo>> PROVE ArcInv'
  OBVIOUS
<1>1. ArcTypes'
  BY Zenon DEF ArcInv, ArcTypes
<1>2. ArcOrder'
  BY Zenon DEF ArcInv, ArcOrder, Below, Ascending, Merged, Arc!First, Arc!End, Arc!Page
<1>3. ArcCover'
  BY Zenon DEF ArcInv, ArcCover, Reached, Arc!First, Arc!End, Arc!Page, Arc!Pages
<1>4. ArcPassed'
  BY Zenon DEF ArcInv, ArcPassed, Arc!End, Arc!Page, Arc!PageUp
<1>5. ArcUses'
  <2>1. \A p : Arc!UseOf(p)' = Arc!UseOf(p) /\ (IsAvailable(p)' <=> IsAvailable(p))
    BY Zenon DEF Arc!UseOf, IsAvailable, Overlaps
  <2> QED
    BY <2>1, Zenon DEF ArcInv, ArcUses, Arc!Pages
<1> QED
  BY <1>1, <1>2, <1>3, <1>4, <1>5, Zenon DEF ArcInv

LEMMA RangeTypes == \A r \in RangeTodo : r.type \in {"free", "temporary"} /\ r.base \in Nat /\ r.end \in Nat
BY DEF RangeTodo

LEMMA DescTypes == \A d \in DescOf : d.type \in MemoryType /\ d.base \in Nat /\ d.count \in Nat
BY DEF DescOf

LEMMA DescsIn == ASSUME NEW s \in Seq(DescOf), NEW k \in DOMAIN s PROVE s[k].type \in MemoryType /\ s[k].base \in Nat /\ s[k].count \in Nat
<1>1. s[k] \in DescOf
  OBVIOUS
<1> QED
  BY <1>1, DescTypes

\* What is in a sequence of ranges.
LEMMA RangesIn ==
  ASSUME NEW s \in Seq(RangeTodo), NEW k \in DOMAIN s
  PROVE  s[k].type \in {"free", "temporary"} /\ s[k].base \in Nat /\ s[k].end \in Nat
<1>1. s[k] \in RangeTodo
  OBVIOUS
<1> QED
  BY <1>1, RangeTypes

\* A turn of type_range's loop: the front of the first range is typed, what is
\* left of it stays in front.
LEMMA TypeRangeKeeps == ArcInv /\ Arc!type_range => ArcInv'
<1> SUFFICES ASSUME ArcInv, Arc!type_range PROVE ArcInv'
  OBVIOUS
<1> DEFINE r == Head(todo)
           cut == Arc!Cut(r.base, r.end, r.type)
           new_ == Arc!add(descs, cut.type, r.base, cut.at - r.base)
<1>1. todo # <<>> /\ UNCHANGED <<machine, bank, slot, walked>>
      /\ \/ UNCHANGED <<descs, todo>>
         \/ /\ descs' = new_
            /\ todo' = IF cut.at < r.end THEN <<[r EXCEPT !.base = cut.at]>> \o Tail(todo) ELSE Tail(todo)
  BY Zenon DEF Arc!type_range
<1>2. ArcTypes /\ ArcOrder /\ ArcCover /\ ArcPassed /\ ArcUses
  BY DEF ArcInv
<1>3. CASE UNCHANGED <<descs, todo>>
  BY <1>1, <1>3, ArcStays, Zenon
<1>4. CASE /\ descs' = new_
           /\ todo' = IF cut.at < r.end THEN <<[r EXCEPT !.base = cut.at]>> \o Tail(todo) ELSE Tail(todo)
  <2> DEFINE base == r.base
             at == cut.at
             end == r.end
  <2>1. /\ todo \in Seq(RangeTodo) /\ Len(todo) \in {1, 2} /\ DOMAIN todo = 1 .. Len(todo) /\ 1 \in DOMAIN todo
        /\ todo[1] = r /\ r \in RangeTodo /\ descs \in Seq(DescOf) /\ machine \in Machines
    <3>1. todo \in Seq(RangeTodo) /\ Len(todo) <= 2 /\ descs \in Seq(DescOf) /\ machine \in Machines
      BY <1>2, Zenon DEF ArcTypes, ArcOrder
    <3>2. Head(todo) \in RangeTodo /\ Head(todo) = todo[1] /\ Len(todo) \in Nat \ {0} /\ DOMAIN todo = 1 .. Len(todo)
      BY <1>1, <3>1, HeadTailProperties
    <3> HIDE DEF cut, new_
    <3>3. Len(todo) \in {1, 2} /\ 1 \in DOMAIN todo
      BY <3>1, <3>2
    <3> QED
      BY <3>1, <3>2, <3>3, Zenon
  <2>2. r.base \in Nat /\ r.end \in Nat /\ r.type \in {"free", "temporary"} /\ r.base < r.end
    BY <1>2, <2>1 DEF RangeTodo, ArcOrder
  <2>3. \A p \in r.base .. r.end - 1 : r.type = "free" <=> IsAvailable(p)
    BY <1>2, <2>1 DEF ArcUses
  <2>4. /\ cut.type \in MemoryType /\ cut.at \in Nat /\ r.base < cut.at /\ cut.at <= r.end
        /\ \A p \in r.base .. cut.at - 1 : Arc!UseOf(p) = cut.type
    <3> HIDE DEF cut, r
    <3> QED
      BY <2>1, <2>2, <2>3, CutIs DEF cut
  <2>5. Below(descs, r.base) /\ Ascending(descs) /\ Merged(descs)
    BY <1>2, <2>1, Zenon DEF ArcOrder
  <2>6. cut.at - r.base \in Nat /\ r.base + (cut.at - r.base) = cut.at
    BY <2>2, <2>4
  <2>71. Extends(descs, cut.type, r.base, cut.at, new_)
    <3> DEFINE len == cut.at - r.base
    <3>1. len \in Nat /\ r.base + len = cut.at
      BY <2>6
    <3>2. new_ = Arc!add(descs, cut.type, r.base, len)
      OBVIOUS
    <3> HIDE DEF cut, r, new_, len
    <3>3. descs \in Seq(DescOf) /\ cut.type \in MemoryType /\ r.base \in Nat
      BY <2>1, <2>2, <2>4
    <3>4. Extends(descs, cut.type, r.base, r.base + len, new_)
      BY <2>5, <3>1, <3>2, <3>3, AddKeeps
    <3> QED
      BY <3>1, <3>4, Zenon
  <2>7. /\ new_ \in Seq(DescOf) /\ Below(new_, cut.at) /\ Ascending(new_) /\ Merged(new_)
        /\ \A p \in Nat : (\E k \in DOMAIN new_ : p \in Arc!Pages(new_[k]))
                            <=> (\E k \in DOMAIN descs : p \in Arc!Pages(descs[k])) \/ p \in r.base .. cut.at - 1
        /\ \A k \in DOMAIN new_ : \A p \in Arc!Pages(new_[k]) :
             \/ \E j \in DOMAIN descs : p \in Arc!Pages(descs[j]) /\ descs[j].type = new_[k].type
             \/ (p \in r.base .. cut.at - 1 /\ new_[k].type = cut.type)
    BY <2>71, Zenon DEF Extends
  \* What is left to do.
  <2> DEFINE rest == IF cut.at < r.end THEN <<[r EXCEPT !.base = cut.at]>> \o Tail(todo) ELSE Tail(todo)
             gone == IF cut.at < r.end THEN 0 ELSE 1
  <2>8. /\ rest \in Seq(RangeTodo) /\ Len(rest) = Len(todo) - gone /\ DOMAIN rest = 1 .. Len(todo) - gone
        /\ \A i \in DOMAIN rest : /\ i + gone \in DOMAIN todo
                                  /\ rest[i].type = todo[i + gone].type /\ rest[i].end = todo[i + gone].end
                                  /\ rest[i].base = IF i + gone = 1 THEN cut.at ELSE todo[i + gone].base
    <3>1. Left(todo, cut.at, rest, gone)
      <4> HIDE DEF cut
      <4> QED
        BY <1>1, <2>1, <2>4, LeftIs, Zenon
    <3> QED
      BY <3>1, Zenon DEF Left
  <2>9. gone \in {0, 1} /\ (gone = 1 => cut.at = r.end)
    BY <2>2, <2>4
  <2>10. descs' = new_ /\ todo' = rest /\ machine' = machine /\ bank' = bank /\ slot' = slot /\ walked' = walked
    BY <1>1, <1>4
  <2> HIDE DEF rest, gone, new_, cut, r
  <2>11. ArcTypes'
    BY <1>2, <2>7, <2>8, <2>10 DEF ArcTypes
  <2>12. ArcPassed'
    BY <1>2, <2>10, Zenon DEF ArcPassed, Arc!End, Arc!Page, Arc!PageUp
  <2>13. \A p \in Nat : (\E i \in DOMAIN todo : p \in todo[i].base .. todo[i].end - 1)
                          <=> (\E i \in DOMAIN rest : p \in rest[i].base .. rest[i].end - 1) \/ p \in r.base .. cut.at - 1
    <3> SUFFICES ASSUME NEW p \in Nat
                 PROVE  (\E i \in DOMAIN todo : p \in todo[i].base .. todo[i].end - 1)
                          <=> (\E i \in DOMAIN rest : p \in rest[i].base .. rest[i].end - 1) \/ p \in r.base .. cut.at - 1
      OBVIOUS
    <3>1. \A i \in DOMAIN todo : i = 1 \/ i - gone \in DOMAIN rest
      BY <2>1, <2>8, <2>9
    <3>2. gone = 0 => 1 \in DOMAIN rest
      BY <2>1, <2>8
    <3>3. p \in r.base .. r.end - 1 <=> p \in r.base .. cut.at - 1 \/ p \in cut.at .. r.end - 1
      BY <2>2, <2>4
    <3>4. ASSUME NEW i \in DOMAIN todo, p \in todo[i].base .. todo[i].end - 1
          PROVE  (\E j \in DOMAIN rest : p \in rest[j].base .. rest[j].end - 1) \/ p \in r.base .. cut.at - 1
      <4>1. CASE i = 1
        BY <2>1, <2>2, <2>4, <2>8, <2>9, <3>2, <3>3, <3>4, <4>1, SMTT(60)
      <4>2. CASE i # 1
        <5>1. i - gone \in DOMAIN rest /\ (i - gone) + gone = i
          BY <2>1, <2>9, <3>1, <4>2
        <5> QED
          BY <2>8, <3>4, <4>2, <5>1
      <4> QED
        BY <4>1, <4>2
    <3>5. ASSUME NEW j \in DOMAIN rest, p \in rest[j].base .. rest[j].end - 1
          PROVE  \E i \in DOMAIN todo : p \in todo[i].base .. todo[i].end - 1
      <4>1. CASE j + gone = 1
        BY <2>1, <2>2, <2>4, <2>8, <3>3, <3>5, <4>1
      <4>2. CASE j + gone # 1
        BY <2>8, <3>5, <4>2
      <4> QED
        BY <4>1, <4>2
    <3>6. p \in r.base .. cut.at - 1 => \E i \in DOMAIN todo : p \in todo[i].base .. todo[i].end - 1
      BY <2>1, <3>3
    <3> QED
      BY <3>4, <3>5, <3>6
  <2>14. Reached' = Reached
    BY <2>10, Zenon DEF Reached, Arc!First, Arc!End, Arc!Page
  <2>15. \A d : Arc!Pages(d)' = Arc!Pages(d)
    BY DEF Arc!Pages
  <2>16. ArcCover'
    <3> SUFFICES ASSUME NEW p \in Nat
                 PROVE  p \in Reached <=> ( \/ \E k \in DOMAIN new_ : p \in Arc!Pages(new_[k])
                                            \/ \E i \in DOMAIN rest : p \in rest[i].base .. rest[i].end - 1 )
      BY <2>10, <2>14, Zenon DEF ArcCover, Arc!Pages
    <3>1. p \in Reached <=> ( \/ \E k \in DOMAIN descs : p \in Arc!Pages(descs[k])
                              \/ \E i \in DOMAIN todo : p \in todo[i].base .. todo[i].end - 1 )
      BY <1>2, Zenon DEF ArcCover
    <3> QED
      BY <2>7, <2>13, <3>1, Zenon
  <2>17. ArcUses'
    <3>1. \A p \in Nat : Arc!UseOf(p)' = Arc!UseOf(p) /\ (IsAvailable(p)' <=> IsAvailable(p))
      BY <2>10, Zenon DEF Arc!UseOf, IsAvailable, Overlaps
    <3>2. ASSUME NEW i \in DOMAIN rest, NEW p \in rest[i].base .. rest[i].end - 1
          PROVE  rest[i].type = "free" <=> IsAvailable(p)
      <4>1. i + gone \in DOMAIN todo /\ rest[i].type = todo[i + gone].type
        BY <2>8
      <4>2. p \in todo[i + gone].base .. todo[i + gone].end - 1
        <5>1. CASE i + gone = 1
          BY <2>1, <2>2, <2>4, <2>8, <5>1
        <5>2. CASE i + gone # 1
          BY <2>8, <5>2
        <5> QED
          BY <5>1, <5>2
      <4> QED
        BY <1>2, <4>1, <4>2, Zenon DEF ArcUses
    <3>3. ASSUME NEW k \in DOMAIN new_, NEW p \in Arc!Pages(new_[k]) PROVE new_[k].type = Arc!UseOf(p)
      <4>1. CASE \E j \in DOMAIN descs : p \in Arc!Pages(descs[j]) /\ descs[j].type = new_[k].type
        BY <1>2, <4>1, Zenon DEF ArcUses
      <4>2. CASE p \in r.base .. cut.at - 1 /\ new_[k].type = cut.type
        BY <2>4, <4>2, Zenon
      <4> QED
        BY <2>7, <3>3, <4>1, <4>2, Zenon
    <3>4. \A i \in DOMAIN rest : \A p \in rest[i].base .. rest[i].end - 1 : p \in Nat
      <4>1. \A i \in DOMAIN rest : rest[i].base \in Nat
        BY <2>8, RangesIn
      <4> QED
        BY <4>1
    <3>5. \A k \in DOMAIN new_ : \A p \in Arc!Pages(new_[k]) : p \in Nat
      <4>1. \A k \in DOMAIN new_ : new_[k].base \in Nat
        BY <2>7, DescsIn
      <4> QED
        BY <4>1 DEF Arc!Pages
    <3> QED
      BY <2>10, <3>1, <3>2, <3>3, <3>4, <3>5, Zenon DEF ArcUses, Arc!Pages
  <2>18. ArcOrder'
    <3>1. \A i \in DOMAIN rest : i \in Nat /\ i + gone \in DOMAIN todo /\ rest[i].end = todo[i + gone].end
                                 /\ todo[i + gone].base \in Nat /\ todo[i + gone].end \in Nat
                                 /\ rest[i].base = IF i + gone = 1 THEN cut.at ELSE todo[i + gone].base
      <4> SUFFICES ASSUME NEW i \in DOMAIN rest PROVE i \in Nat /\ todo[i + gone].base \in Nat /\ todo[i + gone].end \in Nat
        BY <2>8, Zenon
      <4>1. i + gone \in DOMAIN todo /\ i \in Nat
        BY <2>1, <2>8, <2>9
      <4> QED
        BY <2>1, <4>1, RangesIn
    <3>2. \A i \in DOMAIN todo : todo[i].base < todo[i].end /\ (bank <= Len(machine.reg) => todo[i].end <= walked)
      BY <1>2, Zenon DEF ArcOrder
    <3>3. \A i, j \in DOMAIN todo : i < j => todo[i].end <= todo[j].base
      BY <1>2, Zenon DEF ArcOrder
    <3>4. \A i \in DOMAIN rest : rest[i].base < rest[i].end /\ (bank <= Len(machine.reg) => rest[i].end <= walked)
                                 /\ cut.at <= rest[i].base
      <4> SUFFICES ASSUME NEW i \in DOMAIN rest
                   PROVE  rest[i].base < rest[i].end /\ (bank <= Len(machine.reg) => rest[i].end <= walked)
                          /\ cut.at <= rest[i].base
        OBVIOUS
      <4>1. CASE i + gone = 1
        <5>1. gone = 0
          BY <2>8, <2>9, <4>1
        <5>2. cut.at < r.end
          BY <2>2, <2>4, <5>1 DEF gone
        <5> QED
          BY <2>1, <2>4, <3>1, <3>2, <4>1, <5>2
      <4>2. CASE i + gone # 1
        <5>1. 1 < i + gone
          BY <2>8, <2>9, <4>2
        <5> QED
          BY <2>1, <2>2, <2>4, <3>1, <3>2, <3>3, <4>2, <5>1
      <4> QED
        BY <4>1, <4>2
    <3>5. \A i, j \in DOMAIN rest : i < j => rest[i].end <= rest[j].base
      <4> SUFFICES ASSUME NEW i \in DOMAIN rest, NEW j \in DOMAIN rest, i < j PROVE rest[i].end <= rest[j].base
        OBVIOUS
      <4>1. i + gone < j + gone /\ j + gone # 1
        BY <2>8, <2>9
      <4> QED
        BY <3>1, <3>3, <4>1
    <3>6. \A i \in DOMAIN rest : Below(new_, rest[i].base)
      <4> SUFFICES ASSUME NEW i \in DOMAIN rest, NEW k \in DOMAIN new_ PROVE new_[k].base + new_[k].count <= rest[i].base
        BY DEF Below
      <4>1. new_[k].base \in Nat /\ new_[k].count \in Nat /\ new_[k].base + new_[k].count <= cut.at
        BY <2>7, DescsIn DEF Below
      <4>2. rest[i].base \in Nat /\ cut.at <= rest[i].base
        BY <2>4, <3>1, <3>4
      <4> QED
        BY <2>4, <4>1, <4>2
    <3>7. bank <= Len(machine.reg) => Below(new_, walked)
      <4> SUFFICES ASSUME bank <= Len(machine.reg), NEW k \in DOMAIN new_ PROVE new_[k].base + new_[k].count <= walked
        BY DEF Below
      <4>1. new_[k].base \in Nat /\ new_[k].count \in Nat /\ new_[k].base + new_[k].count <= cut.at
        BY <2>7, DescsIn DEF Below
      <4>2. r.end <= walked /\ walked \in Nat
        BY <1>2, <2>1, <3>2 DEF ArcTypes
      <4> QED
        BY <2>2, <2>4, <4>1, <4>2
    <3>8. Len(rest) <= 2
      BY <2>1, <2>8, <2>9
    <3>9. bank <= Len(machine.reg) => Arc!First(bank) <= walked /\ walked <= Arc!End(bank)
      BY <1>2, Zenon DEF ArcOrder
    <3> QED
      BY <2>7, <2>10, <3>4, <3>5, <3>6, <3>7, <3>8, <3>9, Zenon
         DEF ArcOrder, Below, Ascending, Merged, Arc!First, Arc!End, Arc!Page
  <2> QED
    BY <2>11, <2>12, <2>16, <2>17, <2>18, Zenon DEF ArcInv
<1> QED
  BY <1>1, <1>3, <1>4

\* The ranges NextAvailable hands to type_range: what is not available below
\* mid, what is from there on; either may be empty.
Split(q, lo, mid, hi) ==
  /\ q \in Seq(RangeTodo) /\ Len(q) <= 2
  /\ \A i \in DOMAIN q : \/ q[i].type = "temporary" /\ q[i].base = lo /\ q[i].end = mid /\ lo < mid
                         \/ q[i].type = "free" /\ q[i].base = mid /\ q[i].end = hi /\ mid < hi
  /\ \A i, j \in DOMAIN q : i < j => q[i].end <= q[j].base
  /\ \A p \in Nat : (\E i \in DOMAIN q : p \in q[i].base .. q[i].end - 1) <=> p \in lo .. hi - 1

\* A bank is split at the beginning of an available range.
LEMMA RangesSplit ==
  ASSUME NEW lo \in Nat, NEW mid \in Nat, NEW hi \in Nat, lo <= mid, mid <= hi
  PROVE  Split(Arc!Range("temporary", lo, mid) \o Arc!Range("free", mid, hi), lo, mid, hi)
<1> DEFINE a == [type |-> "temporary", base |-> lo, end |-> mid]
           b == [type |-> "free", base |-> mid, end |-> hi]
<1>1. a \in RangeTodo /\ b \in RangeTodo
  BY DEF RangeTodo
<1>2. a.type = "temporary" /\ a.base = lo /\ a.end = mid /\ b.type = "free" /\ b.base = mid /\ b.end = hi
  OBVIOUS
<1>3. /\ Arc!Range("temporary", lo, mid) = IF lo < mid THEN <<a>> ELSE <<>>
      /\ Arc!Range("free", mid, hi) = IF mid < hi THEN <<b>> ELSE <<>>
  BY Zenon DEF Arc!Range
<1> HIDE DEF a, b
<1> DEFINE x == Arc!Range("temporary", lo, mid)
           y == Arc!Range("free", mid, hi)
<1>4. CASE lo < mid /\ mid < hi
  <2>1. Split(x \o y, lo, mid, hi)
    <3> DEFINE q == x \o y
    <3>1. q \in Seq(RangeTodo) /\ Len(q) = 2 /\ DOMAIN q = {1, 2} /\ q[1] = a /\ q[2] = b
      <4>1. x = <<a>> /\ y = <<b>>
        BY <1>3, <1>4, Zenon
      <4> HIDE DEF x, y
      <4>2. /\ x \in Seq(RangeTodo) /\ y \in Seq(RangeTodo) /\ Len(x) = 1 /\ Len(y) = 1 /\ x[1] = a /\ y[1] = b
        BY <1>1, <4>1
      <4>3. /\ q \in Seq(RangeTodo) /\ Len(q) = Len(x) + Len(y)
            /\ \A i \in 1 .. Len(x) + Len(y) : q[i] = IF i <= Len(x) THEN x[i] ELSE y[i - Len(x)]
        BY <4>2, ConcatProperties
      <4> HIDE DEF q
      <4> QED
        BY <4>2, <4>3
    <3> HIDE DEF q
    <3>2. \A i \in DOMAIN q : \/ q[i].type = "temporary" /\ q[i].base = lo /\ q[i].end = mid /\ lo < mid
                              \/ q[i].type = "free" /\ q[i].base = mid /\ q[i].end = hi /\ mid < hi
      BY <1>2, <1>4, <3>1
    <3>3. \A i, j \in DOMAIN q : i < j => q[i].end <= q[j].base
      BY <1>2, <1>4, <3>1
    <3>4. \A p \in Nat : (\E i \in DOMAIN q : p \in q[i].base .. q[i].end - 1) <=> p \in lo .. hi - 1
      BY <1>2, <1>4, <3>1
    <3>5. Len(q) <= 2
      BY <3>1
    <3>6. Split(q, lo, mid, hi)
      BY <3>1, <3>2, <3>3, <3>4, <3>5, Zenon DEF Split
    <3> QED
      BY <3>6 DEF q
  <2> QED
    BY <2>1
<1>5. CASE lo < mid /\ ~(mid < hi)
  <2>1. x \o y = <<a>>
    <3>1. x = <<a>> /\ y = <<>>
      BY <1>3, <1>5, Zenon
    <3>2. <<a>> \o <<>> = <<a>>
      OBVIOUS
    <3> QED
      BY <3>1, <3>2, Zenon
  <2>2. Split(<<a>>, lo, mid, hi)
    <3> DEFINE q == <<a>>
    <3>1. q \in Seq(RangeTodo) /\ Len(q) = 1 /\ DOMAIN q = {1} /\ q[1] = a
      BY <1>1
    <3> HIDE DEF q
    <3>2. \A i \in DOMAIN q : \/ q[i].type = "temporary" /\ q[i].base = lo /\ q[i].end = mid /\ lo < mid
                              \/ q[i].type = "free" /\ q[i].base = mid /\ q[i].end = hi /\ mid < hi
      BY <1>2, <1>5, <3>1
    <3>3. \A i, j \in DOMAIN q : i < j => q[i].end <= q[j].base
      BY <1>2, <1>5, <3>1
    <3>4. \A p \in Nat : (\E i \in DOMAIN q : p \in q[i].base .. q[i].end - 1) <=> p \in lo .. hi - 1
      BY <1>2, <1>5, <3>1
    <3>5. Len(q) <= 2
      BY <3>1
    <3>6. Split(q, lo, mid, hi)
      BY <3>1, <3>2, <3>3, <3>4, <3>5, Zenon DEF Split
    <3> QED
      BY <3>6 DEF q
  <2> QED
    BY <2>1, <2>2, Zenon
<1>6. CASE ~(lo < mid) /\ mid < hi
  <2>1. x \o y = <<b>>
    <3>1. x = <<>> /\ y = <<b>>
      BY <1>3, <1>6, Zenon
    <3>2. <<>> \o <<b>> = <<b>>
      OBVIOUS
    <3> QED
      BY <3>1, <3>2, Zenon
  <2>2. Split(<<b>>, lo, mid, hi)
    <3> DEFINE q == <<b>>
    <3>1. q \in Seq(RangeTodo) /\ Len(q) = 1 /\ DOMAIN q = {1} /\ q[1] = b
      BY <1>1
    <3> HIDE DEF q
    <3>2. \A i \in DOMAIN q : \/ q[i].type = "temporary" /\ q[i].base = lo /\ q[i].end = mid /\ lo < mid
                              \/ q[i].type = "free" /\ q[i].base = mid /\ q[i].end = hi /\ mid < hi
      BY <1>2, <1>6, <3>1
    <3>3. \A i, j \in DOMAIN q : i < j => q[i].end <= q[j].base
      BY <1>2, <1>6, <3>1
    <3>4. \A p \in Nat : (\E i \in DOMAIN q : p \in q[i].base .. q[i].end - 1) <=> p \in lo .. hi - 1
      BY <1>2, <1>6, <3>1
    <3>5. Len(q) <= 2
      BY <3>1
    <3>6. Split(q, lo, mid, hi)
      BY <3>1, <3>2, <3>3, <3>4, <3>5, Zenon DEF Split
    <3> QED
      BY <3>6 DEF q
  <2> QED
    BY <2>1, <2>2, Zenon
<1>7. CASE ~(lo < mid) /\ ~(mid < hi)
  <2>1. x \o y = <<>>
    BY <1>3, <1>7
  <2>2. Split(<<>>, lo, mid, hi)
    BY <1>7 DEF Split
  <2> QED
    BY <2>1, <2>2, Zenon
<1> QED
  BY <1>4, <1>5, <1>6, <1>7

LEMMA RangeSplits ==
  ASSUME NEW lo \in Nat, NEW mid \in Nat, lo <= mid
  PROVE  Split(Arc!Range("temporary", lo, mid), lo, mid, mid)
<1>1. Split(Arc!Range("temporary", lo, mid) \o Arc!Range("free", mid, mid), lo, mid, mid)
  BY RangesSplit
<1>2. Arc!Range("free", mid, mid) = <<>>
  BY DEF Arc!Range
<1>3. Arc!Range("temporary", lo, mid) = <<[type |-> "temporary", base |-> lo, end |-> mid]>> \/ Arc!Range("temporary", lo, mid) = <<>>
  BY Zenon DEF Arc!Range
<1>4. Arc!Range("temporary", lo, mid) \o <<>> = Arc!Range("temporary", lo, mid)
  BY <1>3
<1> QED
  BY <1>1, <1>2, <1>4, Zenon

\* No range gone past has a page of the bank from where memory_init has come.
LEMMA PassedIsBehind ==
  ASSUME ArcInv, bank <= Len(machine.reg), NEW n \in 1 .. slot - 1, NEW p \in Nat, walked <= p, p < Arc!End(bank)
  PROVE  ~Overlaps(machine.available[n], p)
<1> DEFINE a == machine.available[n]
<1>1. machine \in Machines /\ bank \in 1 .. Len(machine.reg) + 1 /\ slot \in 1 .. Len(machine.available) + 1 /\ walked \in Nat
  BY Zenon DEF ArcInv, ArcTypes
<1>2. Len(machine.available) \in Nat /\ Len(machine.reg) \in Nat /\ machine.available \in Seq(Nat \X Nat)
  BY <1>1, MachineIs
<1>3. n \in 1 .. Len(machine.available) /\ bank \in 1 .. Len(machine.reg)
  BY <1>1, <1>2
<1>4. a \in Nat \X Nat /\ a[1] \in Nat /\ a[1] + a[2] \in Nat
  <2>1. a \in Nat \X Nat
    BY <1>2, <1>3, ElementOfSeq
  <2> QED
    BY <2>1
<1>5. Arc!PageUp(a[1] + a[2]) <= walked \/ Arc!End(bank) <= walked \/ Arc!End(bank) <= Arc!Page(a[1])
  BY Zenon DEF ArcInv, ArcPassed
<1>6. Arc!Page(a[1]) \in Nat /\ Arc!PageUp(a[1] + a[2]) \in Nat /\ Arc!End(bank) \in Nat
  <2>1. Arc!Page(a[1]) \in Nat /\ Arc!PageUp(a[1] + a[2]) \in Nat
    BY <1>4, PageCuts
  <2>2. Arc!End(bank) \in Nat
    BY <1>1, <1>3, BanksAscend
  <2> QED
    BY <2>1, <2>2
<1>7. Overlaps(a, p) <=> Arc!Page(a[1]) <= p /\ p < Arc!PageUp(a[1] + a[2])
  BY <1>4, OverlapsIs
<1> QED
  BY <1>1, <1>5, <1>6, <1>7

\* What is to be typed when it was split so, and what memory_init has come past.
LEMMA SplitKeeps ==
  ASSUME ArcInv, todo = <<>>, bank <= Len(machine.reg), descs' = descs, machine' = machine,
         NEW mid \in Nat, NEW hi \in Nat, walked <= mid, mid <= hi, hi <= Arc!End(bank), Split(todo', walked, mid, hi),
         bank' \in 1 .. Len(machine.reg) + 1, slot' \in 1 .. Len(machine.available) + 1, walked' \in Nat,
         bank' <= Len(machine.reg) => Arc!First(bank)' <= walked' /\ walked' <= Arc!End(bank)' /\ hi <= walked',
         ArcPassed',
         \A p \in Nat : p \in Reached' <=> p \in Reached \/ p \in walked .. hi - 1,
         \A p \in walked .. mid - 1 : ~IsAvailable(p),
         \A p \in mid .. hi - 1 : IsAvailable(p)
  PROVE  ArcInv'
<1>1. ArcTypes /\ ArcOrder /\ ArcCover /\ ArcUses
  BY Zenon DEF ArcInv
<1>2. /\ todo' \in Seq(RangeTodo) /\ Len(todo') <= 2
      /\ \A i \in DOMAIN todo' : \/ todo'[i].type = "temporary" /\ todo'[i].base = walked /\ todo'[i].end = mid /\ walked < mid
                                 \/ todo'[i].type = "free" /\ todo'[i].base = mid /\ todo'[i].end = hi /\ mid < hi
      /\ \A i, j \in DOMAIN todo' : i < j => todo'[i].end <= todo'[j].base
      /\ \A p \in Nat : (\E i \in DOMAIN todo' : p \in todo'[i].base .. todo'[i].end - 1) <=> p \in walked .. hi - 1
  BY Zenon DEF Split
<1>3. walked \in Nat /\ descs \in Seq(DescOf) /\ machine \in Machines
  BY <1>1, Zenon DEF ArcTypes
<1>4. ArcTypes'
  BY <1>2, <1>3, Zenon DEF ArcTypes
<1>5. Below(descs, walked) /\ Ascending(descs) /\ Merged(descs)
  BY <1>1, Zenon DEF ArcOrder
<1>6. \A n \in Nat : walked <= n => Below(descs, n)
  <2> SUFFICES ASSUME NEW n \in Nat, walked <= n, NEW k \in DOMAIN descs PROVE descs[k].base + descs[k].count <= n
    BY DEF Below
  <2>1. descs[k].base \in Nat /\ descs[k].count \in Nat /\ descs[k].base + descs[k].count <= walked
    BY <1>3, <1>5, DescsIn DEF Below
  <2> QED
    BY <1>3, <2>1
<1>7. ArcOrder'
  <2>1. \A i \in DOMAIN todo' : /\ todo'[i].base < todo'[i].end /\ todo'[i].base \in Nat /\ walked <= todo'[i].base
                                /\ (bank' <= Len(machine.reg) => todo'[i].end <= walked')
    BY <1>2, <1>3, SMTT(60)
  <2>2. \A i \in DOMAIN todo' : Below(descs, todo'[i].base)
    BY <1>6, <2>1
  <2>3. bank' <= Len(machine.reg) => Below(descs, walked')
    BY <1>3, <1>6
  <2> QED
    BY <1>2, <1>5, <2>1, <2>2, <2>3, Zenon DEF ArcOrder, Below, Ascending, Merged
<1>8. ArcCover'
  <2> SUFFICES ASSUME NEW p \in Nat
               PROVE  p \in Reached' <=> ( \/ \E k \in DOMAIN descs : p \in Arc!Pages(descs[k])
                                           \/ \E i \in DOMAIN todo' : p \in todo'[i].base .. todo'[i].end - 1 )
    BY Zenon DEF ArcCover, Arc!Pages
  <2>1. p \in Reached <=> \E k \in DOMAIN descs : p \in Arc!Pages(descs[k])
    <3>1. ~\E i \in DOMAIN todo : p \in todo[i].base .. todo[i].end - 1
      OBVIOUS
    <3> QED
      BY <1>1, <3>1, Zenon DEF ArcCover
  <2> QED
    BY <1>2, <2>1, Zenon
<1>9. ArcUses'
  <2>1. \A p : Arc!UseOf(p)' = Arc!UseOf(p) /\ (IsAvailable(p)' <=> IsAvailable(p))
    BY Zenon DEF Arc!UseOf, IsAvailable, Overlaps
  <2>2. \A i \in DOMAIN todo' : \A p \in todo'[i].base .. todo'[i].end - 1 : todo'[i].type = "free" <=> IsAvailable(p)
    BY <1>2
  <2>3. \A k \in DOMAIN descs : \A p \in Arc!Pages(descs[k]) : descs[k].type = Arc!UseOf(p)
    BY <1>1, Zenon DEF ArcUses
  <2> QED
    BY <2>1, <2>2, <2>3, Zenon DEF ArcUses, Arc!Pages
<1> QED
  BY <1>4, <1>7, <1>8, <1>9, Zenon DEF ArcInv

\* What the walk through the banks stands on.
LEMMA WalkIs ==
  ASSUME ArcInv, bank <= Len(machine.reg)
  PROVE  /\ machine \in Machines /\ bank \in 1 .. Len(machine.reg) /\ Len(machine.reg) \in Nat
         /\ slot \in 1 .. Len(machine.available) + 1 /\ Len(machine.available) \in Nat
         /\ Arc!First(bank) \in Nat /\ walked \in Nat /\ Arc!End(bank) \in Nat
         /\ Arc!First(bank) <= walked /\ walked <= Arc!End(bank)
<1>1. machine \in Machines /\ bank \in 1 .. Len(machine.reg) + 1 /\ slot \in 1 .. Len(machine.available) + 1 /\ walked \in Nat
  BY Zenon DEF ArcInv, ArcTypes
<1>2. Len(machine.reg) \in Nat /\ Len(machine.available) \in Nat
  BY <1>1, MachineIs
<1>3. bank \in 1 .. Len(machine.reg)
  BY <1>1, <1>2
<1>4. Arc!First(bank) \in Nat /\ Arc!End(bank) \in Nat
  BY <1>1, <1>3, BanksAscend
<1>5. Arc!First(bank) <= walked /\ walked <= Arc!End(bank)
  BY Zenon DEF ArcInv, ArcOrder
<1> QED
  BY <1>1, <1>2, <1>3, <1>4, <1>5

LEMMA AvailableIs ==
  ASSUME machine \in Machines, NEW n \in 1 .. Len(machine.available)
  PROVE  LET a == machine.available[n]
         IN  /\ a \in Nat \X Nat
             /\ Arc!Page(a[1]) \in Nat /\ Arc!PageUp(a[1] + a[2]) \in Nat /\ Arc!Page(a[1]) <= Arc!PageUp(a[1] + a[2])
             /\ \A m \in 1 .. Len(machine.available) :
                  n < m => Arc!Page(a[1]) <= Arc!Page(machine.available[m][1])
<1> DEFINE a == machine.available[n]
<1>1. a \in Nat \X Nat
  BY MachineIs, ElementOfSeq
<1> HIDE DEF a
<1>2. a[1] \in Nat /\ a[1] + a[2] \in Nat /\ a[1] <= a[1] + a[2]
  BY <1>1
<1> DEFINE to == a[1] + a[2]
<1>3. to \in Nat /\ a[1] <= to
  BY <1>2
<1> HIDE DEF to
<1>4. /\ Arc!Page(a[1]) \in Nat /\ Arc!PageUp(to) \in Nat /\ Arc!Page(a[1]) <= Arc!PageUp(to)
  <2>1. Arc!Page(a[1]) \in Nat /\ Arc!PageUp(a[1]) \in Nat /\ Arc!PageUp(to) \in Nat
        /\ Arc!Page(a[1]) <= Arc!PageUp(a[1]) /\ Arc!PageUp(a[1]) <= Arc!PageUp(to)
    BY <1>2, <1>3, PagesGrow
  <2> QED
    BY <2>1
<1>5. ASSUME NEW m \in 1 .. Len(machine.available), n < m
      PROVE  Arc!Page(a[1]) <= Arc!Page(machine.available[m][1])
  <2> DEFINE next == machine.available[m][1]
  <2>1. next \in Nat /\ to <= next
    BY <1>5, MachineIs DEF to, a
  <2> HIDE DEF next
  <2>2. a[1] <= next
    BY <1>2, <1>3, <2>1
  <2>3. Arc!Page(a[1]) <= Arc!Page(next)
    BY <1>2, <2>1, <2>2, PagesGrow
  <2> QED
    BY <2>3 DEF next
<1> QED
  BY <1>1, <1>4, <1>5 DEF a, to

\* A turn of memory_init's loop over the available ranges: what lies before the
\* range is handed on as not available, its part of the bank as free.
LEMMA NextAvailableKeeps == ArcInv /\ Arc!NextAvailable => ArcInv'
<1> SUFFICES ASSUME ArcInv, Arc!NextAvailable PROVE ArcInv'
  OBVIOUS
<1> DEFINE a == machine.available[slot]
           from == Arc!Page(a[1])
           base == Arc!Begins(a)
           end == Arc!PageUp(a[1] + a[2])
           e == Arc!End(bank)
           stop == IF end > e THEN e ELSE end
<1>1. /\ todo = <<>> /\ bank <= Len(machine.reg) /\ slot <= Len(machine.available)
      /\ slot' = slot + 1 /\ machine' = machine /\ descs' = descs /\ bank' = bank
      /\ IF end <= walked \/ base >= e THEN UNCHANGED <<todo, walked>>
         ELSE /\ todo' = Arc!Range("temporary", walked, base) \o Arc!Range("free", base, stop)
              /\ walked' = stop
  BY Zenon DEF Arc!NextAvailable, Arc!Walking
<1>2. /\ machine \in Machines /\ bank \in 1 .. Len(machine.reg) /\ Len(machine.reg) \in Nat
      /\ slot \in 1 .. Len(machine.available) + 1 /\ Len(machine.available) \in Nat
      /\ Arc!First(bank) \in Nat /\ walked \in Nat /\ e \in Nat
      /\ Arc!First(bank) <= walked /\ walked <= e
  BY <1>1, WalkIs, Zenon
<1>3. slot \in 1 .. Len(machine.available) /\ slot' \in 1 .. Len(machine.available) + 1
  <2> HIDE DEF a, base, e, stop, end, from
  <2> QED
    BY <1>1, <1>2
<1>4. /\ a \in Nat \X Nat /\ from \in Nat /\ end \in Nat /\ from <= end
      /\ \A m \in 1 .. Len(machine.available) : slot < m => from <= Arc!Page(machine.available[m][1])
  BY <1>2, <1>3, AvailableIs, Zenon
<1>5. base = IF from < walked THEN walked ELSE from
  BY Zenon DEF Arc!Begins
<1>6. \A p \in Nat : Overlaps(a, p) <=> from <= p /\ p < end
  BY <1>4, OverlapsIs
<1>7. /\ \A n \in 1 .. slot - 1 : Arc!PageUp(machine.available[n][1] + machine.available[n][2]) <= walked \/ e <= walked
                                  \/ e <= Arc!Page(machine.available[n][1])
  BY <1>1, Zenon DEF ArcInv, ArcPassed
<1>8. \A n \in 1 .. Len(machine.available) : Arc!PageUp(machine.available[n][1] + machine.available[n][2]) \in Nat
                                             /\ Arc!Page(machine.available[n][1]) \in Nat
  BY <1>2, AvailableIs, Zenon
<1>9. Arc!End(bank)' = e /\ Arc!First(bank)' = Arc!First(bank)
  BY <1>1, Zenon DEF Arc!End, Arc!First, Arc!Page
<1>10. \A n : Arc!PageUp(machine.available[n][1] + machine.available[n][2])'
                = Arc!PageUp(machine.available[n][1] + machine.available[n][2])
              /\ Arc!Page(machine.available[n][1])' = Arc!Page(machine.available[n][1])
  BY <1>1, Zenon DEF Arc!PageUp, Arc!Page
<1>11. ASSUME NEW now \in Nat, walked' = now, walked <= now, end <= now \/ e <= now \/ e <= from
       PROVE  ArcPassed'
  <2> SUFFICES ASSUME NEW n \in 1 .. slot
               PROVE  \/ Arc!PageUp(machine.available[n][1] + machine.available[n][2]) <= now \/ e <= now
                      \/ e <= Arc!Page(machine.available[n][1])
    <3>1. slot' - 1 = slot
      BY <1>1, <1>3
    <3> QED
      BY <1>1, <1>9, <1>10, <1>11, <3>1, Zenon DEF ArcPassed
  <2>1. CASE n = slot
    BY <1>11, <2>1
  <2>2. CASE n # slot
    <3>1. n \in 1 .. slot - 1 /\ n \in 1 .. Len(machine.available)
      BY <1>3, <2>2
    <3> DEFINE x == Arc!PageUp(machine.available[n][1] + machine.available[n][2])
               y == Arc!Page(machine.available[n][1])
    <3>2. x \in Nat /\ y \in Nat /\ (x <= walked \/ e <= walked \/ e <= y)
      BY <1>7, <1>8, <3>1, Zenon
    <3> HIDE DEF x, y, a, e, from, base, end, stop
    <3>3. x <= now \/ e <= now \/ e <= y
      BY <1>2, <1>11, <3>2
    <3> QED
      BY <3>3 DEF x, y
  <2> QED
    BY <2>1, <2>2
<1> HIDE DEF a, from, base, end, e
\* The range lies behind the walk or beyond the bank.
<1>12. CASE end <= walked \/ base >= e
  <2>1. todo' = todo /\ walked' = walked
    BY <1>1, <1>12, Zenon
  <2>2. walked <= walked /\ (end <= walked \/ e <= walked \/ e <= from)
    BY <1>2, <1>4, <1>5, <1>12
  <2>3. ArcPassed'
    BY <1>2, <1>11, <2>1, <2>2
  <2>4. ArcTypes'
    BY <1>1, <1>3, <2>1, Zenon DEF ArcInv, ArcTypes
  <2>5. ArcOrder'
    BY <1>1, <2>1, Zenon DEF ArcInv, ArcOrder, Below, Ascending, Merged, Arc!First, Arc!End, Arc!Page
  <2>6. ArcCover'
    BY <1>1, <2>1, Zenon DEF ArcInv, ArcCover, Reached, Arc!First, Arc!End, Arc!Page, Arc!Pages
  <2>7. ArcUses'
    <3>1. \A p : Arc!UseOf(p)' = Arc!UseOf(p) /\ (IsAvailable(p)' <=> IsAvailable(p))
      BY <1>1, Zenon DEF Arc!UseOf, IsAvailable, Overlaps
    <3> QED
      BY <1>1, <2>1, <3>1, Zenon DEF ArcInv, ArcUses, Arc!Pages
  <2> QED
    BY <2>3, <2>4, <2>5, <2>6, <2>7, Zenon DEF ArcInv
<1>13. CASE ~(end <= walked \/ base >= e)
  <2>1. todo' = Arc!Range("temporary", walked, base) \o Arc!Range("free", base, stop) /\ walked' = stop
    BY <1>1, <1>13, Zenon
  <2>2. base \in Nat /\ stop \in Nat /\ walked <= base /\ base <= stop /\ stop <= e /\ walked <= stop /\ (end <= stop \/ e <= stop)
    <3>1. stop = IF end > e THEN e ELSE end
      OBVIOUS
    <3> HIDE DEF stop
    <3>2. base \in Nat /\ walked <= base /\ base < e /\ walked < end /\ base <= end
      BY <1>2, <1>4, <1>5, <1>13
    <3> QED
      BY <1>2, <1>4, <3>1, <3>2
  <2> HIDE DEF stop
  <2>3. Split(todo', walked, base, stop)
    <3>1. Split(Arc!Range("temporary", walked, base) \o Arc!Range("free", base, stop), walked, base, stop)
      BY <1>2, <2>2, RangesSplit
    <3> QED
      BY <2>1, <3>1, Zenon
  <2>4. ArcPassed'
    BY <1>11, <2>1, <2>2
  <2>5. \A p \in base .. stop - 1 : IsAvailable(p)
    <3> SUFFICES ASSUME NEW p \in base .. stop - 1 PROVE Overlaps(a, p)
      BY <1>3 DEF IsAvailable, a
    <3>1. p \in Nat /\ from <= p /\ p < end
      BY <1>2, <1>4, <1>5, <2>2 DEF stop
    <3> QED
      BY <1>6, <3>1
  <2>6. \A p \in walked .. base - 1 : ~IsAvailable(p)
    <3> SUFFICES ASSUME NEW p \in walked .. base - 1, NEW n \in 1 .. Len(machine.available), Overlaps(machine.available[n], p)
                 PROVE  FALSE
      BY DEF IsAvailable
    <3>1. p \in Nat /\ walked <= p /\ p < from /\ p < e
      BY <1>2, <1>4, <1>5, <2>2
    <3>2. CASE n \in 1 .. slot - 1
      <4>1. bank <= Len(machine.reg) /\ p < Arc!End(bank)
        BY <1>1, <3>1 DEF e
      <4> QED
        BY <3>1, <3>2, <4>1, PassedIsBehind
    <3>3. CASE n = slot
      <4>1. Overlaps(a, p)
        BY <3>3 DEF a
      <4> QED
        BY <1>4, <1>6, <3>1, <4>1
    <3>4. CASE slot < n
      <4>1. machine.available[n] \in Nat \X Nat
        BY <1>2, AvailableIs, Zenon
      <4>2. Arc!Page(machine.available[n][1]) <= p
        BY <3>1, <4>1, OverlapsIs
      <4>3. from <= Arc!Page(machine.available[n][1]) /\ Arc!Page(machine.available[n][1]) \in Nat
        BY <1>4, <1>8, <3>4
      <4> QED
        BY <1>4, <3>1, <4>2, <4>3
    <3> QED
      BY <1>3, <3>2, <3>3, <3>4
  <2>7. \A p \in Nat : p \in Reached' <=> p \in Reached \/ p \in walked .. stop - 1
    <3> SUFFICES ASSUME NEW p \in Nat PROVE p \in Reached' <=> p \in Reached \/ p \in walked .. stop - 1
      OBVIOUS
    <3> DEFINE Before == \E n \in 1 .. bank - 1 : n <= Len(machine.reg) /\ p \in Arc!First(n) .. Arc!End(n) - 1
    <3>1. p \in Reached <=> Before \/ p \in Arc!First(bank) .. walked - 1
      BY <1>1, Zenon DEF Reached
    <3>2. p \in Reached' <=> Before \/ p \in Arc!First(bank) .. stop - 1
      BY <1>1, <2>1, Zenon DEF Reached, Arc!First, Arc!End, Arc!Page
    <3> HIDE DEF Before
    <3>3. p \in Arc!First(bank) .. stop - 1 <=> p \in Arc!First(bank) .. walked - 1 \/ p \in walked .. stop - 1
      BY <1>2, <2>2
    <3> QED
      BY <3>1, <3>2, <3>3, Zenon
  <2>8. /\ bank' \in 1 .. Len(machine.reg) + 1 /\ walked' \in Nat
        /\ bank' <= Len(machine.reg) => Arc!First(bank)' <= walked' /\ walked' <= Arc!End(bank)' /\ stop <= walked'
    BY <1>1, <1>2, <1>9, <2>1, <2>2
  <2>9. stop <= Arc!End(bank)
    BY <2>2 DEF e
  <2> QED
    BY <1>1, <1>2, <1>3, <2>2, <2>3, <2>4, <2>5, <2>6, <2>7, <2>8, <2>9, SplitKeeps
<1> QED
  BY <1>12, <1>13

\* The rest of a bank, where no range is left.
LEMMA EndBankKeeps == ArcInv /\ Arc!EndBank => ArcInv'
<1> SUFFICES ASSUME ArcInv, Arc!EndBank PROVE ArcInv'
  OBVIOUS
<1> DEFINE e == Arc!End(bank)
<1>1. /\ todo = <<>> /\ bank <= Len(machine.reg) /\ slot > Len(machine.available)
      /\ machine' = machine /\ descs' = descs /\ bank' = bank + 1 /\ slot' = 1
      /\ todo' = Arc!Range("temporary", walked, e)
      /\ walked' = IF bank < Len(machine.reg) THEN Arc!First(bank + 1) ELSE walked
  BY Zenon DEF Arc!EndBank, Arc!Walking
<1>2. /\ machine \in Machines /\ bank \in 1 .. Len(machine.reg) /\ Len(machine.reg) \in Nat
      /\ slot \in 1 .. Len(machine.available) + 1 /\ Len(machine.available) \in Nat
      /\ Arc!First(bank) \in Nat /\ walked \in Nat /\ e \in Nat
      /\ Arc!First(bank) <= walked /\ walked <= e
  BY <1>1, WalkIs, Zenon
<1>3. \A n \in 1 .. Len(machine.reg) :
        /\ Arc!First(n) \in Nat /\ Arc!End(n) \in Nat /\ Arc!First(n) <= Arc!End(n)
        /\ \A m \in 1 .. Len(machine.reg) : n < m => Arc!End(n) <= Arc!First(m)
  BY <1>2, BanksAscend
<1>4. \A n : Arc!First(n)' = Arc!First(n) /\ Arc!End(n)' = Arc!End(n)
  BY <1>1, Zenon DEF Arc!End, Arc!First, Arc!Page
<1>5. Split(todo', walked, e, e)
  <2>1. Split(Arc!Range("temporary", walked, e), walked, e, e)
    <3> HIDE DEF e
    <3> QED
      BY <1>2, RangeSplits
  <2> QED
    BY <1>1, <2>1, Zenon
<1>6. ASSUME bank < Len(machine.reg)
      PROVE  /\ bank + 1 \in 1 .. Len(machine.reg) /\ Arc!First(bank + 1) \in Nat /\ e <= Arc!First(bank + 1)
             /\ Arc!First(bank + 1) <= Arc!End(bank + 1) /\ walked' = Arc!First(bank + 1)
  <2>1. bank + 1 \in 1 .. Len(machine.reg) /\ bank < bank + 1
    BY <1>2, <1>6
  <2> QED
    BY <1>1, <1>2, <1>3, <1>6, <2>1
<1>7. /\ bank' \in 1 .. Len(machine.reg) + 1 /\ slot' \in 1 .. Len(machine.available) + 1 /\ walked' \in Nat
      /\ bank' <= Len(machine.reg) => Arc!First(bank + 1) <= walked' /\ walked' <= Arc!End(bank + 1) /\ e <= walked'
  <2> DEFINE first == Arc!First(bank + 1)
             last == Arc!End(bank + 1)
  <2> HIDE DEF e, first, last
  <2>1. CASE bank < Len(machine.reg)
    <3>1. first \in Nat /\ e <= first /\ first <= last /\ walked' = first
      BY <1>6, <2>1 DEF first, last
    <3> QED
      BY <1>1, <1>2, <2>1, <3>1 DEF first, last
  <2>2. CASE ~(bank < Len(machine.reg))
    BY <1>1, <1>2, <2>2
  <2> QED
    BY <2>1, <2>2
<1>8. bank' <= Len(machine.reg) => Arc!First(bank)' <= walked' /\ walked' <= Arc!End(bank)' /\ e <= walked'
  <2>1. Arc!First(bank)' = Arc!First(bank + 1) /\ Arc!End(bank)' = Arc!End(bank + 1)
    BY <1>1, Zenon DEF Arc!End, Arc!First, Arc!Page
  <2> QED
    BY <1>7, <2>1, Zenon
<1>9. ArcPassed'
  <2>1. ~\E n \in 1 .. 1 - 1 : TRUE
    OBVIOUS
  <2> QED
    BY <1>1, <2>1, Zenon DEF ArcPassed
<1>10. \A p \in walked .. e - 1 : ~IsAvailable(p)
  <2> SUFFICES ASSUME NEW p \in walked .. e - 1, NEW n \in 1 .. Len(machine.available), Overlaps(machine.available[n], p)
               PROVE  FALSE
    BY DEF IsAvailable
  <2>1. p \in Nat /\ walked <= p /\ p < e /\ n \in 1 .. slot - 1
    <3> HIDE DEF e
    <3> QED
      BY <1>1, <1>2
  <2> QED
    BY <1>1, <2>1, PassedIsBehind
<1>11. \A p \in e .. e - 1 : IsAvailable(p)
  <2> HIDE DEF e
  <2> QED
    BY <1>2
<1>12. \A p \in Nat : p \in Reached' <=> p \in Reached \/ p \in walked .. e - 1
  <2> SUFFICES ASSUME NEW p \in Nat PROVE p \in Reached' <=> p \in Reached \/ p \in walked .. e - 1
    OBVIOUS
  <2> DEFINE In(n) == p \in Arc!First(n) .. Arc!End(n) - 1
             Before == \E n \in 1 .. bank - 1 : n <= Len(machine.reg) /\ In(n)
  <2>1. p \in Reached <=> Before \/ p \in Arc!First(bank) .. walked - 1
    BY <1>1, Zenon DEF Reached
  <2>2. p \in Reached' <=> \/ \E n \in 1 .. (bank + 1) - 1 : n <= Len(machine.reg) /\ In(n)
                           \/ bank + 1 <= Len(machine.reg) /\ p \in Arc!First(bank + 1) .. walked' - 1
    BY <1>1, Zenon DEF Reached, Arc!First, Arc!End, Arc!Page
  <2>3. ~(bank + 1 <= Len(machine.reg) /\ p \in Arc!First(bank + 1) .. walked' - 1)
    <3> SUFFICES ASSUME bank + 1 <= Len(machine.reg), p \in Arc!First(bank + 1) .. walked' - 1 PROVE FALSE
      OBVIOUS
    <3>1. bank < Len(machine.reg)
      BY <1>2
    <3>2. Arc!First(bank + 1) \in Nat /\ walked' = Arc!First(bank + 1)
      BY <1>6, <3>1
    <3> QED
      BY <3>2
  <2>4. In(bank) <=> p \in Arc!First(bank) .. walked - 1 \/ p \in walked .. e - 1
    <3> DEFINE first == Arc!First(bank)
    <3>1. In(bank) <=> p \in first .. e - 1
      OBVIOUS
    <3> HIDE DEF first, e, In
    <3>2. first \in Nat /\ first <= walked /\ walked \in Nat /\ e \in Nat /\ walked <= e
      BY <1>2 DEF first
    <3> QED
      BY <3>1, <3>2 DEF first
  <2> HIDE DEF In
  <2>5. (\E n \in 1 .. (bank + 1) - 1 : n <= Len(machine.reg) /\ In(n)) <=> Before \/ In(bank)
    BY <1>2
  <2> HIDE DEF Before
  <2> QED
    BY <2>1, <2>2, <2>3, <2>4, <2>5, Zenon
<1>13. e <= Arc!End(bank) /\ e <= e
  BY <1>2
<1> HIDE DEF e
<1> QED
  BY <1>1, <1>2, <1>5, <1>7, <1>8, <1>9, <1>10, <1>11, <1>12, <1>13, SplitKeeps

LEMMA ArcStart == Arc!Init => ArcInv
<1> SUFFICES ASSUME Arc!Init PROVE ArcInv
  OBVIOUS
<1>1. machine \in Machines /\ descs = <<>> /\ bank = 1 /\ slot = 1 /\ walked = Arc!First(1) /\ todo = <<>>
  BY Zenon DEF Arc!Init
<1>2. 1 \in 1 .. Len(machine.reg) /\ Len(machine.reg) \in Nat /\ Len(machine.available) \in Nat
  BY <1>1, MachineIs
<1>3. Arc!First(1) \in Nat /\ Arc!End(1) \in Nat /\ Arc!First(1) <= Arc!End(1)
  BY <1>1, <1>2, BanksAscend
<1>4. DOMAIN descs = {} /\ DOMAIN todo = {} /\ Len(todo) = 0
  BY <1>1
<1>5. ArcTypes
  BY <1>1, <1>2, <1>3 DEF ArcTypes
<1>6. ArcOrder
  BY <1>1, <1>2, <1>3, <1>4 DEF ArcOrder, Below, Ascending, Merged
<1>7. ArcCover
  <2>1. \A p \in Nat : p \notin Reached
    BY <1>1, <1>3 DEF Reached
  <2> QED
    BY <1>4, <2>1, Zenon DEF ArcCover
<1>8. ArcPassed
  <2>1. ~\E n \in 1 .. 1 - 1 : TRUE
    OBVIOUS
  <2> QED
    BY <1>1, <2>1, Zenon DEF ArcPassed
<1>9. ArcUses
  BY <1>4, Zenon DEF ArcUses
<1> QED
  BY <1>5, <1>6, <1>7, <1>8, <1>9, Zenon DEF ArcInv

\* At any step of memory_init, with type_range and add, the descriptors ascend
\* and are merged, and with what is still to be typed they are the installed
\* pages come past, each with the type of its use (memory.c:24-96).
THEOREM ArcInvariant == ServicesSpec => []ArcInv
<1>1. ServicesInit => ArcInv
  BY ArcStart, Zenon DEF ServicesInit
<1>2. ArcInv /\ [ServicesNext]_servicesVars => ArcInv'
  <2> SUFFICES ASSUME ArcInv, [ServicesNext]_servicesVars PROVE ArcInv'
    OBVIOUS
  <2>1. CASE Arc!Next
    BY <2>1, TypeRangeKeeps, NextAvailableKeeps, EndBankKeeps, Zenon DEF Arc!Next
  <2>2. CASE UNCHANGED memoryVars
    BY <2>2, ArcStays, Zenon DEF memoryVars
  <2> QED
    BY <2>1, <2>2, ArcSteps, Zenon
<1> QED
  BY <1>1, <1>2, PTL DEF ServicesSpec

LEMMA ArcInvDescribes == ArcInv => Arc!DescribesMemory
<1> SUFFICES ASSUME ArcInv PROVE Arc!DescribesMemory
  OBVIOUS
<1>1. /\ machine \in Machines /\ bank \in 1 .. Len(machine.reg) + 1 /\ descs \in Seq(DescOf)
      /\ Ascending(descs) /\ Merged(descs) /\ ArcCover
      /\ \A k \in DOMAIN descs : \A p \in Arc!Pages(descs[k]) : descs[k].type = Arc!UseOf(p)
  BY Zenon DEF ArcInv, ArcTypes, ArcOrder, ArcUses
<1>2. DOMAIN descs = 1 .. Len(descs) /\ Len(descs) \in Nat
  BY <1>1
<1>3. \A k \in 1 .. Len(descs) : descs[k].base \in Nat /\ descs[k].count \in Nat
  BY <1>1, <1>2, DescsIn
<1>4. Arc!TypedByUse
  BY <1>1, <1>2, Zenon DEF Arc!TypedByUse
<1>5. Arc!AscendAndMerge
  <2>1. \A k \in 1 .. Len(descs) - 1 : k \in 1 .. Len(descs) /\ k + 1 \in 1 .. Len(descs) /\ k < k + 1
    BY <1>2
  <2> QED
    BY <1>1, <1>2, <2>1, Zenon DEF Arc!AscendAndMerge, Ascending, Merged
<1>6. ASSUME Arc!Done PROVE \A p \in Arc!Installed : Arc!Cardinality({k \in 1 .. Len(descs) : p \in Arc!Pages(descs[k])}) = 1
  <2>1. bank > Len(machine.reg) /\ todo = <<>>
    BY <1>6, Zenon DEF Arc!Done
  <2>2. \A p \in Arc!Installed : p \in Reached
    <3> SUFFICES ASSUME NEW n \in 1 .. Len(machine.reg), NEW p \in Arc!First(n) .. Arc!End(n) - 1 PROVE p \in Reached
      BY Zenon DEF Arc!Installed
    <3> DEFINE first == Arc!First(n)
               last == Arc!End(n)
    <3>1. first \in Nat /\ last \in Nat
      BY <1>1, BanksAscend
    <3>2. p \in first .. last - 1
      OBVIOUS
    <3> HIDE DEF first, last
    <3>3. p \in Nat
      BY <3>1, <3>2
    <3>4. n \in 1 .. bank - 1 /\ n <= Len(machine.reg)
      BY <1>1, <2>1, MachineIs
    <3> QED
      BY <3>3, <3>4, Zenon DEF Reached
  <2> SUFFICES ASSUME NEW p \in Arc!Installed
               PROVE  Arc!Cardinality({k \in 1 .. Len(descs) : p \in Arc!Pages(descs[k])}) = 1
    OBVIOUS
  <2>3. p \in Nat
    BY <2>2 DEF Reached
  <2>4. \E k \in 1 .. Len(descs) : p \in Arc!Pages(descs[k])
    <3>1. ~\E i \in DOMAIN todo : p \in todo[i].base .. todo[i].end - 1
      BY <2>1
    <3> QED
      BY <1>1, <1>2, <2>2, <2>3, <3>1, Zenon DEF ArcCover
  <2>5. PICK k \in 1 .. Len(descs) : p \in Arc!Pages(descs[k])
    BY <2>4
  <2>6. ASSUME NEW j \in 1 .. Len(descs), NEW i \in 1 .. Len(descs), j < i,
               p \in Arc!Pages(descs[j]), p \in Arc!Pages(descs[i])
        PROVE  FALSE
    <3>1. descs[j].base + descs[j].count <= descs[i].base
      BY <1>1, <1>2, <2>6 DEF Ascending
    <3> QED
      BY <1>3, <2>3, <2>6, <3>1, SMTT(60) DEF Arc!Pages
  <2>7. \A j \in 1 .. Len(descs) : p \in Arc!Pages(descs[j]) => j = k
    <3> SUFFICES ASSUME NEW j \in 1 .. Len(descs), p \in Arc!Pages(descs[j]), j # k PROVE FALSE
      OBVIOUS
    <3>1. j < k \/ k < j
      BY <1>2
    <3> QED
      BY <2>5, <2>6, <3>1
  <2>8. {j \in 1 .. Len(descs) : p \in Arc!Pages(descs[j])} = {k}
    BY <2>5, <2>7, Zenon
  <2>9. Cardinality({k}) = 1
    BY FS_Singleton
  <2> QED
    BY <2>8, <2>9, Zenon DEF Arc!Cardinality, Cardinality
<1>7. ASSUME Arc!Done, NEW k \in 1 .. Len(descs), NEW p \in Arc!Pages(descs[k]) PROVE p \in Arc!Installed
  <2>1. p \in Nat
    BY <1>3 DEF Arc!Pages
  <2>2. p \in Reached
    BY <1>1, <1>2, <2>1, Zenon DEF ArcCover
  <2>3. bank > Len(machine.reg)
    BY <1>7, Zenon DEF Arc!Done
  <2>4. \E n \in 1 .. bank - 1 : n <= Len(machine.reg) /\ p \in Arc!First(n) .. Arc!End(n) - 1
    <3>1. ~(bank <= Len(machine.reg))
      BY <1>1, <2>3, MachineIs
    <3> QED
      BY <2>2, <3>1, Zenon DEF Reached
  <2>5. PICK n \in 1 .. bank - 1 : n <= Len(machine.reg) /\ p \in Arc!First(n) .. Arc!End(n) - 1
    BY <2>4
  <2>6. n \in 1 .. Len(machine.reg)
    BY <1>1, <2>5, MachineIs
  <2> QED
    BY <2>5, <2>6, Zenon DEF Arc!Installed
<1>8. Arc!EveryPageOnce
  BY <1>6, <1>7, Zenon DEF Arc!EveryPageOnce
<1> QED
  BY <1>4, <1>5, <1>8, Zenon DEF Arc!DescribesMemory

\* When the walk of banks and available ranges ends, each installed page is in
\* one descriptor, of the type of its use, the loader's own pages among them,
\* and the descriptors ascend, no two alike touching (memory.c:70-96).
THEOREM MemoryIsDescribed == ServicesSpec => []DescribesMemory
<1>1. ArcInv => DescribesMemory
  BY ArcInvDescribes, Zenon DEF DescribesMemory
<1> QED
  BY <1>1, ArcInvariant, PTL

-----------------------------------------------------------------------------
(* The environment of the HAL. *)

\* A step of the environment, or none.
LEMMA EnvSteps == [ServicesNext]_servicesVars => Env!Next \/ UNCHANGED envVars
BY Zenon DEF ServicesNext, servicesVars

NameOf == Variables \cup {Env!SystemPartition}
Kept == [var : NameOf, val : Values]

LEMMA EnvNumbers ==
  /\ Size \in Nat \ {0}
  /\ \A v \in NameOf : v.id \in Env!Ids /\ v.length \in Nat
  /\ \A v, w \in NameOf : v.id = w.id => v.length = w.length
  /\ \A v \in Values : v.id \in Nat /\ v.length \in Nat
  /\ \A n \in Lengths : n \in Nat
<1>1. /\ Size \in Nat \ {0} /\ Variables \subseteq [id : Nat, spelt : STRING, length : Nat]
      /\ \A v, w \in NameOf : v.id = w.id => v.length = w.length
      /\ Values \subseteq [id : Nat, length : Nat] /\ Lengths \subseteq Nat
  BY ServicesAssumption, Zenon DEF Env!EnvAssumption, NameOf
<1>2. \A v \in NameOf : v.id \in Env!Ids /\ v.length \in Nat
  <2>1. Env!SystemPartition.id = 1 /\ Env!SystemPartition.length = 1
    BY DEF Env!SystemPartition
  <2>2. \A v \in [id : Nat, spelt : STRING, length : Nat] : v.length \in Nat
    OBVIOUS
  <2>3. \A v \in Variables : v.length \in Nat /\ v.id \in Env!Ids
    BY <1>1, <2>2, Zenon DEF Env!Ids
  <2>4. 1 \in Env!Ids
    BY Zenon DEF Env!Ids
  <2>5. 1 \in Nat
    OBVIOUS
  <2> QED
    BY <2>1, <2>3, <2>4, <2>5, Zenon DEF NameOf
<1>3. \A v \in [id : Nat, length : Nat] : v.id \in Nat /\ v.length \in Nat
  OBVIOUS
<1> QED
  BY <1>1, <1>2, <1>3, Zenon

\* An entry is a name and a value, and takes their bytes and two more.
LEMMA KeptIs ==
  ASSUME NEW e \in Kept
  PROVE  e.var \in NameOf /\ e.val \in Values /\ Env!Bytes(e) \in Nat /\ Env!Bytes(e) = e.var.length + e.val.length + 2
<1>1. e.var \in NameOf /\ e.val \in Values
  BY DEF Kept
<1>2. e.var.length \in Nat /\ e.val.length \in Nat
  BY <1>1, EnvNumbers
<1> QED
  BY <1>1, <1>2 DEF Env!Bytes

\* The bytes of the entries up to the k-th, and the terminator of the store.
Walks(f, s) == f \in [0 .. Len(s) -> Nat] /\ f[0] = 1 /\ \A k \in 1 .. Len(s) : f[k] = f[k - 1] + Env!Bytes(s[k])

\* HalpEnvUsed counts them, one entry after the other (misc.c:48-57).
LEMMA UsedIs ==
  ASSUME NEW s \in Seq(Kept)
  PROVE  \E f : Walks(f, s) /\ Env!HalpEnvUsed(s) = f[Len(s)]
<1> DEFINE n == Len(s)
           Is(g) == g = [k \in 0 .. n |-> IF k = 0 THEN 1 ELSE g[k - 1] + Env!Bytes(s[k])]
           step == [k \in 1 .. n |-> [u \in Nat |-> u + Env!Bytes(s[k])]]
<1>1. n \in Nat /\ \A k \in 1 .. n : Env!Bytes(s[k]) \in Nat
  <2>1. \A k \in 1 .. n : s[k] \in Kept
    OBVIOUS
  <2> QED
    BY <2>1, KeptIs
<1> HIDE DEF n
<1>2. StayIn(Nat, step, n)
  BY <1>1 DEF StayIn
<1>3. \A k \in 1 .. n : \A u \in Nat : step[k][u] = u + Env!Bytes(s[k])
  OBVIOUS
<1> HIDE DEF step
<1>4. PICK g : Takes(g, Nat, 1, step, n)
  <2>1. 1 \in Nat
    OBVIOUS
  <2> QED
    BY <1>1, <1>2, <2>1, RecursionExists
<1>5. g \in [0 .. n -> Nat] /\ g[0] = 1 /\ \A k \in 1 .. n : g[k] = g[k - 1] + Env!Bytes(s[k])
  <2>1. g \in [0 .. n -> Nat] /\ g[0] = 1 /\ \A k \in 1 .. n : g[k] = step[k][g[k - 1]]
    BY <1>4, Zenon DEF Takes
  <2>2. \A k \in 1 .. n : g[k - 1] \in Nat
    <3>1. \A k \in 1 .. n : k - 1 \in 0 .. n
      BY <1>1
    <3> QED
      BY <2>1, <3>1, Zenon
  <2> QED
    BY <1>3, <2>1, <2>2
<1>6. Is(g)
  <2>1. \A k \in 0 .. n : g[k] = IF k = 0 THEN 1 ELSE g[k - 1] + Env!Bytes(s[k])
    BY <1>5
  <2> QED
    BY <1>5, <2>1
<1> DEFINE used == CHOOSE f : Is(f)
<1>7. Is(used)
  BY <1>6, Zenon
<1>8. Env!HalpEnvUsed(s) = used[n]
  BY Zenon DEF Env!HalpEnvUsed, n
<1> HIDE DEF used
<1>9. used[0] = 1 /\ \A k \in 1 .. n : used[k] = used[k - 1] + Env!Bytes(s[k])
  BY <1>1, <1>7
<1>10. \A k \in 0 .. n : used[k] \in Nat
  <2> DEFINE S == {k \in 0 .. n : used[k] \in Nat}
  <2>1. 0 \in S /\ \A k \in 1 .. n : k - 1 \in S => k \in S
    BY <1>1, <1>9, SMTT(60)
  <2>2. \A k \in 0 .. n : k \in S
    <3> HIDE DEF S
    <3> QED
      BY <1>1, <2>1, InductionTo
  <2> QED
    BY <2>2
<1>11. Walks(used, s)
  BY <1>7, <1>9, <1>10 DEF Walks, n
<1> QED
  BY <1>8, <1>11 DEF n

\* Of an empty store, the terminator.
LEMMA UsedOfEmpty == Env!HalpEnvUsed(<<>>) = 1
<1>1. <<>> \in Seq(Kept) /\ Len(<<>>) = 0
  OBVIOUS
<1>2. PICK f : Walks(f, <<>>) /\ Env!HalpEnvUsed(<<>>) = f[Len(<<>>)]
  BY <1>1, UsedIs
<1> QED
  BY <1>1, <1>2, Zenon DEF Walks

\* An entry at the end adds its bytes.
LEMMA UsedOfMore ==
  ASSUME NEW s \in Seq(Kept), NEW e \in Kept
  PROVE  /\ Env!HalpEnvUsed(s) \in Nat
         /\ Env!HalpEnvUsed(Append(s, e)) = Env!HalpEnvUsed(s) + Env!Bytes(e)
<1> DEFINE more == Append(s, e)
           n == Len(s)
<1>1. /\ more \in Seq(Kept) /\ Len(more) = n + 1 /\ more[n + 1] = e /\ n \in Nat
      /\ \A k \in 1 .. n : more[k] = s[k]
  BY AppendProperties
<1> HIDE DEF more
<1>2. PICK f : Walks(f, s) /\ Env!HalpEnvUsed(s) = f[Len(s)]
  BY UsedIs
<1>3. PICK g : Walks(g, more) /\ Env!HalpEnvUsed(more) = g[Len(more)]
  BY <1>1, UsedIs
<1>4. /\ f \in [0 .. n -> Nat] /\ f[0] = 1 /\ \A k \in 1 .. n : f[k] = f[k - 1] + Env!Bytes(s[k])
      /\ g \in [0 .. n + 1 -> Nat] /\ g[0] = 1 /\ \A k \in 1 .. n + 1 : g[k] = g[k - 1] + Env!Bytes(more[k])
  BY <1>1, <1>2, <1>3, Zenon DEF Walks
<1> HIDE DEF n
<1>5. \A k \in 0 .. n : g[k] = f[k]
  <2> DEFINE S == {k \in 0 .. n : g[k] = f[k]}
  <2>1. 0 \in S /\ \A k \in 1 .. n : k - 1 \in S => k \in S
    <3>1. \A k \in 1 .. n : k \in 1 .. n + 1 /\ more[k] = s[k] /\ k \in 0 .. n /\ k - 1 \in 0 .. n
      BY <1>1
    <3>2. 0 \in 0 .. n
      BY <1>1
    <3> QED
      BY <1>4, <3>1, <3>2, Zenon
  <2>2. \A k \in 0 .. n : k \in S
    <3> HIDE DEF S
    <3> QED
      BY <1>1, <2>1, InductionTo
  <2> QED
    BY <2>2
<1>6. g[n + 1] = g[n] + Env!Bytes(e) /\ g[n] = f[n] /\ f[n] \in Nat
  <2>1. n + 1 \in 1 .. n + 1 /\ (n + 1) - 1 = n /\ n \in 0 .. n
    BY <1>1
  <2> QED
    BY <1>1, <1>4, <1>5, <2>1
<1> QED
  BY <1>1, <1>2, <1>3, <1>6 DEF more, n

\* What is left when an entry goes: those before it, and those after it moved down.
LEMMA RemovedIs ==
  ASSUME NEW s \in Seq(Kept), NEW at \in 1 .. Len(s)
  PROVE  LET t == Env!RemoveAt(s, at)
         IN  /\ t \in Seq(Kept) /\ Len(t) = Len(s) - 1
             /\ \A k \in 1 .. Len(s) - 1 : t[k] = IF k < at THEN s[k] ELSE s[k + 1]
<1> DEFINE n == Len(s)
           front == SubSeq(s, 1, at - 1)
           back == SubSeq(s, at + 1, n)
<1>1. n \in Nat /\ at \in 1 .. n /\ \A k \in 1 .. n : s[k] \in Kept
  OBVIOUS
<1> HIDE DEF n
<1>2. front \in Seq(Kept) /\ Len(front) = at - 1 /\ \A k \in 1 .. at - 1 : front[k] = s[k]
  <2>1. 1 \in Int /\ at - 1 \in Int /\ \A k \in 1 .. at - 1 : s[k] \in Kept
    BY <1>1
  <2>2. /\ front \in Seq(Kept) /\ Len(front) = (IF 1 <= at - 1 THEN (at - 1) - 1 + 1 ELSE 0)
        /\ \A k \in 1 .. (at - 1) - 1 + 1 : front[k] = s[1 + k - 1]
    BY <2>1, SubSeqProperties
  <2> HIDE DEF front
  <2>3. (at - 1) - 1 + 1 = at - 1 /\ \A k \in 1 .. at - 1 : 1 + k - 1 = k
    BY <1>1
  <2> QED
    BY <1>1, <2>2, <2>3
<1>3. back \in Seq(Kept) /\ Len(back) = n - at /\ \A k \in 1 .. n - at : back[k] = s[at + k]
  <2>1. at + 1 \in Int /\ n \in Int /\ \A k \in at + 1 .. n : s[k] \in Kept
    BY <1>1
  <2>2. /\ back \in Seq(Kept) /\ Len(back) = (IF at + 1 <= n THEN n - (at + 1) + 1 ELSE 0)
        /\ \A k \in 1 .. n - (at + 1) + 1 : back[k] = s[(at + 1) + k - 1]
    BY <2>1, SubSeqProperties
  <2> HIDE DEF back
  <2>3. n - (at + 1) + 1 = n - at /\ \A k \in 1 .. n - at : (at + 1) + k - 1 = at + k
    BY <1>1
  <2> QED
    BY <1>1, <2>2, <2>3
<1> HIDE DEF front, back
<1> DEFINE t == front \o back
<1>4. t = Env!RemoveAt(s, at)
  BY Zenon DEF Env!RemoveAt, front, back, n
<1>5. /\ t \in Seq(Kept) /\ Len(t) = Len(front) + Len(back)
      /\ \A k \in 1 .. Len(front) + Len(back) : t[k] = IF k <= Len(front) THEN front[k] ELSE back[k - Len(front)]
  BY <1>2, <1>3, ConcatProperties
<1> HIDE DEF t
<1>6. Len(t) = n - 1
  BY <1>1, <1>2, <1>3, <1>5
<1>7. \A k \in 1 .. n - 1 : t[k] = IF k < at THEN s[k] ELSE s[k + 1]
  <2> SUFFICES ASSUME NEW k \in 1 .. n - 1 PROVE t[k] = IF k < at THEN s[k] ELSE s[k + 1]
    OBVIOUS
  <2>1. t[k] = IF k <= at - 1 THEN front[k] ELSE back[k - (at - 1)]
    <3>1. k \in 1 .. (at - 1) + (n - at)
      BY <1>1
    <3> QED
      BY <1>2, <1>3, <1>5, <3>1
  <2>2. CASE k < at
    BY <1>1, <1>2, <2>1, <2>2
  <2>3. CASE ~(k < at)
    <3>1. ~(k <= at - 1) /\ k - (at - 1) \in 1 .. n - at /\ at + (k - (at - 1)) = k + 1
      BY <1>1, <2>3
    <3>2. t[k] = back[k - (at - 1)] /\ back[k - (at - 1)] = s[at + (k - (at - 1))]
      BY <1>3, <2>1, <3>1, Zenon
    <3> QED
      BY <2>3, <3>1, <3>2
  <2> QED
    BY <2>2, <2>3
<1> QED
  BY <1>4, <1>5, <1>6, <1>7, Zenon DEF n

\* An entry that goes takes its bytes with it.
LEMMA UsedOfLess ==
  ASSUME NEW s \in Seq(Kept), NEW at \in 1 .. Len(s)
  PROVE  Env!HalpEnvUsed(Env!RemoveAt(s, at)) + Env!Bytes(s[at]) = Env!HalpEnvUsed(s)
<1> DEFINE t == Env!RemoveAt(s, at)
           n == Len(s)
           b == Env!Bytes(s[at])
<1>1. /\ t \in Seq(Kept) /\ Len(t) = n - 1 /\ \A k \in 1 .. n - 1 : t[k] = IF k < at THEN s[k] ELSE s[k + 1]
  BY RemovedIs
<1>2. n \in Nat /\ at \in 1 .. n /\ b \in Nat
  <2>1. s[at] \in Kept
    OBVIOUS
  <2> QED
    BY <2>1, KeptIs
<1>3. PICK f : Walks(f, s) /\ Env!HalpEnvUsed(s) = f[Len(s)]
  BY UsedIs
<1> HIDE DEF t
<1>4. PICK g : Walks(g, t) /\ Env!HalpEnvUsed(t) = g[Len(t)]
  BY <1>1, UsedIs
<1>5. /\ f \in [0 .. n -> Nat] /\ f[0] = 1 /\ \A k \in 1 .. n : f[k] = f[k - 1] + Env!Bytes(s[k])
      /\ g \in [0 .. n - 1 -> Nat] /\ g[0] = 1 /\ \A k \in 1 .. n - 1 : g[k] = g[k - 1] + Env!Bytes(t[k])
  BY <1>1, <1>3, <1>4, Zenon DEF Walks
<1>6. f[at] = f[at - 1] + b
  BY <1>2, <1>5, Zenon
<1> HIDE DEF n, b
<1> DEFINE S == {k \in 0 .. n - 1 : IF k < at THEN g[k] = f[k] ELSE g[k] + b = f[k + 1]}
<1>7. 0 \in S
  BY <1>2, <1>5
<1>8. ASSUME NEW k \in 1 .. n - 1, k - 1 \in S PROVE k \in S
  <2>1. g[k] = g[k - 1] + Env!Bytes(t[k]) /\ k \in 0 .. n - 1 /\ k - 1 \in 0 .. n - 1 /\ k \in 1 .. n /\ k + 1 \in 1 .. n /\ (k + 1) - 1 = k
    BY <1>2, <1>5
  <2>2. g[k - 1] \in Nat /\ f[k] \in Nat /\ f[k - 1] \in Nat /\ f[k + 1] \in Nat /\ g[k] \in Nat
    <3>1. \A i \in 0 .. n : f[i] \in Nat
      BY <1>5
    <3>2. \A i \in 0 .. n - 1 : g[i] \in Nat
      BY <1>5
    <3>3. k \in 0 .. n /\ k - 1 \in 0 .. n /\ k + 1 \in 0 .. n
      BY <1>2
    <3> QED
      BY <2>1, <3>1, <3>2, <3>3, Zenon
  <2>3. f[k] = f[k - 1] + Env!Bytes(s[k]) /\ f[k + 1] = f[k] + Env!Bytes(s[k + 1])
    BY <1>5, <2>1
  <2>4. Env!Bytes(s[k]) \in Nat /\ Env!Bytes(s[k + 1]) \in Nat
    <3>1. s[k] \in Kept /\ s[k + 1] \in Kept
      BY <2>1 DEF n
    <3> QED
      BY <3>1, KeptIs
  <2>5. CASE k < at
    <3>1. t[k] = s[k]
      BY <1>1, <2>5
    <3>2. g[k - 1] = f[k - 1]
      BY <1>2, <1>8, <2>1, <2>5
    <3> QED
      BY <2>1, <2>3, <2>5, <3>1, <3>2
  <2>6. CASE k = at
    <3>1. t[k] = s[k + 1]
      BY <1>1, <1>2, <2>6
    <3>2. g[k - 1] = f[k - 1]
      BY <1>2, <1>8, <2>1, <2>6
    <3>3. g[k] + b = f[k + 1]
      BY <1>2, <1>6, <2>1, <2>2, <2>3, <2>4, <2>6, <3>1, <3>2, SMTT(60)
    <3> QED
      BY <1>2, <2>1, <2>6, <3>3
  <2>7. CASE k > at
    <3>1. t[k] = s[k + 1]
      BY <1>1, <1>2, <2>7
    <3>2. g[k - 1] + b = f[k]
      <4>1. ~(k - 1 < at) /\ (k - 1) + 1 = k
        BY <1>2, <2>7
      <4> QED
        BY <1>8, <4>1
    <3>3. g[k] + b = f[k + 1]
      BY <1>2, <2>1, <2>2, <2>3, <2>4, <3>1, <3>2, SMTT(60)
    <3> QED
      BY <1>2, <2>1, <2>7, <3>3
  <2> QED
    BY <1>2, <2>5, <2>6, <2>7
<1>9. \A k \in 0 .. n - 1 : k \in S
  <2>1. n - 1 \in Nat
    BY <1>2
  <2> HIDE DEF S
  <2> QED
    BY <1>7, <1>8, <2>1, InductionTo
\* All of it but one entry's bytes.
<1>10. g[n - 1] + b = f[n]
  <2>1. n - 1 \in S /\ n - 1 \in 0 .. n - 1 /\ (n - 1) + 1 = n
    BY <1>2, <1>9
  <2>2. CASE n - 1 < at
    <3>1. n = at /\ g[n - 1] = f[n - 1]
      BY <1>2, <2>1, <2>2
    <3> QED
      BY <1>6, <3>1
  <2>3. CASE ~(n - 1 < at)
    BY <2>1, <2>3
  <2> QED
    BY <2>2, <2>3
<1> QED
  BY <1>1, <1>3, <1>4, <1>10 DEF t, n, b

Once(s) == \A j, k \in 1 .. Len(s) : s[j].var.id = s[k].var.id => j = k

\* The entries are of known names, with a value; none is stale, and all fit.
EnvInv ==
  /\ store \in Seq(Kept) /\ DOMAIN set = Env!Ids
  /\ \A k \in 1 .. Len(store) : store[k].val.length > 0
  /\ Env!StoreFits /\ Env!NeverStale /\ Env!BufferIsKept

\* The entry of a name is the only one of it.
LEMMA FindIs ==
  ASSUME Once(store), NEW var
  PROVE  \/ Env!HalpEnvFind(var) = {} /\ \A k \in 1 .. Len(store) : store[k].var.id # var.id
         \/ \E j \in 1 .. Len(store) : /\ Env!HalpEnvFind(var) = {j} /\ Env!Min(Env!HalpEnvFind(var)) = j
                                       /\ store[j].var.id = var.id
<1> DEFINE same == {k \in 1 .. Len(store) : store[k].var.id = var.id}
<1>1. same = {k \in 1 .. Len(store) : Env!HalpEnvNameIs(store[k], var)}
  BY Zenon DEF Env!HalpEnvNameIs
<1>2. CASE same = {}
  <2>1. Env!HalpEnvFind(var) = {}
    BY <1>1, <1>2, Zenon DEF Env!HalpEnvFind
  <2> QED
    BY <1>2, <2>1
<1>3. CASE same # {}
  <2>1. PICK j \in 1 .. Len(store) : store[j].var.id = var.id
    BY <1>3
  <2>2. same = {j}
    BY <2>1 DEF Once
  <2> HIDE DEF same
  <2>3. Env!Min({j}) = j
    <3>1. j <= j
      OBVIOUS
    <3>2. \E x \in {j} : \A y \in {j} : x <= y
      BY <3>1
    <3>3. Env!Min({j}) \in {j}
      BY <3>2, Zenon DEF Env!Min
    <3> QED
      BY <3>3
  <2>4. Env!HalpEnvFind(var) = {Env!Min(same)}
    BY <1>1, <1>3, Zenon DEF Env!HalpEnvFind
  <2>5. Env!HalpEnvFind(var) = {j}
    BY <2>2, <2>3, <2>4, Zenon
  <2> QED
    BY <2>1, <2>3, <2>5, Zenon
<1> QED
  BY <1>2, <1>3

\* What is left of the store when a name's entry is taken out (misc.c:72-89).
Without(s, var, rest) ==
  /\ rest \in Seq(Kept) /\ Once(rest)
  /\ \A k \in 1 .. Len(rest) : rest[k].var.id # var.id /\ \E j \in 1 .. Len(s) : rest[k] = s[j]
  /\ \A j \in 1 .. Len(s) : s[j].var.id # var.id => \E k \in 1 .. Len(rest) : rest[k] = s[j]
  /\ Env!HalpEnvUsed(rest) \in Nat /\ Env!HalpEnvUsed(rest) <= Env!HalpEnvUsed(s)
  /\ \A j \in 1 .. Len(s) : s[j].var.id = var.id => Env!HalpEnvUsed(rest) + Env!Bytes(s[j]) = Env!HalpEnvUsed(s)

\* Removing a name leaves the others, in their order (misc.c:74-85).
LEMMA RemoveTakesOut ==
  ASSUME store \in Seq(Kept), Once(store), NEW var
  PROVE  Without(store, var, Env!HalpEnvRemove(var))
<1> DEFINE rest == Env!HalpEnvRemove(var)
           n == Len(store)
<1>1. /\ n \in Nat /\ Env!HalpEnvUsed(store) \in Nat
      /\ \A j \in 1 .. n : Env!Bytes(store[j]) \in Nat
  <2>1. \A j \in 1 .. n : store[j] \in Kept
    OBVIOUS
  <2>2. PICK f : Walks(f, store) /\ Env!HalpEnvUsed(store) = f[Len(store)]
    BY UsedIs
  <2>3. f \in [0 .. n -> Nat] /\ n \in Nat /\ n \in 0 .. n
    BY <2>2 DEF Walks
  <2> QED
    BY <2>1, <2>2, <2>3, KeptIs
<1>2. CASE Env!HalpEnvFind(var) = {} /\ \A k \in 1 .. n : store[k].var.id # var.id
  <2>1. rest = store
    BY <1>2, Zenon DEF Env!HalpEnvRemove
  <2>2. Without(store, var, store)
    <3>1. Env!HalpEnvUsed(store) <= Env!HalpEnvUsed(store)
      BY <1>1
    <3> QED
      BY <1>1, <1>2, <3>1, Zenon DEF Without
  <2> QED
    BY <2>1, <2>2, Zenon
<1>3. ASSUME NEW at \in 1 .. n, Env!HalpEnvFind(var) = {at}, Env!Min(Env!HalpEnvFind(var)) = at, store[at].var.id = var.id
      PROVE  Without(store, var, rest)
  <2>1. rest = Env!RemoveAt(store, at)
    <3>1. {at} # {}
      OBVIOUS
    <3> QED
      BY <1>3, <3>1, Zenon DEF Env!HalpEnvRemove
  <2>2. /\ rest \in Seq(Kept) /\ Len(rest) = n - 1
        /\ \A k \in 1 .. n - 1 : rest[k] = IF k < at THEN store[k] ELSE store[k + 1]
    BY <2>1, RemovedIs
  <2>3. Env!HalpEnvUsed(rest) + Env!Bytes(store[at]) = Env!HalpEnvUsed(store)
    BY <2>1, UsedOfLess
  <2> HIDE DEF rest
  <2> DEFINE from(k) == IF k < at THEN k ELSE k + 1
  <2>4. \A k \in 1 .. n - 1 : from(k) \in 1 .. n /\ from(k) # at /\ rest[k] = store[from(k)]
    BY <1>1, <2>2
  <2>5. \A j, k \in 1 .. n - 1 : from(j) = from(k) => j = k
    BY <1>1
  <2>6. \A j \in 1 .. n : j # at => \E k \in 1 .. n - 1 : from(k) = j
    <3> SUFFICES ASSUME NEW j \in 1 .. n, j # at PROVE \E k \in 1 .. n - 1 : from(k) = j
      OBVIOUS
    <3>1. CASE j < at
      <4>1. j \in 1 .. n - 1 /\ from(j) = j
        BY <1>1, <3>1
      <4> QED
        BY <4>1
    <3>2. CASE at < j
      <4>1. j - 1 \in 1 .. n - 1 /\ from(j - 1) = j
        BY <1>1, <3>2
      <4> QED
        BY <4>1
    <3> QED
      BY <3>1, <3>2
  <2> HIDE DEF from
  <2>7. Once(rest)
    BY <2>2, <2>4, <2>5 DEF Once
  <2>8. \A k \in 1 .. Len(rest) : rest[k].var.id # var.id /\ \E j \in 1 .. n : rest[k] = store[j]
    BY <1>3, <2>2, <2>4 DEF Once
  <2>9. \A j \in 1 .. n : store[j].var.id # var.id => \E k \in 1 .. Len(rest) : rest[k] = store[j]
    BY <1>3, <2>2, <2>4, <2>6
  <2>10. Env!HalpEnvUsed(rest) \in Nat
    <3>1. PICK f : Walks(f, rest) /\ Env!HalpEnvUsed(rest) = f[Len(rest)]
      BY <2>2, UsedIs
    <3>2. f \in [0 .. Len(rest) -> Nat] /\ Len(rest) \in 0 .. Len(rest)
      BY <2>2, <3>1 DEF Walks
    <3> QED
      BY <3>1, <3>2
  <2>11. Env!HalpEnvUsed(rest) <= Env!HalpEnvUsed(store)
    BY <1>1, <2>3, <2>10
  <2>12. \A j \in 1 .. n : store[j].var.id = var.id => j = at
    BY <1>3 DEF Once
  <2> QED
    BY <2>2, <2>3, <2>7, <2>8, <2>9, <2>10, <2>11, <2>12, Zenon DEF Without
<1> QED
  BY <1>2, <1>3, FindIs

\* A variable set: the store keeps what it must of the new value and of all others.
OtherNamesKept ==
  \A k \in 1 .. Len(store) : LET e == store[k]
     IN  set'[e.var.id] = set[e.var.id] => \E j \in 1 .. Len(store') : store'[j].val = e.val /\ store'[j].var.id = e.var.id

\* HalSetEnvironmentVariable, whether it finds room or not (misc.c:107-128).
LEMMA SetKeeps ==
  ASSUME EnvInv, NEW var \in NameOf, NEW val \in Values, Env!HalSetEnvironmentVariable(var, val), answer' = Env!NoAnswer
  PROVE  EnvInv' /\ OtherNamesKept
<1> DEFINE rest == Env!HalpEnvRemove(var)
           e == [var |-> var, val |-> val]
<1>1. /\ store \in Seq(Kept) /\ DOMAIN set = Env!Ids /\ Env!HalpEnvUsed(store) <= Size
      /\ \A k \in 1 .. Len(store) : store[k].val.length > 0
      /\ \A k \in 1 .. Len(store) : store[k].val = set[store[k].var.id]
  BY Zenon DEF EnvInv, Env!StoreFits, Env!NeverStale
<1>2. Once(store)
  BY Zenon DEF EnvInv, Env!NeverStale, Once
<1>3. Without(store, var, rest)
  BY <1>1, <1>2, RemoveTakesOut, Zenon
<1>4. /\ store' = IF val.length = 0 \/ ~Env!HasRoom(rest, e) THEN rest ELSE Append(rest, e)
      /\ set' = [set EXCEPT ![var.id] = val]
  BY Zenon DEF Env!HalSetEnvironmentVariable
<1>5. e \in Kept /\ e.var = var /\ e.val = val
  BY DEF Kept
<1> HIDE DEF rest, e
<1>6. /\ rest \in Seq(Kept) /\ Once(rest)
      /\ \A k \in 1 .. Len(rest) : rest[k].var.id # var.id /\ \E j \in 1 .. Len(store) : rest[k] = store[j]
      /\ \A j \in 1 .. Len(store) : store[j].var.id # var.id => \E k \in 1 .. Len(rest) : rest[k] = store[j]
      /\ Env!HalpEnvUsed(rest) \in Nat /\ Env!HalpEnvUsed(rest) <= Env!HalpEnvUsed(store)
      /\ \A j \in 1 .. Len(store) : store[j].var.id = var.id => Env!HalpEnvUsed(rest) + Env!Bytes(store[j]) = Env!HalpEnvUsed(store)
  BY <1>3, Zenon DEF Without
<1>7. var.id \in Env!Ids /\ var.length \in Nat /\ val.length \in Nat /\ Size \in Nat
  BY EnvNumbers
<1>8. \A k \in 1 .. Len(store) : store[k] \in Kept /\ store[k].var.id \in Env!Ids /\ store[k].var \in NameOf /\ store[k].val \in Values
  <2>1. \A k \in 1 .. Len(store) : store[k] \in Kept
    BY <1>1
  <2> QED
    BY <2>1, KeptIs, EnvNumbers, Zenon
<1>9. /\ DOMAIN set' = Env!Ids /\ set'[var.id] = val
      /\ \A i \in Env!Ids : i # var.id => set'[i] = set[i]
  BY <1>1, <1>4, <1>7
<1>10. \A k \in 1 .. Len(rest) : /\ rest[k].val.length > 0 /\ rest[k].val = set'[rest[k].var.id]
  BY <1>1, <1>6, <1>8, <1>9
<1>11. Env!BufferIsKept'
  <2>1. "none" \notin {"ESUCCESS", "ENOMEM"} /\ Env!NoAnswer.status = "none"
    BY DEF Env!NoAnswer
  <2>2. answer'.status \notin {"ESUCCESS", "ENOMEM"}
    BY <2>1, Zenon
  <2> QED
    BY <2>2, Zenon DEF Env!BufferIsKept
<1>12. Env!HalpEnvUsed(store) \in Nat
  <2>1. PICK f : Walks(f, store) /\ Env!HalpEnvUsed(store) = f[Len(store)]
    BY <1>1, UsedIs
  <2>2. f \in [0 .. Len(store) -> Nat] /\ Len(store) \in 0 .. Len(store)
    BY <1>1, <2>1 DEF Walks
  <2> QED
    BY <2>1, <2>2
<1>13. Env!Bytes(e) \in Nat /\ Env!Bytes(e) = var.length + val.length + 2
  BY <1>5, KeptIs
<1>14. Env!HasRoom(rest, e) <=> Env!HalpEnvUsed(rest) + Env!Bytes(e) <= Size
  BY <1>6, <1>7, <1>13 DEF Env!HasRoom
\* The value is empty or there is no room: the name has no entry any more.
<1>15. CASE val.length = 0 \/ ~Env!HasRoom(rest, e)
  <2>1. store' = rest
    BY <1>4, <1>15, Zenon
  <2>2. Env!StoreFits'
    <3>1. Env!HalpEnvUsed(rest) <= Size
      BY <1>1, <1>6, <1>7, <1>12
    <3> QED
      BY <2>1, <3>1, ZenonT(60) DEF Env!StoreFits, Env!HalpEnvUsed, Env!Bytes
  <2>3. Env!NeverStale'
    BY <1>6, <1>10, <2>1, Zenon DEF Env!NeverStale, Once
  <2>4. OtherNamesKept
    <3> SUFFICES ASSUME NEW k \in 1 .. Len(store), set'[store[k].var.id] = set[store[k].var.id]
                 PROVE  \E j \in 1 .. Len(rest) : rest[j].val = store[k].val /\ rest[j].var.id = store[k].var.id
      BY <2>1, Zenon DEF OtherNamesKept
    <3>1. CASE store[k].var.id # var.id
      BY <1>6, <3>1, Zenon
    \* Its value was set again: there is room for it.
    <3>2. CASE store[k].var.id = var.id
      <4>1. store[k].val = val
        BY <1>1, <1>9, <3>2, Zenon
      <4>2. store[k].var.length = var.length
        BY <1>8, <3>2, EnvNumbers, Zenon
      <4>3. Env!Bytes(store[k]) = var.length + val.length + 2
        BY <1>8, <4>1, <4>2, KeptIs
      <4>4. Env!HasRoom(rest, e)
        BY <1>1, <1>6, <1>13, <1>14, <3>2, <4>3
      <4>5. val.length > 0
        BY <1>1, <4>1
      <4> QED
        BY <1>7, <1>15, <4>4, <4>5
    <3> QED
      BY <3>1, <3>2
  <2> QED
    BY <1>6, <1>9, <1>10, <1>11, <2>1, <2>2, <2>3, <2>4, Zenon DEF EnvInv
<1>16. CASE ~(val.length = 0 \/ ~Env!HasRoom(rest, e))
  <2> DEFINE more == Append(rest, e)
             n == Len(rest)
  <2>1. store' = more
    BY <1>4, <1>16, Zenon
  <2>2. /\ more \in Seq(Kept) /\ n \in Nat /\ Len(more) = n + 1 /\ more[n + 1] = e
        /\ \A k \in 1 .. n : more[k] = rest[k]
    BY <1>5, <1>6, AppendProperties
  <2>3. Env!HalpEnvUsed(more) <= Size
    <3>1. Env!HalpEnvUsed(more) = Env!HalpEnvUsed(rest) + Env!Bytes(e)
      BY <1>5, <1>6, UsedOfMore
    <3> QED
      BY <1>14, <1>16, <3>1
  <2> HIDE DEF more, n
  <2>4. \A k \in 1 .. n + 1 : k = n + 1 \/ k \in 1 .. n
    BY <2>2
  <2>5. n + 1 \in 1 .. n + 1 /\ \A k \in 1 .. n : k \in 1 .. n + 1
    BY <2>2
  <2>6. Env!StoreFits'
    BY <2>1, <2>3, Zenon DEF Env!StoreFits, Env!HalpEnvUsed, Env!Bytes
  <2>7. Once(more)
    <3> SUFFICES ASSUME NEW j \in 1 .. n + 1, NEW k \in 1 .. n + 1, more[j].var.id = more[k].var.id PROVE j = k
      BY <2>2, Zenon DEF Once
    <3>1. \A i \in 1 .. n : more[i].var.id # var.id
      BY <1>6, <2>2, Zenon DEF n
    <3>2. more[n + 1].var.id = var.id
      BY <1>5, <2>2, Zenon
    <3>3. CASE j \in 1 .. n /\ k \in 1 .. n
      BY <1>6, <2>2, <3>3, Zenon DEF Once, n
    <3> QED
      BY <2>4, <3>1, <3>2, <3>3, Zenon
  <2>8. \A k \in 1 .. Len(more) : more[k].val.length > 0 /\ more[k].val = set'[more[k].var.id]
    <3> SUFFICES ASSUME NEW k \in 1 .. n + 1 PROVE more[k].val.length > 0 /\ more[k].val = set'[more[k].var.id]
      BY <2>2, Zenon
    <3>1. CASE k = n + 1
      <4>1. val.length > 0
        BY <1>7, <1>16
      <4> QED
        BY <1>5, <1>9, <2>2, <3>1, <4>1, Zenon
    <3>2. CASE k \in 1 .. n
      BY <1>10, <2>2, <3>2, Zenon DEF n
    <3> QED
      BY <2>4, <3>1, <3>2, Zenon
  <2>9. Env!NeverStale'
    BY <2>1, <2>7, <2>8, Zenon DEF Env!NeverStale, Once
  <2>10. OtherNamesKept
    <3> SUFFICES ASSUME NEW k \in 1 .. Len(store), set'[store[k].var.id] = set[store[k].var.id]
                 PROVE  \E j \in 1 .. n + 1 : more[j].val = store[k].val /\ more[j].var.id = store[k].var.id
      BY <2>1, <2>2, Zenon DEF OtherNamesKept
    <3>1. CASE store[k].var.id # var.id
      <4>1. PICK j \in 1 .. n : rest[j] = store[k]
        BY <1>6, <3>1, Zenon DEF n
      <4> QED
        BY <2>2, <2>5, <4>1, Zenon
    <3>2. CASE store[k].var.id = var.id
      <4>1. store[k].val = val
        BY <1>1, <1>9, <3>2, Zenon
      <4> QED
        BY <1>5, <2>2, <2>5, <3>2, <4>1, Zenon
    <3> QED
      BY <3>1, <3>2
  <2>11. \A k \in 1 .. Len(store)' : store'[k].val.length > 0
    BY <2>1, <2>8, Zenon
  <2> QED
    BY <1>9, <1>11, <2>1, <2>2, <2>6, <2>9, <2>10, <2>11, Zenon DEF EnvInv
<1> QED
  BY <1>15, <1>16

LEMMA EnvStays == EnvInv /\ UNCHANGED <<store, set>> /\ Env!BufferIsKept' => EnvInv'
<1> SUFFICES ASSUME EnvInv, UNCHANGED <<store, set>>, Env!BufferIsKept' PROVE EnvInv'
  OBVIOUS
<1>1. store' = store /\ set' = set
  OBVIOUS
<1>2. Env!StoreFits'
  <2>1. Env!HalpEnvUsed(store) <= Size
    BY Zenon DEF EnvInv, Env!StoreFits
  <2> QED
    BY <1>1, <2>1, Zenon DEF Env!StoreFits, Env!HalpEnvUsed, Env!Bytes
<1>3. Env!NeverStale'
  BY <1>1, Zenon DEF EnvInv, Env!NeverStale
<1> QED
  BY <1>1, <1>2, <1>3, Zenon DEF EnvInv

\* HalpSeedEnvironment sets a name that is not there (misc.c:136-152).
LEMMA SeedKeeps ==
  ASSUME EnvInv, NEW valid1 \in BOOLEAN, NEW valid2 \in BOOLEAN, NEW p1 \in Values, NEW p2 \in Values,
         Env!HalpSeedEnvironment(<<[valid |-> valid1, path |-> p1], [valid |-> valid2, path |-> p2]>>), answer' = Env!NoAnswer
  PROVE  EnvInv' /\ OtherNamesKept
<1> DEFINE disks == <<[valid |-> valid1, path |-> p1], [valid |-> valid2, path |-> p2]>>
           valid == {k \in 1 .. Len(disks) : disks[k].valid}
<1>1. \/ UNCHANGED <<store, set>>
      \/ valid # {} /\ Env!HalSetEnvironmentVariable(Env!SystemPartition, disks[Env!Min(valid)].path)
  BY Zenon DEF Env!HalpSeedEnvironment
<1>2. CASE UNCHANGED <<store, set>>
  <2>1. "none" \notin {"ESUCCESS", "ENOMEM"} /\ Env!NoAnswer.status = "none"
    BY DEF Env!NoAnswer
  <2>2. answer'.status \notin {"ESUCCESS", "ENOMEM"}
    BY <2>1, Zenon
  <2>3. EnvInv'
    BY <1>2, <2>2, EnvStays, Zenon DEF Env!BufferIsKept
  <2>4. OtherNamesKept
    BY <1>2, Zenon DEF OtherNamesKept
  <2> QED
    BY <2>3, <2>4
<1>3. CASE valid # {} /\ Env!HalSetEnvironmentVariable(Env!SystemPartition, disks[Env!Min(valid)].path)
  <2>1. Len(disks) = 2 /\ disks[1].path = p1 /\ disks[2].path = p2
    OBVIOUS
  <2> HIDE DEF disks
  <2>2. valid \in SUBSET Nat /\ valid \subseteq {1, 2}
    BY <2>1
  <2> HIDE DEF valid
  <2>3. \E x \in valid : \A y \in valid : x <= y
    BY <1>3, <2>2, SmallestExists
  <2>4. Env!Min(valid) \in valid
    BY <2>3, Zenon DEF Env!Min
  <2> DEFINE path == disks[Env!Min(valid)].path
  <2>5. path \in Values
    BY <2>1, <2>2, <2>4
  <2>6. Env!SystemPartition \in NameOf
    BY Zenon DEF NameOf
  <2>7. Env!HalSetEnvironmentVariable(Env!SystemPartition, path)
    BY <1>3, Zenon
  <2> HIDE DEF path
  <2> QED
    BY <2>5, <2>6, <2>7, SetKeeps
<1> QED
  BY <1>1, <1>2, <1>3

\* HalGetEnvironmentVariable copies no more than the buffer takes (misc.c:89-105).
LEMMA GetKeeps ==
  ASSUME EnvInv, NEW var \in Variables, NEW length \in Lengths, Env!HalGetEnvironmentVariable(var, length),
         UNCHANGED <<store, set>>
  PROVE  EnvInv' /\ OtherNamesKept
<1>1. store \in Seq(Kept) /\ Once(store)
  BY Zenon DEF EnvInv, Env!NeverStale, Once
<1>2. Env!BufferIsKept'
  <2>1. CASE Env!HalpEnvFind(var) = {}
    <3>1. answer' = [Env!NoAnswer EXCEPT !.status = "ENOENT", !.length = length]
      BY <2>1, Zenon DEF Env!HalGetEnvironmentVariable
    <3>2. answer'.status = "ENOENT"
      BY <3>1 DEF Env!NoAnswer
    <3>3. "ENOENT" \notin {"ESUCCESS", "ENOMEM"}
      OBVIOUS
    <3> QED
      BY <3>2, <3>3, Zenon DEF Env!BufferIsKept
  <2>2. CASE Env!HalpEnvFind(var) # {}
    <3> DEFINE val == store[Env!Min(Env!HalpEnvFind(var))].val
               n == Env!Copied(val, length)
    <3>1. PICK at \in 1 .. Len(store) : Env!Min(Env!HalpEnvFind(var)) = at
      BY <1>1, <2>2, FindIs
    <3>2. val = store[at].val
      BY <3>1, Zenon
    <3>3. store[at].val.length \in Nat /\ length \in Nat
      <4>1. store[at] \in Kept
        BY <1>1
      <4> QED
        BY <4>1, KeptIs, EnvNumbers
    <3>4. answer' = [status |-> IF n = val.length THEN "ESUCCESS" ELSE "ENOMEM", value |-> val, copied |-> n, length |-> length]
      BY <2>2, Zenon DEF Env!HalGetEnvironmentVariable
    <3>5. val.length \in Nat
      BY <3>2, <3>3
    <3> HIDE DEF val
    <3>6. n = IF length > val.length THEN val.length ELSE IF length = 0 THEN 0 ELSE length - 1
      BY Zenon DEF Env!Copied
    <3> HIDE DEF n
    <3>7. /\ answer'.length = length /\ answer'.copied = n /\ answer'.value = val
          /\ answer'.status = "ESUCCESS" => n = val.length
      BY <3>4
    <3>8. length > 0 => n + 1 <= length
      BY <3>3, <3>5, <3>6
    <3> QED
      BY <3>7, <3>8 DEF Env!BufferIsKept
  <2> QED
    BY <2>1, <2>2
<1>3. EnvInv'
  BY <1>2, EnvStays, Zenon
<1>4. OtherNamesKept
  BY Zenon DEF OtherNamesKept
<1> QED
  BY <1>3, <1>4

LEMMA EnvStep == EnvInv /\ [ServicesNext]_servicesVars => EnvInv' /\ (OtherNamesKept \/ UNCHANGED envVars)
<1> SUFFICES ASSUME EnvInv, [ServicesNext]_servicesVars PROVE EnvInv' /\ (OtherNamesKept \/ UNCHANGED envVars)
  OBVIOUS
<1>1. CASE UNCHANGED envVars
  <2>1. UNCHANGED <<store, set>> /\ answer' = answer
    BY <1>1, Zenon DEF envVars
  <2>2. Env!BufferIsKept'
    BY <2>1, Zenon DEF EnvInv, Env!BufferIsKept
  <2> QED
    BY <1>1, <2>1, <2>2, EnvStays, Zenon
<1>2. CASE Env!Next
  <2>1. ASSUME NEW var \in Variables, NEW val \in Values, Env!HalSetEnvironmentVariable(var, val), answer' = Env!NoAnswer
        PROVE  EnvInv' /\ OtherNamesKept
    <3>1. var \in NameOf
      BY Zenon DEF NameOf
    <3> QED
      BY <2>1, <3>1, SetKeeps, Zenon
  <2>2. ASSUME NEW valid1 \in BOOLEAN, NEW valid2 \in BOOLEAN, NEW p1 \in {v \in Values : v.length > 0},
               NEW p2 \in {v \in Values : v.length > 0},
               Env!HalpSeedEnvironment(<<[valid |-> valid1, path |-> p1], [valid |-> valid2, path |-> p2]>>),
               answer' = Env!NoAnswer
        PROVE  EnvInv' /\ OtherNamesKept
    BY <2>2, SeedKeeps, Zenon
  <2>3. ASSUME NEW var \in Variables, NEW length \in Lengths, Env!HalGetEnvironmentVariable(var, length),
               UNCHANGED <<store, set>>
        PROVE  EnvInv' /\ OtherNamesKept
    BY <2>3, GetKeeps, Zenon
  <2> QED
    BY <1>2, <2>1, <2>2, <2>3, Zenon DEF Env!Next
<1> QED
  BY <1>1, <1>2, EnvSteps, Zenon

LEMMA EnvStart == Env!Init => EnvInv
<1> SUFFICES ASSUME Env!Init PROVE EnvInv
  OBVIOUS
<1>1. store = <<>> /\ set = [i \in Env!Ids |-> Env!NoValue] /\ answer = Env!NoAnswer
  BY Zenon DEF Env!Init
<1>2. store \in Seq(Kept) /\ Len(store) = 0 /\ DOMAIN set = Env!Ids
  BY <1>1
<1>3. Env!StoreFits
  <2>1. 1 <= Size
    BY EnvNumbers
  <2> QED
    BY <1>1, <2>1, UsedOfEmpty, Zenon DEF Env!StoreFits
<1>4. Env!NeverStale
  BY <1>2 DEF Env!NeverStale
<1>5. Env!BufferIsKept
  <2>1. answer.status = "none" /\ "none" \notin {"ESUCCESS", "ENOMEM"}
    BY <1>1 DEF Env!NoAnswer
  <2> QED
    BY <2>1, Zenon DEF Env!BufferIsKept
<1>6. \A k \in 1 .. Len(store) : store[k].val.length > 0
  BY <1>2
<1> QED
  BY <1>2, <1>3, <1>4, <1>5, <1>6, Zenon DEF EnvInv

\* Whatever is set, replaced and removed, the store is a sequence of entries
\* with values, one to a name, that fits its array (misc.c:33-128).
THEOREM EnvInvariant == ServicesSpec => []EnvInv
<1>1. ServicesInit => EnvInv
  BY EnvStart, Zenon DEF ServicesInit
<1> QED
  BY <1>1, EnvStep, PTL DEF ServicesSpec

\* The environment is a map from names to the values set last: the store fits
\* its array, no value in it is stale, no buffer is written beyond its end, and
\* no variable is lost by setting or removing another (misc.c:33-128).
THEOREM TheEnvironmentIsKept == ServicesSpec => EnvironmentIsKept
<1>1. EnvInv => Env!StoreFits /\ Env!NeverStale /\ Env!BufferIsKept
  BY Zenon DEF EnvInv
<1>2. EnvInv /\ [ServicesNext]_servicesVars => [OtherNamesKept]_envVars
  BY EnvStep, Zenon
<1>3. [OtherNamesKept]_envVars <=> [\A k \in 1 .. Len(store) : LET e == store[k]
       IN  set'[e.var.id] = set[e.var.id] => \E j \in 1 .. Len(store') : store'[j].val = e.val /\ store'[j].var.id = e.var.id]_envVars
  BY Zenon DEF OtherNamesKept
<1> QED
  BY <1>1, <1>2, <1>3, EnvInvariant, PTL DEF ServicesSpec, EnvironmentIsKept, Env!EnvironmentIsKept, Env!OthersUntouched, Env!envVars, envVars

-----------------------------------------------------------------------------
(* The real-time clock. *)

\* A step of the real-time clock, or none.
LEMMA RtcSteps == [ServicesNext]_servicesVars => Rtc!Next \/ UNCHANGED timeVars
BY Zenon DEF ServicesNext, servicesVars

LEMMA RtcNumbers ==
  /\ Units \in Nat \ {0} /\ MacEpoch \in Nat /\ CudaWord \in Nat \ {0} /\ Bits \in Nat
  /\ Times \subseteq 0 .. Rtc!Worth[Bits] - 1
BY ServicesAssumption, Zenon DEF Rtc!RealTimeAssumption

\* Each bit is worth twice the one below it.
LEMMA WorthIs ==
  /\ Rtc!Worth[0] = 1
  /\ \A i \in 0 .. Bits : Rtc!Worth[i] \in Nat \ {0}
  /\ \A i \in 1 .. Bits : Rtc!Worth[i] = 2 * Rtc!Worth[i - 1]
<1> DEFINE Is(g) == g = [i \in 0 .. Bits |-> IF i = 0 THEN 1 ELSE 2 * g[i - 1]]
           step == [i \in 1 .. Bits |-> [u \in Nat \ {0} |-> 2 * u]]
<1>1. Bits \in Nat
  BY RtcNumbers
<1>2. StayIn(Nat \ {0}, step, Bits)
  BY <1>1 DEF StayIn
<1>3. \A i \in 1 .. Bits : \A u \in Nat \ {0} : step[i][u] = 2 * u
  OBVIOUS
<1> HIDE DEF step
<1>4. PICK g : Takes(g, Nat \ {0}, 1, step, Bits)
  <2>1. 1 \in Nat \ {0}
    OBVIOUS
  <2> QED
    BY <1>1, <1>2, <2>1, RecursionExists
<1>5. g \in [0 .. Bits -> Nat \ {0}] /\ g[0] = 1 /\ \A i \in 1 .. Bits : g[i] = 2 * g[i - 1]
  <2>1. g \in [0 .. Bits -> Nat \ {0}] /\ g[0] = 1 /\ \A i \in 1 .. Bits : g[i] = step[i][g[i - 1]]
    BY <1>4, Zenon DEF Takes
  <2>2. \A i \in 1 .. Bits : g[i - 1] \in Nat \ {0}
    BY <1>1, <2>1
  <2> QED
    BY <1>3, <2>1, <2>2
<1>6. Is(g)
  <2>1. \A i \in 0 .. Bits : g[i] = IF i = 0 THEN 1 ELSE 2 * g[i - 1]
    BY <1>1, <1>5
  <2> QED
    BY <1>5, <2>1
<1>7. Is(Rtc!Worth)
  <2>1. Rtc!Worth = CHOOSE f : Is(f)
    BY Zenon DEF Rtc!Worth
  <2> QED
    BY <1>6, <2>1, Zenon
<1>8. Rtc!Worth[0] = 1 /\ \A i \in 1 .. Bits : Rtc!Worth[i] = 2 * Rtc!Worth[i - 1]
  <2> DEFINE w == Rtc!Worth
  <2>1. w = [i \in 0 .. Bits |-> IF i = 0 THEN 1 ELSE 2 * w[i - 1]]
    BY <1>7
  <2> HIDE DEF w
  <2>2. w[0] = 1 /\ \A i \in 1 .. Bits : w[i] = 2 * w[i - 1]
    BY <1>1, <2>1
  <2> QED
    BY <2>2 DEF w
<1>9. \A i \in 0 .. Bits : Rtc!Worth[i] \in Nat \ {0}
  <2> DEFINE w == Rtc!Worth
             S == {i \in 0 .. Bits : w[i] \in Nat \ {0}}
  <2> HIDE DEF w
  <2>1. w[0] = 1 /\ \A i \in 1 .. Bits : w[i] = 2 * w[i - 1]
    BY <1>8 DEF w
  <2>2. 0 \in S /\ \A i \in 1 .. Bits : i - 1 \in S => i \in S
    BY <1>1, <2>1
  <2>3. \A i \in 0 .. Bits : i \in S
    <3> HIDE DEF S
    <3> QED
      BY <1>1, <2>2, InductionTo
  <2> QED
    BY <2>3 DEF w
<1> QED
  BY <1>8, <1>9, Zenon

\* One bit brought down.
LEMMA HalvesAgain ==
  ASSUME NEW n \in Nat, NEW w \in Nat \ {0}
  PROVE  n \div w = 2 * (n \div (2 * w)) + ((n \div w) % 2)
<1> DEFINE x == n \div w
           h == x \div 2
           v == 2 * w
<1>1. x \in Nat /\ x * w <= n /\ n < (x + 1) * w
  BY Quotient
<1> HIDE DEF x
<1>2. h \in Nat /\ x = 2 * h + (x % 2) /\ x % 2 \in 0 .. 1
  BY <1>1
<1> HIDE DEF h
<1>3. v \in Nat \ {0}
  OBVIOUS
<1>4. h * v <= x * w /\ (x + 1) * w <= (h + 1) * v
  <2> DEFINE r == x % 2
  <2>1. r \in 0 .. 1 /\ x = 2 * h + r
    BY <1>2
  <2> HIDE DEF r
  <2>2. x * w = 2 * (h * w) + r * w /\ (x + 1) * w = 2 * (h * w) + r * w + w /\ h * v = 2 * (h * w) /\ (h + 1) * v = 2 * (h * w) + 2 * w
    BY <1>2, <2>1
  <2>3. r * w \in 0 .. w /\ h * w \in Nat
    BY <1>2, <2>1
  <2> QED
    BY <2>2, <2>3
<1>5. h * v <= n /\ n < (h + 1) * v
  <2>1. h * v \in Nat /\ (h + 1) * v \in Nat /\ x * w \in Nat /\ (x + 1) * w \in Nat
    BY <1>1, <1>2
  <2> QED
    BY <1>1, <1>4, <2>1
<1>6. n \div v = h
  <2> HIDE DEF v
  <2> QED
    BY <1>2, <1>3, <1>5, Quotient
<1> QED
  BY <1>2, <1>6 DEF v, x

\* One turn of the long division (misc.c:161-164).
Divided == [rem : Nat, q : Nat]
Turned(n, d, k, acc) ==
  IF 2 * acc.rem + Rtc!BitAt(n, Bits - k) >= d
    THEN [rem |-> (2 * acc.rem + Rtc!BitAt(n, Bits - k)) - d, q |-> acc.q + Rtc!Worth[Bits - k]]
    ELSE [rem |-> 2 * acc.rem + Rtc!BitAt(n, Bits - k), q |-> acc.q]

LEMMA BitIs == ASSUME NEW n \in Nat, NEW i \in 0 .. Bits PROVE Rtc!BitAt(n, i) \in 0 .. 1
<1>1. Rtc!Worth[i] \in Nat \ {0}
  BY WorthIs
<1> QED
  BY <1>1 DEF Rtc!BitAt

\* Turn by turn: the remainder is below the divisor, and quotient and remainder
\* make up the bits brought down so far.
LEMMA DivisionRuns ==
  ASSUME NEW n \in Nat, NEW d \in Nat \ {0}
  PROVE  \E f : /\ f \in [0 .. Bits -> Divided] /\ f[0] = [rem |-> 0, q |-> 0]
                /\ \A k \in 1 .. Bits : f[k] = Turned(n, d, k, f[k - 1])
                /\ Rtc!HalpDivU64(n, d) = f[Bits].q
<1> DEFINE start == [rem |-> 0, q |-> 0]
           step == [k \in 1 .. Bits |-> [acc \in Divided |-> Turned(n, d, k, acc)]]
           Is(g) == g = [k \in 0 .. Bits |->
                           IF k = 0 THEN [rem |-> 0, q |-> 0]
                           ELSE IF 2 * g[k - 1].rem + Rtc!BitAt(n, Bits - k) >= d
                             THEN [rem |-> (2 * g[k - 1].rem + Rtc!BitAt(n, Bits - k)) - d, q |-> g[k - 1].q + Rtc!Worth[Bits - k]]
                             ELSE [rem |-> 2 * g[k - 1].rem + Rtc!BitAt(n, Bits - k), q |-> g[k - 1].q]]
<1>1. Bits \in Nat
  BY RtcNumbers
<1>2. start \in Divided
  BY DEF Divided
<1>3. ASSUME NEW k \in 1 .. Bits, NEW acc \in Divided PROVE Turned(n, d, k, acc) \in Divided
  <2> DEFINE b == Rtc!BitAt(n, Bits - k)
             w == Rtc!Worth[Bits - k]
  <2>1. Bits - k \in 0 .. Bits
    BY <1>1
  <2>2. b \in 0 .. 1
    BY <2>1, BitIs
  <2>3. w \in Nat
    BY <2>1, WorthIs
  <2>4. acc.rem \in Nat /\ acc.q \in Nat
    BY DEF Divided
  <2> HIDE DEF b, w
  <2> DEFINE rem == 2 * acc.rem + b
  <2>5. rem \in Nat /\ (rem >= d => rem - d \in Nat) /\ acc.q + w \in Nat
    BY <2>2, <2>3, <2>4
  <2>6. Turned(n, d, k, acc) = IF rem >= d THEN [rem |-> rem - d, q |-> acc.q + w] ELSE [rem |-> rem, q |-> acc.q]
    BY DEF Turned, b, w
  <2> HIDE DEF rem
  <2> QED
    BY <2>4, <2>5, <2>6 DEF Divided
<1>4. StayIn(Divided, step, Bits)
  BY <1>3 DEF StayIn
<1>5. \A k \in 1 .. Bits : \A acc \in Divided : step[k][acc] = Turned(n, d, k, acc)
  OBVIOUS
<1> HIDE DEF step
<1>6. PICK g : Takes(g, Divided, start, step, Bits)
  BY <1>1, <1>2, <1>4, RecursionExists
<1>7. g \in [0 .. Bits -> Divided] /\ g[0] = start /\ \A k \in 1 .. Bits : g[k] = Turned(n, d, k, g[k - 1])
  <2>1. g \in [0 .. Bits -> Divided] /\ g[0] = start /\ \A k \in 1 .. Bits : g[k] = step[k][g[k - 1]]
    BY <1>6, Zenon DEF Takes
  <2> HIDE DEF start
  <2>2. \A k \in 1 .. Bits : g[k - 1] \in Divided
    BY <1>1, <2>1
  <2> QED
    BY <1>5, <2>1, <2>2
<1>8. Is(g)
  <2>1. \A k \in 0 .. Bits : k = 0 \/ k \in 1 .. Bits
    BY <1>1
  <2>2. \A k \in 0 .. Bits : g[k] = IF k = 0 THEN start ELSE Turned(n, d, k, g[k - 1])
    <3>1. 0 \notin 1 .. Bits
      BY <1>1
    <3> QED
      BY <1>7, <2>1, <3>1, Zenon
  <2>3. g = [k \in 0 .. Bits |-> IF k = 0 THEN start ELSE Turned(n, d, k, g[k - 1])]
    <3> HIDE DEF start
    <3> QED
      BY <1>7, <2>2
  <2> QED
    BY <2>3, Zenon DEF Turned
<1> DEFINE after == CHOOSE f : Is(f)
<1>9. Rtc!HalpDivU64(n, d) = after[Bits].q
  <2>1. d # 0
    OBVIOUS
  <2> QED
    BY <2>1, Zenon DEF Rtc!HalpDivU64
<1>10. Is(after)
  BY <1>8, Zenon
<1> HIDE DEF after
<1>11. after = [k \in 0 .. Bits |-> IF k = 0 THEN start ELSE Turned(n, d, k, after[k - 1])]
  BY <1>10, Zenon DEF Turned
<1>12. after[0] = start /\ \A k \in 1 .. Bits : after[k] = Turned(n, d, k, after[k - 1])
  <2> HIDE DEF start, Is
  <2>1. 0 \in 0 .. Bits /\ \A k \in 1 .. Bits : k \in 0 .. Bits /\ k # 0
    BY <1>1
  <2> QED
    BY <1>11, <2>1, Zenon
<1>13. \A k \in 0 .. Bits : after[k] \in Divided
  <2> DEFINE S == {k \in 0 .. Bits : after[k] \in Divided}
  <2>1. 0 \in S /\ \A k \in 1 .. Bits : k - 1 \in S => k \in S
    <3> HIDE DEF start, Is
    <3>1. 0 \in 0 .. Bits /\ \A k \in 1 .. Bits : k \in 0 .. Bits
      BY <1>1
    <3> QED
      BY <1>2, <1>3, <1>12, <3>1, Zenon
  <2>2. \A k \in 0 .. Bits : k \in S
    <3> HIDE DEF S
    <3> QED
      BY <1>1, <2>1, InductionTo
  <2> QED
    BY <2>2
<1>14. after \in [0 .. Bits -> Divided]
  <2> HIDE DEF start, Is
  <2> QED
    BY <1>11, <1>13
<1> QED
  BY <1>9, <1>12, <1>14, Zenon

\* The quotient it names is the quotient, as long as the number has no more bits.
LEMMA LongDivisionDivides ==
  ASSUME NEW n \in Nat, NEW d \in Nat \ {0}, n < Rtc!Worth[Bits]
  PROVE  Rtc!HalpDivU64(n, d) \in Nat /\ Rtc!HalpDivU64(n, d) * d <= n /\ n < (Rtc!HalpDivU64(n, d) + 1) * d
<1>1. PICK f : /\ f \in [0 .. Bits -> Divided] /\ f[0] = [rem |-> 0, q |-> 0]
               /\ \A k \in 1 .. Bits : f[k] = Turned(n, d, k, f[k - 1])
               /\ Rtc!HalpDivU64(n, d) = f[Bits].q
  BY DivisionRuns
<1>2. Bits \in Nat
  BY RtcNumbers
<1> DEFINE w(k) == Rtc!Worth[Bits - k]
           Front(k) == \E m \in Nat : f[k].q = m * w(k) /\ n \div w(k) = m * d + f[k].rem /\ f[k].rem \in Nat /\ f[k].rem < d
           S == {k \in 0 .. Bits : Front(k)}
<1>3. \A k \in 0 .. Bits : w(k) \in Nat \ {0}
  <2>1. \A k \in 0 .. Bits : Bits - k \in 0 .. Bits
    BY <1>2
  <2> QED
    BY <2>1, WorthIs
<1>4. \A k \in 1 .. Bits : w(k - 1) = 2 * w(k)
  <2>1. \A k \in 1 .. Bits : Bits - (k - 1) \in 1 .. Bits /\ (Bits - (k - 1)) - 1 = Bits - k
    BY <1>2
  <2> QED
    BY <2>1, WorthIs
<1>5. w(0) = Rtc!Worth[Bits] /\ w(Bits) = 1
  <2>1. Bits - 0 = Bits /\ Bits - Bits = 0
    BY <1>2
  <2> QED
    BY <2>1, WorthIs
<1>6. \A k : Rtc!BitAt(n, Bits - k) = (n \div w(k)) % 2
  BY Zenon DEF Rtc!BitAt
<1> HIDE DEF w
<1>7. Front(0)
  <2> DEFINE v == w(0)
  <2>1. v \in Nat \ {0} /\ n < v
    BY <1>2, <1>3, <1>5
  <2> HIDE DEF v
  <2>2. n \div v = 0
    BY <2>1, Quotient
  <2>3. f[0].q = 0 * v /\ n \div v = 0 * d + f[0].rem /\ f[0].rem = 0
    BY <1>1, <2>1, <2>2
  <2>4. 0 \in Nat /\ 0 < d
    OBVIOUS
  <2> QED
    BY <2>3, <2>4 DEF v
<1>8. ASSUME NEW k \in 1 .. Bits, Front(k - 1) PROVE Front(k)
  <2> DEFINE u == w(k)
             v == w(k - 1)
             b == (n \div u) % 2
             rem == 2 * f[k - 1].rem + b
  <2>1. u \in Nat \ {0} /\ v = 2 * u
    <3>1. k \in 0 .. Bits
      OBVIOUS
    <3> QED
      BY <1>3, <1>4, <3>1
  <2>2. PICK m \in Nat : f[k - 1].q = m * v /\ n \div v = m * d + f[k - 1].rem /\ f[k - 1].rem \in Nat /\ f[k - 1].rem < d
    BY <1>8
  <2> HIDE DEF u, v
  <2>3. n \div u = 2 * (n \div v) + b /\ b \in 0 .. 1
    <3>1. n \div u = 2 * (n \div (2 * u)) + ((n \div u) % 2)
      BY <2>1, HalvesAgain
    <3>2. n \div u \in Nat
      BY <2>1
    <3> QED
      BY <2>1, <3>1, <3>2
  <2>4. f[k] = IF rem >= d THEN [rem |-> rem - d, q |-> f[k - 1].q + u] ELSE [rem |-> rem, q |-> f[k - 1].q]
    <3>1. Rtc!BitAt(n, Bits - k) = b
      BY <1>6 DEF u
    <3>2. f[k] = Turned(n, d, k, f[k - 1])
      BY <1>1
    <3> QED
      BY <3>1, <3>2, Zenon DEF Turned, u, w
  <2> DEFINE r == f[k - 1].rem
             q == f[k - 1].q
             h == n \div v
             g == n \div u
             e == m * d
  <2> HIDE DEF b
  <2>5. rem = 2 * r + b /\ r \in Nat /\ r < d /\ h = e + r /\ g = 2 * h + b /\ q = m * v /\ e \in Nat /\ b \in 0 .. 1
    BY <2>2, <2>3
  <2> HIDE DEF rem, r, q, h, g
  <2>6. CASE rem >= d
    <3>1. f[k].rem = rem - d /\ f[k].q = q + u
      BY <2>4, <2>6 DEF q
    <3>2. rem - d \in Nat /\ rem - d < d
      BY <2>5, <2>6
    <3>3. (2 * m + 1) * d = 2 * e + d /\ (2 * m + 1) * u = m * v + u /\ 2 * m + 1 \in Nat
      BY <2>1
    <3>4. g = (2 * m + 1) * d + (rem - d)
      <4> HIDE DEF e
      <4> QED
        BY <2>5, <3>3
    <3> QED
      BY <2>5, <3>1, <3>2, <3>3, <3>4 DEF g, u
  <2>7. CASE ~(rem >= d)
    <3>1. f[k].rem = rem /\ f[k].q = q
      BY <2>4, <2>7 DEF q
    <3>2. rem \in Nat /\ rem < d
      BY <2>5, <2>7
    <3>3. (2 * m) * d = 2 * e /\ (2 * m) * u = m * v /\ 2 * m \in Nat
      BY <2>1
    <3>4. g = (2 * m) * d + rem
      <4> HIDE DEF e
      <4> QED
        BY <2>5, <3>3
    <3> QED
      BY <2>5, <3>1, <3>2, <3>3, <3>4 DEF g, u
  <2> QED
    BY <2>6, <2>7
<1>9. Front(Bits)
  <2>1. 0 \in S /\ \A k \in 1 .. Bits : k - 1 \in S => k \in S
    <3>1. 0 \in 0 .. Bits /\ \A k \in 1 .. Bits : k \in 0 .. Bits
      BY <1>2
    <3> HIDE DEF Front
    <3> QED
      BY <1>7, <1>8, <3>1
  <2>2. \A k \in 0 .. Bits : k \in S
    <3> HIDE DEF S
    <3> QED
      BY <1>2, <2>1, InductionTo
  <2> HIDE DEF Front
  <2> QED
    BY <1>2, <2>2
<1>10. PICK m \in Nat : f[Bits].q = m * w(Bits) /\ n \div w(Bits) = m * d + f[Bits].rem /\ f[Bits].rem \in Nat /\ f[Bits].rem < d
  BY <1>9
<1> DEFINE r == f[Bits].rem
<1>11. Rtc!HalpDivU64(n, d) = m /\ n = m * d + r /\ r \in Nat /\ r < d
  BY <1>1, <1>5, <1>10
<1> HIDE DEF r
<1>12. m * d \in Nat /\ (m + 1) * d = m * d + d
  OBVIOUS
<1> QED
  BY <1>11, <1>12

\* What Cuda counts is the second of the moment set last.
\* Cuda has the whole seconds of what was set, and tells them.
RtcInv ==
  /\ cuda \in Nat
  /\ lastSet.ok => /\ lastSet.time \in Nat
                   /\ (cuda + MacEpoch) * Units <= lastSet.time /\ lastSet.time < (cuda + MacEpoch) * Units + Units
  /\ told \in {Rtc!Nothing, Rtc!Noon2026, (cuda + MacEpoch) * Units}

LEMMA RtcStart == Rtc!Init => RtcInv
<1> SUFFICES ASSUME Rtc!Init PROVE RtcInv
  OBVIOUS
<1>1. cuda = 0 /\ lastSet = [time |-> Rtc!Nothing, ok |-> FALSE] /\ told = Rtc!Nothing
  BY Zenon DEF Rtc!Init, Rtc!NotSet
<1>2. lastSet.ok = FALSE
  BY <1>1
<1>3. cuda \in Nat
  BY <1>1
<1> QED
  BY <1>1, <1>2, <1>3, Zenon DEF RtcInv

LEMMA RtcStep == RtcInv /\ [ServicesNext]_servicesVars => RtcInv'
<1> SUFFICES ASSUME RtcInv, [ServicesNext]_servicesVars PROVE RtcInv'
  OBVIOUS
<1>1. CASE UNCHANGED timeVars
  BY <1>1, Zenon DEF timeVars, RtcInv
<1>2. ASSUME NEW time \in Times, Rtc!HalSetRealTimeClock(time) PROVE RtcInv'
  <2> DEFINE seconds == Rtc!HalpDivU64(time, Units)
             sent == (seconds - MacEpoch) % CudaWord
  <2>1. told' = Rtc!Nothing
        /\ \/ cuda' = cuda /\ lastSet' = [time |-> time, ok |-> FALSE]
           \/ Rtc!Counts(seconds) /\ cuda' = sent /\ (lastSet' = [time |-> time, ok |-> TRUE] \/ lastSet' = [time |-> time, ok |-> FALSE])
    BY <1>2, Zenon DEF Rtc!HalSetRealTimeClock
  <2>2. CASE cuda' = cuda /\ lastSet' = [time |-> time, ok |-> FALSE]
    <3>1. lastSet'.ok = FALSE
      BY <2>2
    <3> QED
      BY <2>1, <2>2, <3>1, Zenon DEF RtcInv
  <2>3. CASE Rtc!Counts(seconds) /\ cuda' = sent /\ (lastSet' = [time |-> time, ok |-> TRUE] \/ lastSet' = [time |-> time, ok |-> FALSE])
    <3>1. time \in Nat /\ time < Rtc!Worth[Bits] /\ Units \in Nat \ {0} /\ MacEpoch \in Nat /\ CudaWord \in Nat \ {0}
      <4>1. Rtc!Worth[Bits] \in Nat /\ Times \subseteq 0 .. Rtc!Worth[Bits] - 1
        BY RtcNumbers, WorthIs
      <4> QED
        BY <4>1, RtcNumbers
    <3>2. seconds \in Nat /\ seconds * Units <= time /\ time < (seconds + 1) * Units
      BY <3>1, LongDivisionDivides
    <3>3. seconds >= MacEpoch /\ seconds - MacEpoch < CudaWord
      BY <2>3, Zenon DEF Rtc!Counts
    <3> HIDE DEF seconds
    <3>4. cuda' = seconds - MacEpoch
      <4> DEFINE c == seconds - MacEpoch
      <4>1. c \in 0 .. CudaWord - 1
        BY <3>1, <3>2, <3>3
      <4> HIDE DEF c
      <4>2. c % CudaWord = c
        BY <3>1, <4>1
      <4> QED
        BY <2>3, <4>2 DEF c
    <3>5. cuda' \in Nat /\ cuda' + MacEpoch = seconds
      BY <3>1, <3>2, <3>3, <3>4
    <3>6. lastSet'.time = time
      BY <2>3
    <3>7. (seconds + 1) * Units = seconds * Units + Units
      BY <3>1, <3>2
    <3> QED
      BY <2>1, <3>1, <3>2, <3>5, <3>6, <3>7, Zenon DEF RtcInv
  <2> QED
    BY <2>1, <2>2, <2>3
<1>3. CASE Rtc!HalQueryRealTimeClock
  <2>1. told' \in {(cuda + MacEpoch) * Units, Rtc!Noon2026} /\ cuda' = cuda /\ lastSet' = lastSet
    BY <1>3, Zenon DEF Rtc!HalQueryRealTimeClock
  <2> QED
    BY <2>1, Zenon DEF RtcInv
<1>4. CASE Rtc!Second
  <2>1. cuda' = (cuda + 1) % CudaWord /\ lastSet' = [time |-> Rtc!Nothing, ok |-> FALSE] /\ told' = Rtc!Nothing
    BY <1>4, Zenon DEF Rtc!Second, Rtc!NotSet
  <2>2. lastSet'.ok = FALSE
    BY <2>1
  <2>3. cuda' \in Nat
    BY <2>1, RtcNumbers DEF RtcInv
  <2> QED
    BY <2>1, <2>2, <2>3, Zenon DEF RtcInv
<1> QED
  BY <1>1, <1>2, <1>3, <1>4, RtcSteps, Zenon DEF Rtc!Next

LEMMA RtcInvTells == RtcInv => Rtc!TellsWhatWasSet
<1> SUFFICES ASSUME RtcInv, lastSet.ok, told \notin {Rtc!Nothing, Rtc!Noon2026}
             PROVE  told <= lastSet.time /\ lastSet.time < told + Units
  BY Zenon DEF Rtc!TellsWhatWasSet
<1>1. told = (cuda + MacEpoch) * Units
  BY Zenon DEF RtcInv
<1> QED
  BY <1>1, Zenon DEF RtcInv

\* What HalQueryRealTimeClock tells is nothing, the noon it makes up, or Cuda's
\* seconds in NT's units; they are the whole seconds of the time that was set,
\* the division of misc.c:154-168 losing less than one (misc.c:154-210).
THEOREM RtcInvariant == ServicesSpec => []RtcInv
<1>1. ServicesInit => RtcInv
  BY RtcStart, Zenon DEF ServicesInit
<1> QED
  BY <1>1, RtcStep, PTL DEF ServicesSpec

\* Both of the HAL's clocks keep time: what was reported is never ahead of the
\* timebase and no tick is late, and the time of day is the time that was set
\* (clock.c:18-48, misc.c:154-210).
THEOREM ClocksTellTheTime == ServicesSpec => []ClocksKeepTime
<1>1. TicksKeepTime /\ RtcInv => ClocksKeepTime
  BY RtcInvTells, Zenon DEF ClocksKeepTime
<1> QED
  BY <1>1, ClockKeepsTime, ServicesRunTheClock, RtcInvariant, PTL

-----------------------------------------------------------------------------
(* Configuration space, for a caller that is alone. *)

LEMMA PciSteps == [ServicesNext]_servicesVars => Pci!Next \/ UNCHANGED pciVars
BY Zenon DEF ServicesNext, servicesVars

CallAt == {"ended", "probe", "vendor", "address", "data"}
CallOf == [at : CallAt, write : BOOLEAN, slot : Slots \cup {0}, offset : Nat, length : Nat, done : Nat, buffer : Seq(0 .. 1)]
SizingOf == [stage : 0 .. 4, slot : Slots \cup {0}, orig : Seq(0 .. 1), length : Nat]

\* An access as it is but for where it has come.
Moved(b, more, at) ==
  /\ more \in CallOf /\ more.at = at /\ more.write = b.write /\ more.slot = b.slot
  /\ more.offset = b.offset /\ more.length = b.length

LEMMA CallIs ==
  ASSUME NEW b \in CallOf
  PROVE  /\ b.at \in CallAt /\ b.write \in BOOLEAN /\ b.slot \in Slots \cup {0}
         /\ b.offset \in Nat /\ b.length \in Nat /\ b.done \in Nat /\ b.buffer \in Seq(0 .. 1)
BY DEF CallOf

LEMMA CallMoves ==
  ASSUME NEW b \in CallOf, NEW at \in CallAt, NEW more, more = [b EXCEPT !.at = at]
  PROVE  Moved(b, more, at) /\ more.done = b.done /\ more.buffer = b.buffer
BY DEF CallOf, Moved

LEMMA SizingIs ==
  ASSUME NEW z \in SizingOf
  PROVE  z.stage \in 0 .. 4 /\ z.slot \in Slots \cup {0} /\ z.orig \in Seq(0 .. 1) /\ z.length \in Nat
BY DEF SizingOf

\* The base address of the device being sized holds ones where it can.
Opened(b, z) == z.stage = 3 \/ (z.stage = 2 /\ b.at = "ended") \/ (z.stage = 4 /\ b.at # "ended")

\* What a register below the interrupt line's holds.
Holds(b, z, d, n) == IF Opened(b, z) /\ d = z.slot /\ n >= 4 /\ n - 4 \in BarBits[d] THEN 1 ELSE Present[d][n]
Steady(cfg, b, z) == \A d \in Pci!Devices : \A n \in 0 .. 7 : cfg[d][n] = Holds(b, z, d, n)

\* How far an access has come, where it is to go, and what a read has brought.
UnderWay(lt, b) ==
  /\ b.slot \in Slots /\ b.offset + b.length <= 12 /\ b.done < b.length
  /\ b.at \in {"probe", "vendor"} => b.done = 0
  /\ b.at = "vendor" => lt[1] = b.slot
  /\ b.at \in {"address", "data"} => b.slot \in Pci!Devices
  /\ b.at = "data" => lt[1] = b.slot /\ lt[2] = (b.offset + b.done) \div 4
Brought(cfg, b) ==
  ~b.write => Len(b.buffer) = b.done /\ \A k \in 1 .. b.done : b.buffer[k] = cfg[b.slot][b.offset + k - 1]

\* What is written: by a driver beyond the base addresses, or by HalpSizeBar.
Writes(b, z) ==
  b.write => \/ z.stage = 0 /\ b.offset = 9 /\ b.length = 2 /\ Len(b.buffer) = 2
             \/ z.stage = 2 /\ b.done = 0 /\ b.buffer = <<1, 1, 1, 1>>
             \/ z.stage = 4 /\ b.done = 0 /\ b.buffer = z.orig

\* What a read that has ended tells, of all that is not reported in its stead.
Answers(b, z) ==
  ~b.write /\ b.length > 0 =>
    /\ b.slot \in Pci!Devices /\ b.offset + b.length <= 12 /\ Len(b.buffer) = b.length
    /\ \A k \in 1 .. b.length :
         LET n == b.offset + k - 1
         IN  n >= 8 \/ (b.slot \in Patched /\ n \in {2, 3}) \/ b.buffer[k] = Holds(b, z, b.slot, n)

\* What HalpSizeBar is doing, and what it has found.
Sizes(b, z) ==
  /\ z.stage > 0 => /\ z.slot \in Pci!Devices /\ b.slot = z.slot /\ b.offset = 4 /\ b.length = 4
                    /\ b.write <=> z.stage \in {2, 4}
  /\ z.stage > 1 => Len(z.orig) = 4 /\ \A i \in 1 .. 4 : z.orig[i] = Present[z.slot][3 + i]
  /\ z.stage = 4 => z.length = Pci!Weight[CHOOSE n \in BarBits[z.slot] : \A m \in BarBits[z.slot] : n <= m]

Configured(cfg) == cfg \in [Pci!Devices -> [0 .. 11 -> 0 .. 1]]

Alone(cfg, lt, b, z) ==
  /\ b \in CallOf /\ z \in SizingOf /\ Configured(cfg)
  /\ Steady(cfg, b, z) /\ Sizes(b, z)
  /\ b.at # "ended" => UnderWay(lt, b) /\ Brought(cfg, b) /\ Writes(b, z)
  /\ b.at = "ended" => Answers(b, z)

\* What is assumed of the devices, with the numbers in it.
LEMMA PciNumbers ==
  /\ Pci!Devices \subseteq Slots /\ Present \in [Pci!Devices -> [0 .. 11 -> 0 .. 1]]
  /\ \A d \in Pci!Devices :
       /\ ~(Present[d][0] = 1 /\ Present[d][1] = 1)
       /\ BarBits[d] \in {{3}, {2, 3}, {1, 2, 3}}
       /\ \A n \in 1 .. 3 : n \in BarBits[d] \/ Present[d][4 + n] = 0
       /\ InterruptLine[d] \in 0 .. 1
  /\ Spans \subseteq (0 .. 11) \X (Nat \ {0})
<1>1. Pci!ConfigBytes - 1 = 11 /\ Pci!BarAt = 4
  BY DEF Pci!ConfigBytes, Pci!BarAt
<1> QED
  BY <1>1, ServicesAssumption, Zenon DEF Pci!PciAssumption

\* A device keeps its registers while an access goes on.
LEMMA StaysAsItIs ==
  ASSUME NEW cfg, NEW lt, NEW b, NEW z, Alone(cfg, lt, b, z), b.at # "ended",
         NEW more, NEW at \in CallAt \ {"ended"}, Moved(b, more, at)
  PROVE  Steady(cfg, more, z) /\ Sizes(more, z)
<1>1. more.at # "ended" /\ more.slot = b.slot /\ more.offset = b.offset /\ more.length = b.length /\ more.write = b.write
  BY DEF Moved
<1>2. Opened(more, z) <=> Opened(b, z)
  BY <1>1 DEF Opened
<1>3. \A d, n : Holds(more, z, d, n) = Holds(b, z, d, n)
  BY <1>2, Zenon DEF Holds
<1>4. Steady(cfg, more, z)
  BY <1>3, Zenon DEF Steady, Alone
<1>5. Sizes(more, z)
  BY <1>1, Zenon DEF Sizes, Alone
<1> QED
  BY <1>4, <1>5

\* The accesses to the ports before the data moves: the probe names the device,
\* finds it there or not, and the register is named.
LEMMA ProbeAddressKeeps ==
  ASSUME NEW cfg, NEW lt, NEW b, NEW z, Alone(cfg, lt, b, z), b.at = "probe",
         NEW lt2, lt2 = <<b.slot, 0>>, NEW more, more = [b EXCEPT !.at = "vendor"]
  PROVE  Alone(cfg, lt2, more, z)
<1>1. b \in CallOf /\ b.at # "ended" /\ UnderWay(lt, b) /\ Brought(cfg, b) /\ Writes(b, z)
  BY Zenon DEF Alone
<1>2. Moved(b, more, "vendor") /\ more.done = b.done /\ more.buffer = b.buffer
  BY <1>1, CallMoves DEF CallAt
<1>3. Steady(cfg, more, z) /\ Sizes(more, z)
  BY <1>1, <1>2, StaysAsItIs DEF CallAt
<1>4. lt2[1] = b.slot
  OBVIOUS
<1>5. UnderWay(lt2, more)
  BY <1>1, <1>2, <1>4 DEF UnderWay, Moved
<1>6. Brought(cfg, more) /\ Writes(more, z)
  BY <1>1, <1>2, Zenon DEF Brought, Writes, Moved
<1>7. more \in CallOf /\ more.at # "ended"
  BY <1>2 DEF Moved
<1> QED
  BY <1>3, <1>5, <1>6, <1>7, Zenon DEF Alone

LEMMA AccessAddressKeeps ==
  ASSUME NEW cfg, NEW lt, NEW b, NEW z, Alone(cfg, lt, b, z), b.at = "address",
         NEW lt2, lt2 = <<b.slot, (b.offset + b.done) \div 4>>, NEW more, more = [b EXCEPT !.at = "data"]
  PROVE  Alone(cfg, lt2, more, z)
<1>1. b \in CallOf /\ b.at # "ended" /\ UnderWay(lt, b) /\ Brought(cfg, b) /\ Writes(b, z)
  BY Zenon DEF Alone
<1>2. Moved(b, more, "data") /\ more.done = b.done /\ more.buffer = b.buffer
  BY <1>1, CallMoves DEF CallAt
<1>3. Steady(cfg, more, z) /\ Sizes(more, z)
  BY <1>1, <1>2, StaysAsItIs DEF CallAt
<1>4. lt2[1] = b.slot /\ lt2[2] = (b.offset + b.done) \div 4
  OBVIOUS
<1>5. UnderWay(lt2, more)
  BY <1>1, <1>2, <1>4 DEF UnderWay, Moved
<1>6. Brought(cfg, more) /\ Writes(more, z)
  BY <1>1, <1>2, Zenon DEF Brought, Writes, Moved
<1>7. more \in CallOf /\ more.at # "ended"
  BY <1>2 DEF Moved
<1> QED
  BY <1>3, <1>5, <1>6, <1>7, Zenon DEF Alone

LEMMA ProbeDataKeeps ==
  ASSUME NEW cfg, NEW lt, NEW b, NEW z, Alone(cfg, lt, b, z), b.at = "vendor",
         NEW absent, absent = ((IF b.slot \in Pci!Devices THEN cfg[b.slot][0] ELSE 1) = 1
                               /\ (IF b.slot \in Pci!Devices THEN cfg[b.slot][1] ELSE 1) = 1),
         NEW got_, got_ \in {<<1, 1>>, <<>>},
         NEW more, more = IF ~absent THEN [b EXCEPT !.at = "address"] ELSE Pci!Ended(got_)
  PROVE  Alone(cfg, lt, more, z)
<1>1. b \in CallOf /\ b.at # "ended" /\ UnderWay(lt, b) /\ Brought(cfg, b) /\ Writes(b, z) /\ z \in SizingOf
  BY Zenon DEF Alone
<1>2. CASE b.slot \in Pci!Devices
  <2>1. cfg[b.slot][0] = Present[b.slot][0] /\ cfg[b.slot][1] = Present[b.slot][1]
    <3>0. 0 \in 0 .. 7 /\ 1 \in 0 .. 7
      OBVIOUS
    <3>1. Steady(cfg, b, z)
      BY Zenon DEF Alone
    <3>2. Holds(b, z, b.slot, 0) = Present[b.slot][0] /\ Holds(b, z, b.slot, 1) = Present[b.slot][1]
      <4>1. ~(0 >= 4) /\ ~(1 >= 4)
        OBVIOUS
      <4> QED
        BY <4>1, Zenon DEF Holds
    <3> QED
      BY <1>2, <3>0, <3>1, <3>2, Zenon DEF Steady
  <2>2. more = [b EXCEPT !.at = "address"]
    BY <1>2, <2>1, PciNumbers, Zenon
  <2>3. Moved(b, more, "address") /\ more.done = b.done /\ more.buffer = b.buffer
    BY <1>1, <2>2, CallMoves DEF CallAt
  <2>4. Steady(cfg, more, z) /\ Sizes(more, z)
    BY <1>1, <2>3, StaysAsItIs DEF CallAt
  <2>5. UnderWay(lt, more)
    BY <1>1, <1>2, <2>3 DEF UnderWay, Moved
  <2>6. Brought(cfg, more) /\ Writes(more, z)
    BY <1>1, <2>3, Zenon DEF Brought, Writes, Moved
  <2>7. more \in CallOf /\ more.at # "ended"
    BY <2>3 DEF Moved
  <2> QED
    BY <1>1, <2>4, <2>5, <2>6, <2>7, Zenon DEF Alone
<1>3. CASE b.slot \notin Pci!Devices
  <2>1. more = Pci!Ended(got_)
    BY <1>3, Zenon
  <2>2. more \in CallOf /\ more.at = "ended" /\ more.length = 0
    <3>1. got_ \in Seq(0 .. 1)
      <4>1. <<1, 1>> \in Seq(0 .. 1) /\ <<>> \in Seq(0 .. 1)
        OBVIOUS
      <4> QED
        BY <4>1, Zenon
    <3> QED
      BY <2>1, <3>1 DEF Pci!Ended, CallOf, CallAt
  <2>3. z.stage = 0
    <3>0. z.stage \in 0 .. 4
      BY <1>1, SizingIs
    <3>1. Sizes(b, z) /\ z.stage \in 0 .. 4
      BY <3>0, Zenon DEF Alone
    <3>2. ~(z.stage > 0)
      BY <1>3, <3>1, Zenon DEF Sizes
    <3> QED
      BY <3>1, <3>2
  <2>4. ~Opened(b, z) /\ ~Opened(more, z)
    BY <2>3 DEF Opened
  <2>5. \A d, n : Holds(more, z, d, n) = Holds(b, z, d, n)
    BY <2>4, Zenon DEF Holds
  <2>6. Steady(cfg, more, z)
    BY <2>5, Zenon DEF Steady, Alone
  <2>7. Sizes(more, z)
    BY <2>3 DEF Sizes
  <2>8. Answers(more, z)
    BY <2>2 DEF Answers
  <2> QED
    BY <2>2, <2>6, <2>7, <2>8, Zenon DEF Alone
<1> QED
  BY <1>2, <1>3

\* A number and its remainder by four.
LEMMA Quarters ==
  ASSUME NEW x \in Nat
  PROVE  /\ x \div 4 \in Nat /\ x % 4 \in 0 .. 3 /\ x = 4 * (x \div 4) + (x % 4)
         /\ x % 2 = 0 => x % 4 \in {0, 2}
         /\ \A k \in 0 .. 3 : (x % 4) + k < 4 => (x + k) % 4 = (x % 4) + k
OBVIOUS

\* The lanes of one transfer are the bytes that follow one another from where
\* it begins, none of them past what is left (pci.c:69-84).
LEMMA SizeIs ==
  ASSUME NEW at \in Nat, NEW rest \in Nat \ {0}, NEW size, size = Pci!SizeOf(at, rest)
  PROVE  /\ size \in {1, 2, 4} /\ size <= rest
         /\ \A k \in 0 .. size - 1 : (at \div 4) * 4 + ((at + k) % 4) = at + k
<1> DEFINE q == at \div 4
           r == at % 4
<1>1. q \in Nat /\ r \in 0 .. 3 /\ at = 4 * q + r /\ (at % 2 = 0 => r \in {0, 2})
      /\ \A k \in 0 .. 3 : r + k < 4 => (at + k) % 4 = r + k
  BY Quarters
<1>2. size \in {1, 2, 4} /\ size <= rest /\ (size = 4 => r = 0) /\ (size = 2 => at % 2 = 0)
  BY DEF Pci!SizeOf
<1> HIDE DEF q, r
<1>3. \A k \in 0 .. size - 1 : k \in 0 .. 3 /\ r + k < 4
  BY <1>1, <1>2
<1>4. \A k \in 0 .. size - 1 : q * 4 + ((at + k) % 4) = at + k
  BY <1>1, <1>2, <1>3
<1> QED
  BY <1>2, <1>4 DEF q

\* What is reported is as long as what was read, and is that apart from the
\* interrupt line and a patched id.
Tells(b, bytes, given_) ==
  /\ given_ \in Seq(0 .. 1) /\ Len(given_) = Len(bytes)
  /\ \A k \in 1 .. Len(bytes) :
       LET n == b.offset + k - 1
       IN  n >= 8 \/ (b.slot \in Patched /\ n \in {2, 3}) \/ given_[k] = bytes[k]

LEMMA ReportedIs ==
  ASSUME NEW b \in CallOf, b.slot \in Pci!Devices, NEW bytes \in Seq(0 .. 1)
  PROVE  Tells(b, bytes, Pci!Reported(b, bytes))
<1> DEFINE told_(k) == LET n == b.offset + k - 1
                       IN  IF n = 8 THEN InterruptLine[b.slot]
                           ELSE IF b.slot \in Patched /\ n \in {2, 3} /\ b.offset <= 2 /\ b.offset + Len(bytes) > 3
                             THEN IF n = 2 THEN 1 ELSE 0
                           ELSE bytes[k]
           all == [k \in 1 .. Len(bytes) |-> told_(k)]
<1>1. Pci!Reported(b, bytes) = all
  BY Zenon DEF Pci!Reported, Pci!LineAt
<1>2. InterruptLine[b.slot] \in 0 .. 1
  BY PciNumbers, Zenon
<1>3. \A k \in 1 .. Len(bytes) : bytes[k] \in 0 .. 1
  OBVIOUS
<1>4. ASSUME NEW k \in 1 .. Len(bytes)
      PROVE  /\ told_(k) \in 0 .. 1
             /\ LET n == b.offset + k - 1
                IN  n >= 8 \/ (b.slot \in Patched /\ n \in {2, 3}) \/ told_(k) = bytes[k]
  <2> DEFINE n == b.offset + k - 1
  <2>1. bytes[k] \in 0 .. 1 /\ 0 \in 0 .. 1 /\ 1 \in 0 .. 1 /\ (n = 8 => n >= 8)
    BY <1>3
  <2> HIDE DEF n
  <2>2. told_(k) = IF n = 8 THEN InterruptLine[b.slot]
                   ELSE IF b.slot \in Patched /\ n \in {2, 3} /\ b.offset <= 2 /\ b.offset + Len(bytes) > 3
                     THEN IF n = 2 THEN 1 ELSE 0
                   ELSE bytes[k]
    BY Zenon DEF n
  <2> HIDE DEF told_
  <2>3. told_(k) \in 0 .. 1
    BY <1>2, <2>1, <2>2, Zenon
  <2>4. n >= 8 \/ (b.slot \in Patched /\ n \in {2, 3}) \/ told_(k) = bytes[k]
    BY <2>1, <2>2, Zenon
  <2> QED
    BY <2>3, <2>4 DEF n
<1> HIDE DEF told_
<1>5. all \in Seq(0 .. 1) /\ Len(all) = Len(bytes) /\ \A k \in 1 .. Len(bytes) : all[k] = told_(k)
  <2>1. \A k \in 1 .. Len(bytes) : told_(k) \in 0 .. 1
    BY <1>4
  <2>2. Len(bytes) \in Nat
    OBVIOUS
  <2> QED
    BY <2>1, <2>2
<1> HIDE DEF all
<1>6. Tells(b, bytes, all)
  BY <1>4, <1>5, Zenon DEF Tells
<1> QED
  BY <1>1, <1>6, Zenon

\* What the data port gives is what comes next of the register that was named.
LEMMA TransferIs ==
  ASSUME NEW cfg, NEW lt, NEW b, NEW z, Alone(cfg, lt, b, z), b.at = "data",
         NEW size, size = Pci!SizeOf(b.offset + b.done, b.length - b.done)
  PROVE  /\ size \in {1, 2, 4} /\ b.done + size <= b.length /\ b.slot \in Pci!Devices /\ lt[1] = b.slot
         /\ b.offset + b.length <= 12 /\ b.done < b.length
         /\ \A k \in 0 .. size - 1 : lt[2] * 4 + ((b.offset + b.done + k) % 4) = b.offset + b.done + k
<1> DEFINE at == b.offset + b.done
           rest == b.length - b.done
<1>1. b \in CallOf /\ b.at # "ended" /\ UnderWay(lt, b)
  BY Zenon DEF Alone
<1>2. b.offset \in Nat /\ b.length \in Nat /\ b.done \in Nat
  BY <1>1, CallIs
<1>3. b.done < b.length /\ b.offset + b.length <= 12 /\ b.slot \in Pci!Devices /\ lt[1] = b.slot /\ lt[2] = at \div 4
  BY <1>1, Zenon DEF UnderWay
<1>4. at \in Nat /\ rest \in Nat \ {0}
  BY <1>2, <1>3
<1>5. size = Pci!SizeOf(at, rest)
  OBVIOUS
<1>6. size \in {1, 2, 4} /\ size <= rest /\ \A k \in 0 .. size - 1 : (at \div 4) * 4 + ((at + k) % 4) = at + k
  BY <1>4, <1>5, SizeIs, SMTT(60)
<1>7. b.done + size <= b.length
  BY <1>2, <1>6
<1> QED
  BY <1>3, <1>6, <1>7, Zenon

LEMMA BitsConcat ==
  ASSUME NEW s \in Seq(0 .. 1), NEW t \in Seq(0 .. 1)
  PROVE  /\ s \o t \in Seq(0 .. 1) /\ Len(s \o t) = Len(s) + Len(t)
         /\ \A k \in 1 .. Len(s) + Len(t) : (s \o t)[k] = IF k <= Len(s) THEN s[k] ELSE t[k - Len(s)]
BY ConcatProperties

\* What has been read, and what is read next, follow one another.
ReadSo(read, n, regs, offset) ==
  read \in Seq(0 .. 1) /\ Len(read) = n /\ \A k \in 1 .. n : read[k] = regs[offset + k - 1]

LEMMA ReadOn ==
  ASSUME NEW offset \in Nat, NEW done \in Nat, NEW size \in {1, 2, 4}, offset + (done + size) <= 12,
         NEW regs \in [0 .. 11 -> 0 .. 1], NEW bytes, ReadSo(bytes, done, regs, offset)
  PROVE  ReadSo(bytes \o [k \in 1 .. size |-> regs[offset + done + (k - 1)]], done + size, regs, offset)
<1> DEFINE come == [k \in 1 .. size |-> regs[offset + done + (k - 1)]]
           read == bytes \o come
<1>0. bytes \in Seq(0 .. 1) /\ Len(bytes) = done /\ \A k \in 1 .. done : bytes[k] = regs[offset + k - 1]
  BY Zenon DEF ReadSo
<1>1. \A k \in 1 .. size : offset + done + (k - 1) \in 0 .. 11
  OBVIOUS
<1>2. come \in Seq(0 .. 1) /\ Len(come) = size /\ \A k \in 1 .. size : come[k] = regs[offset + done + (k - 1)]
  <2>1. \A k \in 1 .. size : regs[offset + done + (k - 1)] \in 0 .. 1
    BY <1>1
  <2> QED
    BY <2>1
<1> HIDE DEF come
<1>3. /\ read \in Seq(0 .. 1) /\ Len(read) = Len(bytes) + Len(come)
      /\ \A k \in 1 .. Len(bytes) + Len(come) : read[k] = IF k <= Len(bytes) THEN bytes[k] ELSE come[k - Len(bytes)]
  BY <1>0, <1>2, BitsConcat, Zenon
<1> HIDE DEF read
<1>4. ASSUME NEW k \in 1 .. done + size PROVE read[k] = regs[offset + k - 1]
  <2>1. CASE k <= done
    <3>1. k \in 1 .. done
      BY <2>1
    <3> QED
      BY <1>0, <1>2, <1>3, <2>1, <3>1, Zenon
  <2>2. CASE ~(k <= done)
    <3>1. k - done \in 1 .. size /\ offset + done + ((k - done) - 1) = offset + k - 1
      BY <2>2
    <3>2. read[k] = come[k - done]
      BY <1>0, <1>2, <1>3, <2>2, Zenon
    <3> QED
      BY <1>2, <3>1, <3>2, Zenon
  <2> QED
    BY <2>1, <2>2
<1>5. ReadSo(read, done + size, regs, offset)
  BY <1>0, <1>2, <1>3, <1>4, Zenon DEF ReadSo
<1> QED
  BY <1>5, Zenon DEF read, come

\* A read that is not at its end yet.
LEMMA ReadGoesOn ==
  ASSUME NEW cfg, NEW lt, NEW b, NEW z, Alone(cfg, lt, b, z), b.at = "data", ~b.write,
         NEW done \in Nat, done < b.length,
         NEW read \in Seq(0 .. 1), Len(read) = done,
         \A k \in 1 .. done : read[k] = cfg[b.slot][b.offset + k - 1],
         NEW more, Moved(b, more, "address"), more.done = done, more.buffer = read
  PROVE  Alone(cfg, lt, more, z)
<1>1. b.at # "ended" /\ UnderWay(lt, b) /\ Configured(cfg) /\ z \in SizingOf
  BY Zenon DEF Alone
<1>2. Steady(cfg, more, z) /\ Sizes(more, z)
  BY <1>1, StaysAsItIs DEF CallAt
<1>3. /\ more \in CallOf /\ more.at = "address" /\ more.slot = b.slot /\ more.offset = b.offset /\ more.length = b.length
      /\ more.write = b.write
  BY Zenon DEF Moved
<1>4. UnderWay(lt, more)
  BY <1>1, <1>3 DEF UnderWay
<1>5. Brought(cfg, more)
  BY <1>3, Zenon DEF Brought
<1>6. Writes(more, z)
  BY <1>3, Zenon DEF Writes
<1>7. more.at # "ended"
  BY <1>3
<1> QED
  BY <1>1, <1>2, <1>3, <1>4, <1>5, <1>6, <1>7, Zenon DEF Alone

\* A read that ends.
LEMMA ReadEnds ==
  ASSUME NEW cfg, NEW lt, NEW b, NEW z, Alone(cfg, lt, b, z), b.at = "data", ~b.write,
         NEW read \in Seq(0 .. 1), Len(read) = b.length,
         \A k \in 1 .. b.length : read[k] = cfg[b.slot][b.offset + k - 1],
         NEW given_, given_ = Pci!Reported(b, read),
         NEW more, Moved(b, more, "ended"), more.buffer = given_
  PROVE  Alone(cfg, lt, more, z)
<1>1. /\ b \in CallOf /\ b.at # "ended" /\ UnderWay(lt, b) /\ Configured(cfg)
      /\ z \in SizingOf /\ Steady(cfg, b, z) /\ Sizes(b, z)
  BY Zenon DEF Alone
<1>2. b.offset \in Nat /\ b.length \in Nat
  BY <1>1, CallIs
<1>3. b.slot \in Pci!Devices /\ b.offset + b.length <= 12
  BY <1>1, Zenon DEF UnderWay
<1>4. /\ given_ \in Seq(0 .. 1) /\ Len(given_) = b.length
      /\ \A k \in 1 .. b.length :
           LET n == b.offset + k - 1
           IN  n >= 8 \/ (b.slot \in Patched /\ n \in {2, 3}) \/ given_[k] = read[k]
  <2>1. Tells(b, read, given_)
    BY <1>1, <1>3, ReportedIs, Zenon
  <2> QED
    BY <2>1, Zenon DEF Tells
<1>5. /\ more \in CallOf /\ more.at = "ended" /\ more.slot = b.slot /\ more.offset = b.offset /\ more.length = b.length
      /\ more.write = b.write
  BY Zenon DEF Moved
<1>6. Sizes(more, z)
  BY <1>1, <1>5, Zenon DEF Sizes
<1>7. Opened(more, z) <=> Opened(b, z)
  <2>1. z.stage # 2 /\ z.stage # 4
    <3>1. z.stage \in {2, 4} => z.stage > 0
      OBVIOUS
    <3>2. ~(z.stage \in {2, 4})
      BY <1>1, <3>1, Zenon DEF Sizes
    <3> QED
      BY <3>2
  <2> QED
    BY <2>1, Zenon DEF Opened
<1>8. \A d, n : Holds(more, z, d, n) = Holds(b, z, d, n)
  BY <1>7, Zenon DEF Holds
<1>9. Steady(cfg, more, z)
  BY <1>1, <1>8, Zenon DEF Steady
<1>10. Answers(more, z)
  <2>1. ASSUME NEW k \in 1 .. b.length
        PROVE  LET n == b.offset + k - 1
               IN  n >= 8 \/ (b.slot \in Patched /\ n \in {2, 3}) \/ given_[k] = Holds(more, z, b.slot, n)
    <3> DEFINE n == b.offset + k - 1
    <3>1. n \in 0 .. 11
      <4> DEFINE o == b.offset
                 l == b.length
      <4>1. o \in Nat /\ l \in Nat /\ o + l <= 12 /\ k \in 1 .. l
        BY <1>2, <1>3
      <4> HIDE DEF o, l
      <4>2. o + k - 1 \in 0 .. 11
        BY <4>1
      <4> QED
        BY <4>2 DEF o
    <3>2. n \in 0 .. 7 => cfg[b.slot][n] = Holds(more, z, b.slot, n)
      BY <1>3, <1>9, Zenon DEF Steady
    <3>3. n >= 8 \/ (b.slot \in Patched /\ n \in {2, 3}) \/ given_[k] = read[k]
      BY <1>4, Zenon
    <3>4. read[k] = cfg[b.slot][n]
      BY Zenon
    <3> HIDE DEF n
    <3>5. n >= 8 \/ n \in 0 .. 7
      BY <3>1
    <3>6. n >= 8 \/ (b.slot \in Patched /\ n \in {2, 3}) \/ given_[k] = Holds(more, z, b.slot, n)
      BY <3>2, <3>3, <3>4, <3>5, Zenon
    <3> QED
      BY <3>6, Zenon DEF n
  <2> QED
    BY <1>3, <1>4, <1>5, <2>1, Zenon DEF Answers
<1> QED
  BY <1>1, <1>5, <1>6, <1>9, <1>10, Zenon DEF Alone

\* A register is given the bytes of the lanes of one transfer, where it takes
\* them, and keeps the others.
WrittenTo(regs, bits, from, to, offset, bytes, after) ==
  /\ after \in [0 .. 11 -> 0 .. 1]
  /\ \A n \in 0 .. 11 :
       after[n] = IF n \in from .. to /\ n >= 4 /\ (n >= 8 \/ n - 4 \in bits) THEN bytes[1 + (n - offset)] ELSE regs[n]

LaneOf(lane, k) == lane[1] * 4 + ((lane[2] + k) % 4)
LanesWritten(regs, bits, bytes, done, size, lane) ==
  [n \in 0 .. 11 |->
     IF \E k \in 0 .. size - 1 : LaneOf(lane, k) = n
       THEN IF n < 4 \/ (n \in 4 .. 7 /\ n - 4 \notin bits) THEN regs[n]
            ELSE bytes[1 + done + (CHOOSE k \in 0 .. size - 1 : LaneOf(lane, k) = n)]
       ELSE regs[n]]

LEMMA WriteOn ==
  ASSUME NEW offset \in Nat, NEW done \in Nat, NEW size \in {1, 2, 4},
         NEW regs \in [0 .. 11 -> 0 .. 1], NEW bits, NEW bytes \in Seq(0 .. 1), done + size <= Len(bytes),
         NEW lane, \A k \in 0 .. size - 1 : LaneOf(lane, k) = offset + done + k,
         NEW after, after = LanesWritten(regs, bits, bytes, done, size, lane)
  PROVE  WrittenTo(regs, bits, offset + done, offset + done + (size - 1), offset, bytes, after)
<1> DEFINE from == offset + done
           to == offset + done + (size - 1)
           the(n) == CHOOSE k \in 0 .. size - 1 : LaneOf(lane, k) = n
           new_(n) == IF n \in from .. to /\ n >= 4 /\ (n >= 8 \/ n - 4 \in bits) THEN bytes[1 + (n - offset)] ELSE regs[n]
<1>1. ASSUME NEW n \in 0 .. 11 PROVE after[n] = new_(n) /\ new_(n) \in 0 .. 1
  <2>1. after[n] = IF \E k \in 0 .. size - 1 : LaneOf(lane, k) = n
                     THEN IF n < 4 \/ (n \in 4 .. 7 /\ n - 4 \notin bits) THEN regs[n] ELSE bytes[1 + done + the(n)]
                     ELSE regs[n]
    BY Zenon DEF LanesWritten
  <2>2. regs[n] \in 0 .. 1
    OBVIOUS
  <2>3. CASE \E k \in 0 .. size - 1 : LaneOf(lane, k) = n
    <3>1. the(n) \in 0 .. size - 1 /\ LaneOf(lane, the(n)) = n
      BY <2>3, Zenon
    <3> DEFINE k == the(n)
    <3> HIDE DEF the
    <3>2. k \in 0 .. size - 1 /\ n = offset + done + k
      BY <3>1, Zenon
    <3> HIDE DEF k
    <3>3. n \in from .. to /\ 1 + done + k = 1 + (n - offset) /\ 1 + (n - offset) \in 1 .. Len(bytes)
      BY <3>2
    <3>4. bytes[1 + (n - offset)] \in 0 .. 1
      BY <3>3
    <3>5. n < 4 \/ (n \in 4 .. 7 /\ n - 4 \notin bits) <=> ~(n >= 4 /\ (n >= 8 \/ n - 4 \in bits))
      <4>1. (n < 4 <=> ~(n >= 4)) /\ (n \in 4 .. 7 <=> n >= 4 /\ ~(n >= 8))
        OBVIOUS
      <4> QED
        BY <4>1, Zenon
    <3> QED
      BY <2>1, <2>2, <2>3, <3>3, <3>4, <3>5, Zenon DEF k
  <2>4. CASE ~\E k \in 0 .. size - 1 : LaneOf(lane, k) = n
    <3>1. n \notin from .. to
      <4> SUFFICES ASSUME n \in from .. to PROVE FALSE
        OBVIOUS
      <4> DEFINE k == n - (offset + done)
      <4>1. k \in 0 .. size - 1 /\ offset + done + k = n
        OBVIOUS
      <4>2. LaneOf(lane, k) = n
        BY <4>1, Zenon
      <4> QED
        BY <2>4, <4>1, <4>2, Zenon
    <3> QED
      BY <2>1, <2>2, <2>4, <3>1, Zenon
  <2> QED
    BY <2>3, <2>4
<1>2. after = [n \in 0 .. 11 |-> after[n]]
  BY Zenon DEF LanesWritten
<1> HIDE DEF the, from, to
<1>3. \A n \in 0 .. 11 : after[n] = new_(n)
  BY <1>1
<1>4. \A n \in 0 .. 11 : after[n] \in 0 .. 1
  BY <1>1, Zenon
<1> HIDE DEF new_
<1>5. after \in [0 .. 11 -> 0 .. 1]
  BY <1>2, <1>4, Zenon
<1> QED
  BY <1>3, <1>5, Zenon DEF WrittenTo, new_, from, to

\* The registers of one device change, the others' stay.
Rewritten(cfg, slot_, after, cfg2) ==
  Configured(cfg2) /\ cfg2[slot_] = after /\ \A d \in Pci!Devices : d # slot_ => cfg2[d] = cfg[d]

LEMMA OneIsWritten ==
  ASSUME NEW cfg, Configured(cfg), NEW slot_ \in Pci!Devices, NEW after \in [0 .. 11 -> 0 .. 1]
  PROVE  Rewritten(cfg, slot_, after, [cfg EXCEPT ![slot_] = after])
BY DEF Configured, Rewritten

\* A driver writes beyond the base addresses.
LEMMA DriverWrites ==
  ASSUME NEW cfg, NEW lt, NEW b, NEW z, Alone(cfg, lt, b, z), b.at = "data", b.write, z.stage = 0, b.offset = 9,
         b.length = 2, Len(b.buffer) = 2,
         NEW done \in Nat, b.done < done, done <= 2,
         NEW after, WrittenTo(cfg[b.slot], BarBits[b.slot], 9 + b.done, 9 + b.done + ((done - b.done) - 1), 9, b.buffer, after),
         NEW cfg2, cfg2 = [cfg EXCEPT ![b.slot] = after],
         NEW at, at = IF done < 2 THEN "address" ELSE "ended",
         NEW more, Moved(b, more, at), more.done = done, more.buffer = b.buffer
  PROVE  Alone(cfg2, lt, more, z)
<1>1. /\ b \in CallOf /\ b.at # "ended" /\ UnderWay(lt, b) /\ Configured(cfg) /\ z \in SizingOf
      /\ Steady(cfg, b, z) /\ Sizes(b, z)
  BY Zenon DEF Alone
<1>2. b.slot \in Pci!Devices /\ b.done \in Nat
  BY <1>1, CallIs, Zenon DEF UnderWay
<1>3. Configured(cfg2) /\ cfg2[b.slot] = after /\ \A d \in Pci!Devices : d # b.slot => cfg2[d] = cfg[d]
  <2>1. after \in [0 .. 11 -> 0 .. 1]
    BY Zenon DEF WrittenTo
  <2>2. Rewritten(cfg, b.slot, after, cfg2)
    BY <1>1, <1>2, <2>1, OneIsWritten, Zenon
  <2> QED
    BY <2>2, Zenon DEF Rewritten
<1>4. \A n \in 0 .. 7 : n \in 0 .. 11 /\ n \notin 9 + b.done .. 9 + b.done + ((done - b.done) - 1)
  BY <1>2
<1>5. ASSUME NEW d \in Pci!Devices, NEW n \in 0 .. 7 PROVE cfg2[d][n] = cfg[d][n]
  <2>1. CASE d # b.slot
    BY <1>3, <2>1, Zenon
  <2>2. CASE d = b.slot
    <3>1. after[n] = cfg[b.slot][n]
      BY <1>4, Zenon DEF WrittenTo
    <3> QED
      BY <1>3, <2>2, <3>1, Zenon
  <2> QED
    BY <2>1, <2>2
<1>6. /\ more \in CallOf /\ more.at = at /\ more.slot = b.slot /\ more.offset = 9 /\ more.length = 2 /\ more.write
      /\ Len(more.buffer) = 2
  BY Zenon DEF Moved
<1>7. ~Opened(b, z) /\ ~Opened(more, z)
  <2>1. z.stage # 2 /\ z.stage # 3 /\ z.stage # 4
    OBVIOUS
  <2> QED
    BY <2>1, Zenon DEF Opened
<1>8. \A d, n : Holds(more, z, d, n) = Holds(b, z, d, n)
  BY <1>7, Zenon DEF Holds
<1>9. Steady(cfg2, more, z)
  <2>1. ASSUME NEW d \in Pci!Devices, NEW n \in 0 .. 7 PROVE cfg2[d][n] = Holds(more, z, d, n)
    <3>1. cfg[d][n] = Holds(b, z, d, n)
      BY <1>1, Zenon DEF Steady
    <3>2. cfg2[d][n] = cfg[d][n]
      BY <1>5
    <3>3. Holds(more, z, d, n) = Holds(b, z, d, n)
      BY <1>8, Zenon
    <3> QED
      BY <3>1, <3>2, <3>3, Zenon
  <2> QED
    BY <2>1, Zenon DEF Steady
<1>10. Sizes(more, z)
  <2>1. ~(z.stage > 0) /\ ~(z.stage > 1) /\ z.stage # 4
    OBVIOUS
  <2> QED
    BY <2>1, Zenon DEF Sizes
<1>11. CASE done < 2
  <2>1. more.at = "address"
    BY <1>6, <1>11, Zenon
  <2>2. UnderWay(lt, more)
    <3>1. more.slot \in Slots
      BY <1>2, <1>6, PciNumbers
    <3> QED
      BY <1>2, <1>6, <1>11, <2>1, <3>1 DEF UnderWay
  <2>3. Brought(cfg2, more)
    BY <1>6, Zenon DEF Brought
  <2>4. Writes(more, z)
    BY <1>6, Zenon DEF Writes
  <2>5. more.at # "ended"
    BY <2>1
  <2> QED
    BY <1>1, <1>3, <1>6, <1>9, <1>10, <2>2, <2>3, <2>4, <2>5, Zenon DEF Alone
<1>12. CASE ~(done < 2)
  <2>1. more.at = "ended"
    BY <1>6, <1>12, Zenon
  <2>2. Answers(more, z)
    BY <1>6, Zenon DEF Answers
  <2> QED
    BY <1>1, <1>3, <1>6, <1>9, <1>10, <2>1, <2>2, Zenon DEF Alone
<1> QED
  BY <1>11, <1>12

\* HalpSizeBar writes ones, or what it had read, in one transfer.
LEMMA SizerWrites ==
  ASSUME NEW cfg, NEW lt, NEW b, NEW z, Alone(cfg, lt, b, z), b.at = "data", b.write,
         \/ z.stage = 2 /\ b.buffer = <<1, 1, 1, 1>>
         \/ z.stage = 4 /\ b.buffer = z.orig,
         NEW after, WrittenTo(cfg[b.slot], BarBits[b.slot], 4, 7, 4, b.buffer, after),
         NEW cfg2, cfg2 = [cfg EXCEPT ![b.slot] = after],
         NEW more, Moved(b, more, "ended")
  PROVE  Alone(cfg2, lt, more, z)
<1>1. /\ b \in CallOf /\ b.at # "ended" /\ UnderWay(lt, b) /\ Configured(cfg) /\ z \in SizingOf
      /\ Steady(cfg, b, z) /\ Sizes(b, z)
  BY Zenon DEF Alone
<1>2. b.slot \in Pci!Devices
  BY <1>1, Zenon DEF UnderWay
<1>3. Configured(cfg2) /\ cfg2[b.slot] = after /\ \A d \in Pci!Devices : d # b.slot => cfg2[d] = cfg[d]
  <2>1. after \in [0 .. 11 -> 0 .. 1]
    BY Zenon DEF WrittenTo
  <2>2. Rewritten(cfg, b.slot, after, cfg2)
    BY <1>1, <1>2, <2>1, OneIsWritten, Zenon
  <2> QED
    BY <2>2, Zenon DEF Rewritten
<1>4. z.stage > 0 /\ (z.stage = 4 => z.stage > 1)
  OBVIOUS
<1>5. b.slot = z.slot
  BY <1>1, <1>4, Zenon DEF Sizes
<1>6. /\ more \in CallOf /\ more.at = "ended" /\ more.slot = b.slot /\ more.offset = b.offset
      /\ more.length = b.length /\ more.write = b.write
  BY Zenon DEF Moved
<1>7. (Opened(b, z) <=> z.stage = 4) /\ (Opened(more, z) <=> z.stage = 2)
  <2>1. z.stage # 3 /\ (z.stage = 2 => z.stage # 4)
    OBVIOUS
  <2> QED
    BY <1>1, <1>6, <2>1, Zenon DEF Opened
<1>8. ASSUME NEW d \in Pci!Devices, NEW n \in 0 .. 7 PROVE cfg2[d][n] = Holds(more, z, d, n)
  <2>1. cfg[d][n] = Holds(b, z, d, n)
    BY <1>1, Zenon DEF Steady
  <2>2. CASE d # z.slot
    BY <1>3, <1>5, <2>1, <2>2, Zenon DEF Holds
  <2>3. CASE d = z.slot /\ ~(n >= 4 /\ n - 4 \in BarBits[d])
    <3>1. n \in 0 .. 11 /\ ~(n >= 8)
      OBVIOUS
    <3>2. after[n] = cfg[b.slot][n]
      BY <1>5, <2>3, <3>1, Zenon DEF WrittenTo
    <3>3. cfg2[d][n] = cfg[d][n]
      BY <1>3, <1>5, <2>3, <3>2, Zenon
    <3> QED
      BY <2>1, <2>3, <3>3, Zenon DEF Holds
  <2>4. CASE d = z.slot /\ n >= 4 /\ n - 4 \in BarBits[d]
    <3> DEFINE i == 1 + (n - 4)
    <3>1. n \in 0 .. 11 /\ n \in 4 .. 7 /\ i \in 1 .. 4 /\ 3 + i = n
      BY <2>4
    <3> HIDE DEF i
    <3>2. cfg2[d][n] = b.buffer[i]
      BY <1>3, <1>5, <2>4, <3>1, ZenonT(60) DEF WrittenTo, i
    <3>3. CASE z.stage = 2 /\ b.buffer = <<1, 1, 1, 1>>
      <4>1. b.buffer[i] = 1
        <5>1. <<1, 1, 1, 1>>[i] = 1
          BY <3>1
        <5> QED
          BY <3>3, <5>1, Zenon
      <4> QED
        BY <1>7, <2>4, <3>2, <3>3, <4>1, Zenon DEF Holds
    <3>4. CASE z.stage = 4 /\ b.buffer = z.orig
      <4>1. z.orig[i] = Present[z.slot][n]
        BY <1>1, <1>4, <3>1, <3>4, Zenon DEF Sizes
      <4>2. ~Opened(more, z)
        <5>1. z.stage # 2
          BY <3>4
        <5> QED
          BY <1>7, <5>1, Zenon
      <4> QED
        BY <2>4, <3>2, <3>4, <4>1, <4>2, Zenon DEF Holds
    <3> QED
      BY <3>3, <3>4
  <2> QED
    BY <2>2, <2>3, <2>4
<1>9. Steady(cfg2, more, z)
  BY <1>8, Zenon DEF Steady
<1>10. Sizes(more, z)
  BY <1>1, <1>6, Zenon DEF Sizes
<1>11. Answers(more, z)
  BY <1>6, Zenon DEF Answers
<1> QED
  BY <1>1, <1>3, <1>6, <1>9, <1>10, <1>11, Zenon DEF Alone

\* What the devices hold, and what was told, when the sizing is where it was.
LEMMA SteadyStill ==
  ASSUME NEW cfg, NEW b, NEW z, NEW more, NEW z2, Steady(cfg, b, z), \A d, n : Holds(more, z2, d, n) = Holds(b, z, d, n)
  PROVE  Steady(cfg, more, z2)
<1>1. ASSUME NEW d \in Pci!Devices, NEW n \in 0 .. 7 PROVE cfg[d][n] = Holds(more, z2, d, n)
  <2>1. cfg[d][n] = Holds(b, z, d, n)
    BY Zenon DEF Steady
  <2>2. Holds(more, z2, d, n) = Holds(b, z, d, n)
    BY Zenon
  <2> QED
    BY <2>1, <2>2, Zenon
<1> QED
  BY <1>1, Zenon DEF Steady

LEMMA AnswersStill ==
  ASSUME NEW b, NEW z, NEW z2, Answers(b, z), \A d, n : Holds(b, z2, d, n) = Holds(b, z, d, n)
  PROVE  Answers(b, z2)
<1> SUFFICES ASSUME ~b.write /\ b.length > 0, NEW k \in 1 .. b.length
             PROVE  LET n == b.offset + k - 1
                    IN  n >= 8 \/ (b.slot \in Patched /\ n \in {2, 3}) \/ b.buffer[k] = Holds(b, z2, b.slot, n)
  BY Zenon DEF Answers
<1> DEFINE n == b.offset + k - 1
<1>1. n >= 8 \/ (b.slot \in Patched /\ n \in {2, 3}) \/ b.buffer[k] = Holds(b, z, b.slot, n)
  BY Zenon DEF Answers
<1> HIDE DEF n
<1>2. Holds(b, z2, b.slot, n) = Holds(b, z, b.slot, n)
  BY Zenon
<1>3. n >= 8 \/ (b.slot \in Patched /\ n \in {2, 3}) \/ b.buffer[k] = Holds(b, z2, b.slot, n)
  BY <1>1, <1>2, Zenon
<1> QED
  BY <1>3, Zenon DEF n

Begun(write, slot_, offset, length, bytes) ==
  [at |-> "probe", write |-> write, slot |-> slot_, offset |-> offset, length |-> length, done |-> 0, buffer |-> bytes]

BegunSo(b, write, slot_, offset, length, bytes) ==
  /\ b \in CallOf /\ b.at = "probe" /\ b.write = write /\ b.slot = slot_ /\ b.offset = offset /\ b.length = length
  /\ b.done = 0 /\ b.buffer = bytes

LEMMA BegunIs ==
  ASSUME NEW write \in BOOLEAN, NEW slot_ \in Slots, NEW offset \in Nat, NEW length \in Nat, NEW bytes \in Seq(0 .. 1)
  PROVE  BegunSo(Begun(write, slot_, offset, length, bytes), write, slot_, offset, length, bytes)
BY DEF CallOf, CallAt, Begun, BegunSo

\* A driver begins to read anything or to write beyond the base addresses.
LEMMA DriverBegins ==
  ASSUME NEW cfg, NEW lt, NEW b, NEW z, Alone(cfg, lt, b, z), b.at = "ended", z.stage = 0,
         NEW write \in BOOLEAN, NEW slot_ \in Slots, NEW offset \in Nat, NEW length \in Nat \ {0}, offset + length <= 12,
         NEW bytes \in Seq(0 .. 1),
         \/ ~write /\ bytes = <<>>
         \/ write /\ offset = 9 /\ length = 2 /\ Len(bytes) = 2,
         NEW more, BegunSo(more, write, slot_, offset, length, bytes)
  PROVE  Alone(cfg, lt, more, z)
<1>1. Configured(cfg) /\ z \in SizingOf /\ Steady(cfg, b, z)
  BY Zenon DEF Alone
<1>2. /\ more \in CallOf /\ more.at = "probe" /\ more.write = write /\ more.slot = slot_ /\ more.offset = offset
      /\ more.length = length /\ more.done = 0 /\ more.buffer = bytes
  BY Zenon DEF BegunSo
<1>3. ~Opened(b, z) /\ ~Opened(more, z)
  <2>1. z.stage # 2 /\ z.stage # 3 /\ z.stage # 4
    OBVIOUS
  <2> QED
    BY <2>1, Zenon DEF Opened
<1>4. \A d, n : Holds(more, z, d, n) = Holds(b, z, d, n)
  BY <1>3, Zenon DEF Holds
<1>5. Steady(cfg, more, z)
  BY <1>1, <1>4, SteadyStill, Zenon
<1>6. Sizes(more, z)
  <2>1. ~(z.stage > 0) /\ ~(z.stage > 1) /\ z.stage # 4
    OBVIOUS
  <2> QED
    BY <2>1, Zenon DEF Sizes
<1>7. UnderWay(lt, more)
  BY <1>2 DEF UnderWay
<1>8. Brought(cfg, more)
  <2>1. CASE more.write
    BY <2>1, Zenon DEF Brought
  <2>2. CASE ~more.write
    <3>1. bytes = <<>>
      BY <1>2, <2>2, Zenon
    <3>2. Len(more.buffer) = 0 /\ \A k \in 1 .. 0 : FALSE
      BY <1>2, <3>1
    <3> QED
      BY <1>2, <3>2, Zenon DEF Brought
  <2> QED
    BY <2>1, <2>2
<1>9. Writes(more, z)
  BY <1>2, Zenon DEF Writes
<1>10. more.at # "ended"
  BY <1>2
<1> QED
  BY <1>1, <1>2, <1>5, <1>6, <1>7, <1>8, <1>9, <1>10, Zenon DEF Alone

\* What HalpSizeBar has found is that of the slot it sizes.
FoundSo(z) ==
  /\ z.stage > 1 => Len(z.orig) = 4 /\ \A i \in 1 .. 4 : z.orig[i] = Present[z.slot][3 + i]
  /\ z.stage = 4 => z.length = Pci!Weight[CHOOSE n \in BarBits[z.slot] : \A m \in BarBits[z.slot] : n <= m]

\* HalpSizeBar goes on to its next access.
LEMMA SizerBegins ==
  ASSUME NEW cfg, NEW lt, NEW b, NEW z, Alone(cfg, lt, b, z), b.at = "ended",
         NEW z2 \in SizingOf, z2.stage = z.stage + 1, z2.slot \in Pci!Devices, FoundSo(z2),
         z.stage > 0 => z2.slot = z.slot,
         NEW write, write = (z2.stage \in {2, 4}), NEW bytes \in Seq(0 .. 1),
         \/ z2.stage \in {1, 3} /\ bytes = <<>>
         \/ z2.stage = 2 /\ bytes = <<1, 1, 1, 1>>
         \/ z2.stage = 4 /\ bytes = z2.orig,
         NEW more, BegunSo(more, write, z2.slot, 4, 4, bytes)
  PROVE  Alone(cfg, lt, more, z2)
<1>1. Configured(cfg) /\ z \in SizingOf /\ Steady(cfg, b, z)
  BY Zenon DEF Alone
<1>2. /\ more \in CallOf /\ more.at = "probe" /\ more.write = write /\ more.slot = z2.slot /\ more.offset = 4
      /\ more.length = 4 /\ more.done = 0 /\ more.buffer = bytes
  BY Zenon DEF BegunSo
<1>3. z.stage \in 0 .. 3 /\ z2.stage \in 1 .. 4
  <2>1. z.stage \in 0 .. 4 /\ z2.stage \in 0 .. 4
    BY <1>1, SizingIs
  <2> QED
    BY <2>1
<1>4. Opened(more, z2) <=> Opened(b, z)
  <2>1. /\ z2.stage = 3 <=> z.stage = 2
        /\ z2.stage = 4 <=> z.stage = 3
        /\ z.stage # 4
    BY <1>3
  <2>2. more.at # "ended"
    BY <1>2
  <2> QED
    BY <2>1, <2>2, Zenon DEF Opened
<1>5. Opened(b, z) => z2.slot = z.slot
  <2>1. z.stage \in {2, 3, 4} => z.stage > 0
    OBVIOUS
  <2> QED
    BY <2>1, Zenon DEF Opened
<1>6. \A d, n : Holds(more, z2, d, n) = Holds(b, z, d, n)
  BY <1>4, <1>5, Zenon DEF Holds
<1>7. Steady(cfg, more, z2)
  BY <1>1, <1>6, SteadyStill, Zenon
<1>8. Sizes(more, z2)
  BY <1>2, Zenon DEF Sizes, FoundSo
<1>9. UnderWay(lt, more)
  <2>1. more.slot \in Slots
    BY <1>2, PciNumbers
  <2> QED
    BY <1>2, <2>1 DEF UnderWay
<1>10. Brought(cfg, more) /\ Writes(more, z2)
  <2>1. CASE z2.stage \in {1, 3} /\ bytes = <<>>
    <3>1. ~write
      <4>1. ~(z2.stage \in {2, 4})
        BY <2>1
      <4> QED
        BY <4>1, Zenon
    <3>2. Len(more.buffer) = 0 /\ \A k \in 1 .. 0 : FALSE
      BY <1>2, <2>1
    <3> QED
      BY <1>2, <3>1, <3>2, Zenon DEF Brought, Writes
  <2>2. CASE z2.stage = 2 /\ bytes = <<1, 1, 1, 1>>
    <3>1. write
      BY <2>2
    <3> QED
      BY <1>2, <2>2, <3>1, Zenon DEF Brought, Writes
  <2>3. CASE z2.stage = 4 /\ bytes = z2.orig
    <3>1. write
      BY <2>3
    <3> QED
      BY <1>2, <2>3, <3>1, Zenon DEF Brought, Writes
  <2> QED
    BY <2>1, <2>2, <2>3
<1>11. more.at # "ended"
  BY <1>2
<1> QED
  BY <1>1, <1>2, <1>7, <1>8, <1>9, <1>10, <1>11, Zenon DEF Alone

\* HalpSizeBar ends, after its first read or after the last write.
LEMMA SizerEnds ==
  ASSUME NEW cfg, NEW lt, NEW b, NEW z, Alone(cfg, lt, b, z), b.at = "ended", z.stage \in {1, 4},
         NEW z2 \in SizingOf, z2.stage = 0, z2.slot = z.slot
  PROVE  Alone(cfg, lt, b, z2)
<1>1. b \in CallOf /\ Configured(cfg) /\ Steady(cfg, b, z) /\ Answers(b, z)
  BY Zenon DEF Alone
<1>2. ~Opened(b, z) /\ ~Opened(b, z2)
  <2>1. z.stage # 2 /\ z.stage # 3 /\ z2.stage # 2 /\ z2.stage # 3 /\ z2.stage # 4
    OBVIOUS
  <2> QED
    BY <2>1, Zenon DEF Opened
<1>3. \A d, n : Holds(b, z2, d, n) = Holds(b, z, d, n)
  BY <1>2, Zenon DEF Holds
<1>4. Steady(cfg, b, z2)
  BY <1>1, <1>3, SteadyStill, Zenon
<1>5. Answers(b, z2)
  BY <1>1, <1>3, AnswersStill, Zenon
<1>6. Sizes(b, z2)
  <2>1. ~(z2.stage > 0) /\ ~(z2.stage > 1) /\ z2.stage # 4
    OBVIOUS
  <2> QED
    BY <2>1, Zenon DEF Sizes
<1> QED
  BY <1>1, <1>4, <1>5, <1>6, Zenon DEF Alone

\* The inductive invariant of a caller that is alone.
PciInv(c) ==
  /\ call \in [{c} -> CallOf] /\ sizing \in [{c} -> SizingOf]
  /\ Alone(config, latch, call[c], sizing[c])

LEMMA OneSet ==
  ASSUME NEW c, NEW S, NEW f \in [{c} -> S], NEW x \in S
  PROVE  [f EXCEPT ![c] = x] \in [{c} -> S] /\ [f EXCEPT ![c] = x][c] = x
OBVIOUS

\* What is told, kept and found follows.
LEMMA AloneIsFaithful ==
  ASSUME NEW c, Callers = {c}, PciInv(c)
  PROVE  Pci!ConfigIsFaithful
<1> DEFINE b == call[c]
           z == sizing[c]
<1>1. b \in CallOf /\ z \in SizingOf /\ Alone(config, latch, b, z)
  BY DEF PciInv
<1>2. Steady(config, b, z) /\ Sizes(b, z) /\ (b.at = "ended" => Answers(b, z))
  BY <1>1, Zenon DEF Alone
<1> HIDE DEF b, z
<1>3. z.stage \in 0 .. 4
  BY <1>1, SizingIs
<1>4. \A d, n : Holds(b, z, d, n) = Present[d][n] \/ (n >= 4 /\ Opened(b, z))
  BY Zenon DEF Holds
<1>5. Opened(b, z) => z.stage > 0
  BY <1>3 DEF Opened
<1>6. Pci!ReadsItsRegister
  <2> SUFFICES ASSUME b.at = "ended", ~b.write, b.length > 0, NEW k \in 1 .. b.length
               PROVE  /\ Len(b.buffer) = b.length
                      /\ LET n == b.offset + k - 1
                         IN  \/ n >= 8
                             \/ b.slot \in Patched /\ n \in {2, 3}
                             \/ n >= 4 /\ z.stage > 0
                             \/ b.buffer[k] = IF b.slot \in Pci!Devices THEN Present[b.slot][n] ELSE 1
    <3>1. ASSUME b.at = "ended", ~b.write, b.length > 0
          PROVE  1 \in 1 .. b.length
      BY <1>1, <3>1, CallIs
    <3> QED
      BY <3>1, Zenon DEF Pci!ReadsItsRegister, Pci!LineAt, Pci!BarAt, b, z
  <2> DEFINE n == b.offset + k - 1
  <2>1. /\ b.slot \in Pci!Devices /\ Len(b.buffer) = b.length
        /\ n >= 8 \/ (b.slot \in Patched /\ n \in {2, 3}) \/ b.buffer[k] = Holds(b, z, b.slot, n)
    BY <1>2, Zenon DEF Answers
  <2> HIDE DEF n
  <2>2. \/ n >= 8
        \/ b.slot \in Patched /\ n \in {2, 3}
        \/ n >= 4 /\ z.stage > 0
        \/ b.buffer[k] = IF b.slot \in Pci!Devices THEN Present[b.slot][n] ELSE 1
    BY <1>4, <1>5, <2>1, Zenon
  <2> QED
    BY <2>1, <2>2, Zenon DEF n
<1>7. Pci!BarsAreKept
  <2> SUFFICES ASSUME z.stage = 0, NEW d \in Pci!Devices, NEW n \in 4 .. 7 PROVE config[d][n] = Present[d][n]
    <3>1. 4 + 3 = 7
      OBVIOUS
    <3> QED
      BY <3>1, Zenon DEF Pci!BarsAreKept, Pci!BarAt, z
  <2>1. n \in 0 .. 7 /\ ~(z.stage > 0)
    OBVIOUS
  <2>2. config[d][n] = Holds(b, z, d, n)
    BY <1>2, <2>1, Zenon DEF Steady
  <2> QED
    BY <1>4, <1>5, <2>1, <2>2, Zenon
<1>8. Pci!LengthIsDecoded
  BY <1>2, Zenon DEF Pci!LengthIsDecoded, Sizes, z
<1> QED
  BY <1>6, <1>7, <1>8, Zenon DEF Pci!ConfigIsFaithful

LEMMA PciStart == ASSUME NEW c, Callers = {c}, Pci!Init PROVE PciInv(c)
<1> DEFINE b == Pci!Ended(<<>>)
           z == Pci!NotSizing
<1>1. call = [x \in {c} |-> b] /\ sizing = [x \in {c} |-> z] /\ config = Present
  BY Zenon DEF Pci!Init
<1>2. /\ b \in CallOf /\ b.at = "ended" /\ b.length = 0 /\ z \in SizingOf /\ z.stage = 0
  <2>1. <<>> \in Seq(0 .. 1)
    OBVIOUS
  <2> QED
    BY <2>1 DEF Pci!Ended, Pci!NotSizing, CallOf, CallAt, SizingOf
<1> HIDE DEF b, z
<1>3. call \in [{c} -> CallOf] /\ sizing \in [{c} -> SizingOf] /\ call[c] = b /\ sizing[c] = z
  BY <1>1, <1>2
<1>4. ~Opened(b, z)
  <2>1. z.stage # 2 /\ z.stage # 3 /\ z.stage # 4
    BY <1>2
  <2> QED
    BY <2>1, Zenon DEF Opened
<1>5. Steady(config, b, z)
  BY <1>1, <1>4, Zenon DEF Steady, Holds
<1>6. Sizes(b, z)
  <2>1. ~(z.stage > 0) /\ ~(z.stage > 1) /\ z.stage # 4
    BY <1>2
  <2> QED
    BY <2>1, Zenon DEF Sizes
<1>7. Configured(config)
  BY <1>1, PciNumbers, Zenon DEF Configured
<1>8. Answers(b, z)
  <2>1. ~(b.length > 0)
    BY <1>2
  <2> QED
    BY <2>1, Zenon DEF Answers
<1>9. Alone(config, latch, b, z)
  BY <1>2, <1>5, <1>6, <1>7, <1>8, Zenon DEF Alone
<1> QED
  BY <1>3, <1>9, Zenon DEF PciInv

\* An access goes on: the sizing stays where it is.
LEMMA CallStep ==
  ASSUME NEW c, PciInv(c), NEW more \in CallOf, call' = [call EXCEPT ![c] = more], UNCHANGED sizing,
         Alone(config', latch', more, sizing[c])
  PROVE  PciInv(c)'
<1>1. call' \in [{c} -> CallOf] /\ call'[c] = more
  BY OneSet, Zenon DEF PciInv
<1>2. sizing' \in [{c} -> SizingOf] /\ sizing'[c] = sizing[c]
  BY Zenon DEF PciInv
<1> QED
  BY <1>1, <1>2, Zenon DEF PciInv

LEMMA PciPortStep ==
  ASSUME NEW c, PciInv(c), Pci!ProbeAddress(c) \/ Pci!ProbeData(c) \/ Pci!AccessAddress(c)
  PROVE  PciInv(c)'
<1> DEFINE b == call[c]
           z == sizing[c]
<1>1. Alone(config, latch, b, z) /\ b \in CallOf
  BY DEF PciInv
<1>2. CASE Pci!ProbeAddress(c)
  <2> DEFINE more == [b EXCEPT !.at = "vendor"]
  <2>1. b.at = "probe" /\ latch' = <<b.slot, 0>> /\ UNCHANGED <<config, sizing>>
    BY <1>2, Zenon DEF Pci!ProbeAddress, Pci!Ports
  <2>2. call' = [call EXCEPT ![c] = more]
    BY <1>2 DEF Pci!ProbeAddress
  <2>3. Alone(config, latch', more, z)
    <3> HIDE DEF b, z
    <3> QED
      BY <1>1, <2>1, ProbeAddressKeeps
  <2>4. more \in CallOf
    BY <2>3, Zenon DEF Alone
  <2> HIDE DEF more
  <2> QED
    BY <2>1, <2>2, <2>3, <2>4, CallStep
<1>3. CASE Pci!AccessAddress(c)
  <2> DEFINE more == [b EXCEPT !.at = "data"]
  <2>1. b.at = "address" /\ latch' = <<b.slot, (b.offset + b.done) \div 4>> /\ UNCHANGED <<config, sizing>>
    BY <1>3, Zenon DEF Pci!AccessAddress, Pci!Ports
  <2>2. call' = [call EXCEPT ![c] = more]
    BY <1>3 DEF Pci!AccessAddress
  <2>3. Alone(config, latch', more, z)
    <3> HIDE DEF b, z
    <3> QED
      BY <1>1, <2>1, AccessAddressKeeps
  <2>4. more \in CallOf
    BY <2>3, Zenon DEF Alone
  <2> HIDE DEF more
  <2> QED
    BY <2>1, <2>2, <2>3, <2>4, CallStep
<1>4. CASE Pci!ProbeData(c)
  <2> DEFINE there(n) == IF b.slot \in Pci!Devices THEN config[b.slot][n] ELSE 1
             absent == there(0) = 1 /\ there(1) = 1
             got_ == IF ~b.write /\ b.offset = 0 /\ b.length >= 2 THEN <<1, 1>> ELSE <<>>
             more == IF ~absent THEN [b EXCEPT !.at = "address"] ELSE Pci!Ended(got_)
  <2>1. b.at = "vendor" /\ UNCHANGED <<config, latch, sizing>>
    BY <1>4, Zenon DEF Pci!ProbeData, Pci!Ports
  <2>2. latch[1] = b.slot
    <3> HIDE DEF b, z
    <3>1. UnderWay(latch, b)
      BY <1>1, <2>1 DEF Alone
    <3> QED
      BY <2>1, <3>1, Zenon DEF UnderWay
  <2>3. call' = [call EXCEPT ![c] = more]
    BY <1>4, <2>2, Zenon DEF Pci!ProbeData, Pci!ByteAt
  <2>4. Alone(config, latch, more, z)
    <3> HIDE DEF b, z
    <3>1. got_ \in {<<1, 1>>, <<>>}
      BY Zenon
    <3> HIDE DEF got_
    <3> QED
      BY <1>1, <2>1, <3>1, ProbeDataKeeps, Zenon
  <2>5. more \in CallOf
    BY <2>4, Zenon DEF Alone
  <2> HIDE DEF more
  <2> QED
    BY <2>1, <2>3, <2>4, <2>5, CallStep
<1> QED
  BY <1>2, <1>3, <1>4

\* An access whose buffer is filled and ends is that access still.
LEMMA CallEnds ==
  ASSUME NEW b \in CallOf, NEW bytes \in Seq(0 .. 1), NEW more, more = [b EXCEPT !.at = "ended", !.buffer = bytes]
  PROVE  Moved(b, more, "ended") /\ more.buffer = bytes
BY DEF CallOf, CallAt, Moved

LEMMA MovedOn ==
  ASSUME NEW b, NEW now, NEW more, NEW at, NEW at2, Moved(b, now, at), Moved(now, more, at2)
  PROVE  Moved(b, more, at2)
BY Zenon DEF Moved

\* Where a transfer has come.
NowOf(b, done, bytes) == [b EXCEPT !.at = "address", !.done = done, !.buffer = bytes]
NowSo(b, done, bytes, now) == Moved(b, now, "address") /\ now.done = done /\ now.buffer = bytes

LEMMA NowIs ==
  ASSUME NEW b \in CallOf, NEW done \in Nat, NEW bytes \in Seq(0 .. 1)
  PROVE  NowSo(b, done, bytes, NowOf(b, done, bytes))
BY DEF CallOf, CallAt, Moved, NowOf, NowSo

\* Reading at the data port, the last time and before.
LEMMA ReadKeeps ==
  ASSUME NEW cfg, NEW lt, NEW b, NEW z, Alone(cfg, lt, b, z), b.at = "data", ~b.write,
         NEW size, size = Pci!SizeOf(b.offset + b.done, b.length - b.done),
         NEW read, read = b.buffer \o [k \in 1 .. size |-> cfg[b.slot][b.offset + b.done + (k - 1)]],
         NEW now, Moved(b, now, "address"), now.done = b.done + size, now.buffer = read,
         NEW more, more = IF now.done < b.length THEN now
                          ELSE [now EXCEPT !.at = "ended", !.buffer = Pci!Reported(b, now.buffer)]
  PROVE  Alone(cfg, lt, more, z)
<1>1. b \in CallOf /\ b.at # "ended" /\ Brought(cfg, b) /\ Configured(cfg)
  BY Zenon DEF Alone
<1>2. b.offset \in Nat /\ b.length \in Nat /\ b.done \in Nat /\ b.buffer \in Seq(0 .. 1)
  BY <1>1, CallIs
<1>3. /\ size \in {1, 2, 4} /\ b.done + size <= b.length /\ b.slot \in Pci!Devices
      /\ b.offset + b.length <= 12
  BY TransferIs, Zenon
<1>4. Len(b.buffer) = b.done /\ \A k \in 1 .. b.done : b.buffer[k] = cfg[b.slot][b.offset + k - 1]
  BY <1>1, Zenon DEF Brought
<1>5. cfg[b.slot] \in [0 .. 11 -> 0 .. 1]
  BY <1>1, <1>3 DEF Configured
<1>6. /\ read \in Seq(0 .. 1) /\ Len(read) = b.done + size
      /\ \A k \in 1 .. b.done + size : read[k] = cfg[b.slot][b.offset + k - 1]
  <2>1. ReadSo(b.buffer, b.done, cfg[b.slot], b.offset)
    BY <1>2, <1>4, Zenon DEF ReadSo
  <2>2. ReadSo(read, b.done + size, cfg[b.slot], b.offset)
    <3>1. b.offset + (b.done + size) <= 12
      BY <1>2, <1>3
    <3> DEFINE both == b.buffer \o [k \in 1 .. size |-> cfg[b.slot][b.offset + b.done + (k - 1)]]
    <3>2. ReadSo(both, b.done + size, cfg[b.slot], b.offset)
      BY <1>2, <1>3, <1>5, <2>1, <3>1, ReadOn, Zenon
    <3>3. read = both
      OBVIOUS
    <3> HIDE DEF both
    <3> QED
      BY <3>2, <3>3, Zenon
  <2> QED
    BY <2>2, Zenon DEF ReadSo
<1>7. CASE now.done < b.length
  <2>1. more = now
    BY <1>7, Zenon
  <2>2. b.done + size \in Nat /\ b.done + size < b.length
    BY <1>2, <1>3, <1>7
  <2>3. Alone(cfg, lt, now, z)
    BY <1>6, <2>2, ReadGoesOn
  <2> QED
    BY <2>1, <2>3, Zenon
<1>8. CASE ~(now.done < b.length)
  <2>1. b.done + size = b.length
    BY <1>2, <1>3, <1>8
  <2>2. now \in CallOf
    BY Zenon DEF Moved
  <2> DEFINE given_ == Pci!Reported(b, read)
  <2>3. given_ \in Seq(0 .. 1)
    BY <1>1, <1>3, <1>6, ReportedIs, Zenon DEF Tells
  <2>4. more = [now EXCEPT !.at = "ended", !.buffer = given_]
    BY <1>8, Zenon
  <2> HIDE DEF given_
  <2>5. Moved(now, more, "ended") /\ more.buffer = given_
    BY <2>2, <2>3, <2>4, CallEnds, Zenon
  <2>6. Moved(b, more, "ended")
    BY <2>5, MovedOn, Zenon
  <2>7. Len(read) = b.length /\ \A k \in 1 .. b.length : read[k] = cfg[b.slot][b.offset + k - 1]
    BY <1>6, <2>1, Zenon
  <2>8. given_ = Pci!Reported(b, read)
    BY DEF given_
  <2> QED
    BY <1>6, <2>5, <2>6, <2>7, <2>8, ReadEnds, Zenon
<1> QED
  BY <1>7, <1>8

\* Writing at the data port.
Overwritten(cfg, slot_, after) == [cfg EXCEPT ![slot_] = after]
Went(b, now) == IF now.done < b.length THEN now ELSE [now EXCEPT !.at = "ended", !.buffer = now.buffer]

LEMMA WriteKeeps ==
  ASSUME NEW cfg, NEW lt, NEW b, NEW z, Alone(cfg, lt, b, z), b.at = "data", b.write,
         NEW size, size = Pci!SizeOf(b.offset + b.done, b.length - b.done),
         NEW after,
         b.done + size <= Len(b.buffer) =>
           WrittenTo(cfg[b.slot], BarBits[b.slot], b.offset + b.done, b.offset + b.done + (size - 1), b.offset, b.buffer, after),
         NEW cfg2, cfg2 = Overwritten(cfg, b.slot, after),
         NEW now, Moved(b, now, "address"), now.done = b.done + size, now.buffer = b.buffer,
         NEW more, more = Went(b, now)
  PROVE  Alone(cfg2, lt, more, z)
<1>1. b \in CallOf /\ b.at # "ended" /\ Writes(b, z) /\ Configured(cfg) /\ Sizes(b, z) /\ z \in SizingOf
  BY Zenon DEF Alone
<1>2. b.offset \in Nat /\ b.length \in Nat /\ b.done \in Nat /\ b.buffer \in Seq(0 .. 1)
  BY <1>1, CallIs
<1>3. size \in {1, 2, 4} /\ b.done + size <= b.length
  BY TransferIs, Zenon
<1>4. now \in CallOf
  BY Zenon DEF Moved
<1>5. more = IF b.done + size < b.length THEN now ELSE [now EXCEPT !.at = "ended", !.buffer = b.buffer]
  BY Zenon DEF Went
<1>6. ~(b.done + size < b.length) => Moved(b, more, "ended") /\ more.buffer = b.buffer
  <2> SUFFICES ASSUME ~(b.done + size < b.length) PROVE Moved(b, more, "ended") /\ more.buffer = b.buffer
    OBVIOUS
  <2>1. more = [now EXCEPT !.at = "ended", !.buffer = b.buffer]
    BY <1>5, Zenon
  <2>2. Moved(now, more, "ended") /\ more.buffer = b.buffer
    BY <1>2, <1>4, <2>1, CallEnds
  <2> QED
    BY <2>2, MovedOn, Zenon
<1>7. CASE z.stage = 0 /\ b.offset = 9 /\ b.length = 2 /\ Len(b.buffer) = 2
  <2> DEFINE done == b.done + size
             at == IF done < 2 THEN "address" ELSE "ended"
  <2>1. done \in Nat /\ b.done < done /\ done <= 2 /\ size = done - b.done
    BY <1>2, <1>3, <1>7
  <2>2. WrittenTo(cfg[b.slot], BarBits[b.slot], 9 + b.done, 9 + b.done + (size - 1), 9, b.buffer, after)
    BY <1>3, <1>7, Zenon
  <2>3. more.done = done /\ more.buffer = b.buffer /\ Moved(b, more, at)
    <3>1. CASE done < 2
      <4>1. more = now
        BY <1>5, <1>7, <3>1, Zenon
      <4> QED
        BY <3>1, <4>1, Zenon
    <3>2. CASE ~(done < 2)
      <4>1. more = [now EXCEPT !.at = "ended", !.buffer = b.buffer]
        BY <1>5, <1>7, <3>2, Zenon
      <4>2. more.done = now.done
        BY <1>4, <4>1 DEF CallOf
      <4> QED
        BY <1>6, <1>7, <3>2, <4>2, Zenon
    <3> QED
      BY <3>1, <3>2
  <2>4. WrittenTo(cfg[b.slot], BarBits[b.slot], 9 + b.done, 9 + b.done + ((done - b.done) - 1), 9, b.buffer, after)
    BY <2>1, <2>2, Zenon
  <2>5. at = IF done < 2 THEN "address" ELSE "ended"
    OBVIOUS
  <2> HIDE DEF done, at
  <2> QED
    BY <1>7, <2>1, <2>3, <2>4, <2>5, DriverWrites, Zenon DEF Overwritten
<1>8. CASE \/ z.stage = 2 /\ b.done = 0 /\ b.buffer = <<1, 1, 1, 1>>
           \/ z.stage = 4 /\ b.done = 0 /\ b.buffer = z.orig
  <2>1. z.stage > 0 /\ (z.stage = 4 => z.stage > 1)
    BY <1>8
  <2>2. b.offset = 4 /\ b.length = 4 /\ b.done = 0
    BY <1>1, <1>8, <2>1, Zenon DEF Sizes
  <2>3. Len(b.buffer) = 4
    <3>1. Len(<<1, 1, 1, 1>>) = 4
      OBVIOUS
    <3>2. z.stage = 4 => Len(z.orig) = 4
      BY <1>1, <2>1, Zenon DEF Sizes
    <3> QED
      BY <1>8, <3>1, <3>2, Zenon
  <2>4. size = 4
    <3>1. 4 + 0 = 4 /\ 4 - 0 = 4 /\ 4 % 4 = 0 /\ 4 >= 4
      OBVIOUS
    <3> QED
      BY <2>2, <3>1, Zenon DEF Pci!SizeOf
  <2>5. WrittenTo(cfg[b.slot], BarBits[b.slot], 4, 7, 4, b.buffer, after)
    <3>1. 4 + 0 = 4 /\ 4 + (4 - 1) = 7 /\ 0 + 4 <= 4
      OBVIOUS
    <3> QED
      BY <2>2, <2>3, <2>4, <3>1, Zenon
  <2>6. Moved(b, more, "ended")
    <3>1. ~(0 + 4 < 4)
      OBVIOUS
    <3> QED
      BY <1>6, <2>2, <2>4, <3>1, Zenon
  <2>7. \/ z.stage = 2 /\ b.buffer = <<1, 1, 1, 1>>
        \/ z.stage = 4 /\ b.buffer = z.orig
    BY <1>8, Zenon
  <2> QED
    BY <2>5, <2>6, <2>7, SizerWrites, Zenon DEF Overwritten
<1> QED
  BY <1>1, <1>7, <1>8, Zenon DEF Writes

\* The data port.
LEMMA DataStep ==
  ASSUME NEW c, PciInv(c), Pci!AccessData(c)
  PROVE  PciInv(c)'
<1> DEFINE b == call[c]
           z == sizing[c]
           at == b.offset + b.done
           size == Pci!SizeOf(at, b.length - b.done)
           lane(k) == latch[2] * 4 + ((at + k) % 4)
           slot_ == latch[1]
           read == b.buffer \o [k \in 1 .. size |-> Pci!ByteAt(slot_, lane(k - 1))]
           now == [b EXCEPT !.at = "address", !.done = @ + size, !.buffer = IF b.write THEN @ ELSE read]
           more == IF now.done < b.length THEN now
                   ELSE [now EXCEPT !.at = "ended", !.buffer = IF b.write THEN @ ELSE Pci!Reported(b, @)]
           after == [n \in 0 .. Pci!ConfigBytes - 1 |->
                       IF \E k \in 0 .. size - 1 : lane(k) = n
                         THEN Pci!Taken(slot_, n, b.buffer[1 + b.done + (CHOOSE k \in 0 .. size - 1 : lane(k) = n)])
                         ELSE config[slot_][n]]
<1>1. /\ b.at = "data" /\ UNCHANGED <<latch, sizing>> /\ call' = [call EXCEPT ![c] = more]
      /\ config' = IF b.write /\ slot_ \in Pci!Devices THEN [config EXCEPT ![slot_] = after] ELSE config
  BY Zenon DEF Pci!AccessData, Pci!Ports
<1>2. Alone(config, latch, b, z) /\ b \in CallOf
  BY Zenon DEF PciInv
<1> HIDE DEF b, z
<1>3. /\ size \in {1, 2, 4} /\ b.done + size <= b.length /\ b.slot \in Pci!Devices /\ slot_ = b.slot
      /\ b.offset + b.length <= 12 /\ b.done < b.length
      /\ \A k \in 0 .. size - 1 : lane(k) = at + k
  BY <1>1, <1>2, TransferIs
<1>4. b.offset \in Nat /\ b.length \in Nat /\ b.done \in Nat /\ b.buffer \in Seq(0 .. 1)
  BY <1>2, CallIs
<1>5. Configured(config) /\ config[b.slot] \in [0 .. 11 -> 0 .. 1]
  <2>1. Configured(config)
    BY <1>2, Zenon DEF Alone
  <2> QED
    BY <1>3, <2>1 DEF Configured
<1> HIDE DEF lane, slot_, size
<1>6. Alone(config', latch, more, z)
  <2>1. CASE ~b.write
    <3> DEFINE read2 == b.buffer \o [k \in 1 .. size |-> config[b.slot][at + (k - 1)]]
    <3>1. [k \in 1 .. size |-> Pci!ByteAt(slot_, lane(k - 1))] = [k \in 1 .. size |-> config[b.slot][at + (k - 1)]]
      <4>1. ASSUME NEW k \in 1 .. size PROVE Pci!ByteAt(slot_, lane(k - 1)) = config[b.slot][at + (k - 1)]
        <5>1. k - 1 \in 0 .. size - 1
          BY <1>3
        <5>2. lane(k - 1) = at + (k - 1)
          BY <1>3, <5>1, Zenon
        <5> QED
          BY <1>3, <5>2, Zenon DEF Pci!ByteAt
      <4> QED
        BY <4>1, Zenon
    <3>2. read = read2
      BY <3>1, Zenon
    <3>3. read2 \in Seq(0 .. 1)
      <4>1. Brought(config, b)
        BY <1>1, <1>2 DEF Alone
      <4>2. ReadSo(b.buffer, b.done, config[b.slot], b.offset)
        BY <1>4, <2>1, <4>1, Zenon DEF Brought, ReadSo
      <4> QED
        <5>1. ReadSo(read2, b.done + size, config[b.slot], b.offset)
          <6>1. b.offset + (b.done + size) <= 12
            BY <1>3, <1>4
          <6> QED
            BY <1>3, <1>4, <1>5, <4>2, <6>1, ReadOn, Zenon
        <5> QED
          BY <5>1, Zenon DEF ReadSo
    <3>4. now = [b EXCEPT !.at = "address", !.done = b.done + size, !.buffer = read2]
      BY <2>1, <3>2
    <3>5. more = IF now.done < b.length THEN now ELSE [now EXCEPT !.at = "ended", !.buffer = Pci!Reported(b, now.buffer)]
      BY <2>1
    <3> DEFINE now2 == now
               more2 == more
    <3>6. now2 = NowOf(b, b.done + size, read2)
      BY <3>4 DEF NowOf
    <3>7. more2 = IF now2.done < b.length THEN now2
                  ELSE [now2 EXCEPT !.at = "ended", !.buffer = Pci!Reported(b, now2.buffer)]
      BY <3>5
    <3>8. b.done + size \in Nat
      BY <1>3, <1>4
    <3> HIDE DEF now2, more2, read2
    <3>9. Moved(b, now2, "address") /\ now2.done = b.done + size /\ now2.buffer = read2
      <4>1. NowSo(b, b.done + size, read2, NowOf(b, b.done + size, read2))
        BY <1>2, <3>3, <3>8, NowIs, Zenon
      <4> QED
        BY <3>6, <4>1, Zenon DEF NowSo
    <3>10. config' = config
      BY <1>1, <2>1, Zenon
    <3>11. size = Pci!SizeOf(at, b.length - b.done) /\ read2 = b.buffer \o [k \in 1 .. size |-> config[b.slot][at + (k - 1)]]
      BY DEF size, read2
    <3>12. Alone(config, latch, more2, z)
      BY <1>1, <1>2, <2>1, <3>7, <3>9, <3>11, ReadKeeps, Zenon
    <3> QED
      BY <3>10, <3>12, Zenon DEF more2
  <2>2. CASE b.write
    <3>1. config' = Overwritten(config, b.slot, after)
      BY <1>1, <1>3, <2>2, Zenon DEF Overwritten
    <3> DEFINE lane_ == <<latch[2], at>>
    <3>2. after = LanesWritten(config[b.slot], BarBits[b.slot], b.buffer, b.done, size, lane_)
      <4>1. Pci!ConfigBytes - 1 = 11 /\ 4 + 3 = 7
        BY DEF Pci!ConfigBytes
      <4>2. \A k : LaneOf(lane_, k) = lane(k)
        <5>1. lane_[1] = latch[2] /\ lane_[2] = at
          OBVIOUS
        <5> HIDE DEF lane_, at
        <5> QED
          BY <5>1, Zenon DEF LaneOf, lane
      <4> HIDE DEF lane_
      <4> QED
        BY <1>3, <4>1, <4>2, Zenon DEF Pci!Taken, Pci!BarAt, LanesWritten
    <3>20. \A k \in 0 .. size - 1 : LaneOf(lane_, k) = b.offset + b.done + k
      <4>1. lane_[1] = latch[2] /\ lane_[2] = at
        OBVIOUS
      <4> HIDE DEF lane_
      <4> QED
        BY <1>3, <4>1, Zenon DEF LaneOf, lane
    <3> HIDE DEF after, lane_
    <3>3. b.done + size <= Len(b.buffer) =>
            WrittenTo(config[b.slot], BarBits[b.slot], b.offset + b.done, b.offset + b.done + (size - 1), b.offset, b.buffer, after)
      BY <1>3, <1>4, <1>5, <3>2, <3>20, WriteOn, Zenon
    <3> DEFINE now2 == now
               more2 == more
    <3>4. now2 = NowOf(b, b.done + size, b.buffer)
      BY <2>2 DEF NowOf
    <3>5. more2 = Went(b, now2)
      BY <2>2 DEF Went
    <3>6. b.done + size \in Nat
      BY <1>3, <1>4
    <3> HIDE DEF now2, more2
    <3>7. Moved(b, now2, "address") /\ now2.done = b.done + size /\ now2.buffer = b.buffer
      BY <1>2, <1>4, <3>4, <3>6, NowIs, ZenonT(60) DEF NowSo
    <3>8. size = Pci!SizeOf(at, b.length - b.done)
      BY DEF size
    <3>9. Alone(config', latch, more2, z)
      BY <1>1, <1>2, <2>2, <3>1, <3>3, <3>5, <3>7, <3>8, WriteKeeps, Zenon
    <3> QED
      BY <3>9, Zenon DEF more2
  <2> QED
    BY <2>1, <2>2
<1>7. more \in CallOf
  BY <1>6, Zenon DEF Alone
<1> HIDE DEF more
<1>8. Alone(config', latch', more, sizing[c])
  BY <1>1, <1>6, Zenon DEF z
<1> QED
  BY <1>1, <1>7, <1>8, CallStep, Zenon

\* The sizing goes on with the access, or where the access is.
LEMMA BothStep ==
  ASSUME NEW c, PciInv(c), NEW more \in CallOf, NEW z2 \in SizingOf,
         call' = [call EXCEPT ![c] = more] \/ (UNCHANGED call /\ more = call[c]),
         sizing' = [sizing EXCEPT ![c] = z2] \/ (UNCHANGED sizing /\ z2 = sizing[c]),
         UNCHANGED <<config, latch>>, Alone(config, latch, more, z2)
  PROVE  PciInv(c)'
<1>1. call' \in [{c} -> CallOf] /\ call'[c] = more
  <2>1. CASE call' = [call EXCEPT ![c] = more]
    BY <2>1, OneSet, Zenon DEF PciInv
  <2>2. CASE UNCHANGED call /\ more = call[c]
    BY <2>2, Zenon DEF PciInv
  <2> QED
    BY <2>1, <2>2
<1>2. sizing' \in [{c} -> SizingOf] /\ sizing'[c] = z2
  <2>1. CASE sizing' = [sizing EXCEPT ![c] = z2]
    BY <2>1, OneSet, Zenon DEF PciInv
  <2>2. CASE UNCHANGED sizing /\ z2 = sizing[c]
    BY <2>2, Zenon DEF PciInv
  <2> QED
    BY <2>1, <2>2
<1> QED
  BY <1>1, <1>2, Zenon DEF PciInv

Staged(z, n) == [z EXCEPT !.stage = n]
Found(z, bytes) == [z EXCEPT !.orig = bytes]
Long(z, length) == [z EXCEPT !.length = length]

LEMMA StagedIs ==
  ASSUME NEW z \in SizingOf, NEW n \in 0 .. 4
  PROVE  /\ Staged(z, n) \in SizingOf /\ Staged(z, n).stage = n /\ Staged(z, n).slot = z.slot
         /\ Staged(z, n).orig = z.orig /\ Staged(z, n).length = z.length
BY DEF SizingOf, Staged

LEMMA FoundIs ==
  ASSUME NEW z \in SizingOf, NEW bytes \in Seq(0 .. 1)
  PROVE  /\ Found(z, bytes) \in SizingOf /\ Found(z, bytes).slot = z.slot
         /\ Found(z, bytes).orig = bytes /\ Found(z, bytes).stage = z.stage
BY DEF SizingOf, Found

LEMMA LongIs ==
  ASSUME NEW z \in SizingOf, NEW length \in Nat
  PROVE  /\ Long(z, length) \in SizingOf /\ Long(z, length).slot = z.slot
         /\ Long(z, length).orig = z.orig /\ Long(z, length).length = length
BY DEF SizingOf, Long

Started(z, slot_) == [z EXCEPT !.stage = 1, !.slot = slot_]

LEMMA BeginsIs ==
  ASSUME NEW z \in SizingOf, NEW slot_ \in Slots
  PROVE  /\ Started(z, slot_) \in SizingOf /\ Started(z, slot_).stage = 1 /\ Started(z, slot_).slot = slot_
<1>1. Started(z, slot_).stage = 1 /\ Started(z, slot_).slot = slot_
  BY DEF SizingOf, Started
<1>2. Started(z, slot_).orig = z.orig /\ Started(z, slot_).length = z.length
  BY DEF SizingOf, Started
<1>3. ASSUME NEW n \in 0 .. 4, NEW spot \in Slots \cup {0} PROVE [z EXCEPT !.stage = n, !.slot = spot] \in SizingOf
  BY DEF SizingOf
<1>4. slot_ \in Slots \cup {0} /\ 1 \in 0 .. 4
  OBVIOUS
<1> QED
  BY <1>1, <1>3, <1>4 DEF Started

LEMMA NotSizingIs == Pci!NotSizing \in SizingOf
<1>1. <<>> \in Seq(0 .. 1)
  OBVIOUS
<1> QED
  BY <1>1 DEF SizingOf, Pci!NotSizing

\* A driver begins to read or to write.
LEMMA DriverStep ==
  ASSUME NEW c, PciInv(c), Pci!HalGetBusDataByOffset(c) \/ Pci!HalSetBusDataByOffset(c)
  PROVE  PciInv(c)'
<1> DEFINE b == call[c]
           z == sizing[c]
<1>1. Alone(config, latch, b, z) /\ z \in SizingOf
  BY Zenon DEF PciInv, Alone
<1>2. b.at = "ended" /\ z.stage = 0 /\ UNCHANGED <<config, latch, sizing>>
  BY Zenon DEF Pci!HalGetBusDataByOffset, Pci!HalSetBusDataByOffset, Pci!Free
<1> HIDE DEF b
<1>3. ASSUME NEW write \in BOOLEAN, NEW slot_ \in Slots, NEW offset \in Nat, NEW length \in Nat \ {0}, offset + length <= 12,
             NEW bytes \in Seq(0 .. 1),
             \/ ~write /\ bytes = <<>>
             \/ write /\ offset = 9 /\ length = 2 /\ Len(bytes) = 2,
             call' = [call EXCEPT ![c] = Begun(write, slot_, offset, length, bytes)]
      PROVE  PciInv(c)'
  <2> DEFINE more == Begun(write, slot_, offset, length, bytes)
  <2>0. length \in Nat
    OBVIOUS
  <2>1. BegunSo(more, write, slot_, offset, length, bytes)
    BY <1>3, <2>0, BegunIs, Zenon
  <2>2. call' = [call EXCEPT ![c] = more]
    BY <1>3
  <2> HIDE DEF more, z
  <2>3. Alone(config, latch, more, z)
    BY <1>1, <1>2, <1>3, <2>1, DriverBegins, Zenon
  <2>4. more \in CallOf
    BY <2>1, Zenon DEF BegunSo
  <2> QED
    BY <1>1, <1>2, <2>2, <2>3, <2>4, BothStep, Zenon DEF z
<1>4. CASE Pci!HalGetBusDataByOffset(c)
  <2>1. PICK slot_ \in Slots, span \in Spans : Pci!Access(c, FALSE, slot_, span[1], span[2], <<>>)
    BY <1>4, Zenon DEF Pci!HalGetBusDataByOffset
  <2> DEFINE length == Pci!Clipped(span[1], span[2])
  <2>2. span[1] \in 0 .. 11 /\ span[2] \in Nat \ {0}
    BY PciNumbers
  <2>3. length \in Nat \ {0} /\ span[1] + length <= 12 /\ span[1] \in Nat
    BY <2>2 DEF Pci!Clipped, Pci!ConfigBytes
  <2>4. call' = [call EXCEPT ![c] = Begun(FALSE, slot_, span[1], length, <<>>)]
    BY <2>1, Zenon DEF Pci!Access, Begun
  <2>5. <<>> \in Seq(0 .. 1)
    OBVIOUS
  <2> HIDE DEF length
  <2> QED
    BY <1>3, <2>3, <2>4, <2>5, Zenon
<1>5. CASE Pci!HalSetBusDataByOffset(c)
  <2>1. PICK slot_ \in Slots, v \in 0 .. 1 : Pci!Access(c, TRUE, slot_, Pci!LineAt + 1, 2, <<v, 1 - v>>)
    BY <1>5, Zenon DEF Pci!HalSetBusDataByOffset
  <2> DEFINE bytes == <<v, 1 - v>>
  <2>2. bytes \in Seq(0 .. 1) /\ Len(bytes) = 2
    <3>1. v \in 0 .. 1 /\ 1 - v \in 0 .. 1
      OBVIOUS
    <3> QED
      BY <3>1
  <2>3. Pci!LineAt + 1 = 9 /\ Pci!Clipped(9, 2) = 2 /\ 9 + 2 <= 12 /\ 9 \in Nat /\ 2 \in Nat \ {0}
    BY DEF Pci!LineAt, Pci!Clipped, Pci!ConfigBytes
  <2>4. call' = [call EXCEPT ![c] = Begun(TRUE, slot_, 9, 2, bytes)]
    BY <2>1, <2>3, Zenon DEF Pci!Access, Begun
  <2> HIDE DEF bytes
  <2> QED
    BY <1>3, <2>2, <2>3, <2>4, Zenon
<1> QED
  BY <1>4, <1>5

\* What the sizing's reads have brought.
SizerRead(b, z) ==
  /\ b.buffer \in Seq(0 .. 1) /\ Len(b.buffer) = 4
  /\ \A i \in 1 .. 4 : b.buffer[i] = Holds(b, z, z.slot, 3 + i)
  /\ z.slot \in Pci!Devices

LEMMA SizerReads ==
  ASSUME NEW cfg, NEW lt, NEW b, NEW z, Alone(cfg, lt, b, z), b.at = "ended", z.stage \in {1, 3}
  PROVE  SizerRead(b, z)
<1>1. b \in CallOf /\ Sizes(b, z) /\ Answers(b, z)
  BY Zenon DEF Alone
<1>2. z.stage > 0 /\ ~(z.stage \in {2, 4})
  OBVIOUS
<1>3. z.slot \in Pci!Devices /\ b.slot = z.slot /\ b.offset = 4 /\ b.length = 4 /\ ~b.write
  BY <1>1, <1>2, Zenon DEF Sizes
<1>4. b.length > 0 /\ \A i \in 1 .. 4 : 4 + i - 1 = 3 + i /\ ~(3 + i >= 8) /\ 3 + i \notin {2, 3}
  BY <1>3
<1>5. Len(b.buffer) = 4 /\ \A i \in 1 .. 4 : b.buffer[i] = Holds(b, z, z.slot, 3 + i)
  BY <1>1, <1>3, <1>4, Zenon DEF Answers
<1> QED
  BY <1>1, <1>3, <1>5, CallIs, Zenon DEF SizerRead

\* The length of what the device decodes, from the ones that it took.
LEMMA SpanIs ==
  ASSUME NEW bits \in {{3}, {2, 3}, {1, 2, 3}}, NEW bytes \in Seq(0 .. 1), Len(bytes) = 4,
         \A i \in 2 .. 4 : bytes[i] = IF i - 1 \in bits THEN 1 ELSE 0
  PROVE  /\ Pci!Span(bytes) = Pci!Weight[CHOOSE n \in bits : \A m \in bits : n <= m]
         /\ Pci!Span(bytes) \in Nat
<1> DEFINE plain == [bytes EXCEPT ![1] = 0]
           least == CHOOSE n \in bits : \A m \in bits : n <= m
<1>1. plain[1] = 0 /\ plain[2] = bytes[2] /\ plain[3] = bytes[3] /\ plain[4] = bytes[4]
  OBVIOUS
<1>2. bytes[2] = (IF 1 \in bits THEN 1 ELSE 0) /\ bytes[3] = (IF 2 \in bits THEN 1 ELSE 0)
      /\ bytes[4] = IF 3 \in bits THEN 1 ELSE 0
  OBVIOUS
<1> HIDE DEF plain
<1>3. Pci!Span(bytes) = (16 - Pci!Number(plain)) % 16
  BY Zenon DEF Pci!Span, plain
<1>4. Pci!Number(plain) = 2 * bytes[2] + 4 * bytes[3] + 8 * bytes[4]
  <2>1. Pci!Number(plain) = plain[1] + 2 * plain[2] + 4 * plain[3] + 8 * plain[4]
    BY Zenon DEF Pci!Number
  <2>2. bytes[2] \in 0 .. 1 /\ bytes[3] \in 0 .. 1 /\ bytes[4] \in 0 .. 1
    OBVIOUS
  <2> QED
    BY <1>1, <2>1, <2>2
<1>5. CASE bits = {3}
  <2>1. \E n \in bits : \A m \in bits : n <= m
    BY <1>5
  <2>2. least \in bits
    BY <2>1, Zenon
  <2>3. least = 3
    BY <1>5, <2>2
  <2> HIDE DEF least
  <2>4. bytes[2] = 0 /\ bytes[3] = 0 /\ bytes[4] = 1
    BY <1>2, <1>5
  <2>5. Pci!Span(bytes) = 8
    BY <1>3, <1>4, <2>4
  <2>6. Pci!Weight[3] = 8
    BY DEF Pci!Weight
  <2> QED
    BY <2>3, <2>5, <2>6 DEF least
<1>6. CASE bits = {2, 3}
  <2>1. \E n \in bits : \A m \in bits : n <= m
    BY <1>6
  <2>2. least \in bits /\ \A m \in bits : least <= m
    BY <2>1, Zenon
  <2> HIDE DEF least
  <2>3. least = 2
    BY <1>6, <2>2
  <2>4. bytes[2] = 0 /\ bytes[3] = 1 /\ bytes[4] = 1
    BY <1>2, <1>6
  <2>5. Pci!Span(bytes) = 4
    BY <1>3, <1>4, <2>4
  <2>6. Pci!Weight[2] = 4
    BY DEF Pci!Weight
  <2> QED
    BY <2>3, <2>5, <2>6 DEF least
<1>7. CASE bits = {1, 2, 3}
  <2>1. \E n \in bits : \A m \in bits : n <= m
    BY <1>7
  <2>2. least \in bits /\ \A m \in bits : least <= m
    BY <2>1, Zenon
  <2> HIDE DEF least
  <2>3. least = 1
    BY <1>7, <2>2
  <2>4. bytes[2] = 1 /\ bytes[3] = 1 /\ bytes[4] = 1
    BY <1>2, <1>7
  <2>5. Pci!Span(bytes) = 2
    BY <1>3, <1>4, <2>4
  <2>6. Pci!Weight[1] = 2
    BY DEF Pci!Weight
  <2> QED
    BY <2>3, <2>5, <2>6 DEF least
<1> QED
  BY <1>5, <1>6, <1>7

\* HalpSizeBar goes from one access to the next.
LEMMA SizerGoesOn ==
  ASSUME NEW c, PciInv(c), call[c].at = "ended", UNCHANGED <<config, latch>>,
         NEW z2 \in SizingOf, z2.stage = sizing[c].stage + 1, z2.slot \in Pci!Devices, FoundSo(z2),
         sizing[c].stage > 0 => z2.slot = sizing[c].slot,
         NEW bytes \in Seq(0 .. 1),
         \/ z2.stage \in {1, 3} /\ bytes = <<>>
         \/ z2.stage = 2 /\ bytes = <<1, 1, 1, 1>>
         \/ z2.stage = 4 /\ bytes = z2.orig,
         sizing' = [sizing EXCEPT ![c] = z2],
         Pci!Access(c, z2.stage \in {2, 4}, z2.slot, Pci!BarAt, 4, bytes)
  PROVE  PciInv(c)'
<1> DEFINE b == call[c]
           z == sizing[c]
           write == z2.stage \in {2, 4}
           more == Begun(write, z2.slot, 4, 4, bytes)
<1>1. Alone(config, latch, b, z)
  BY Zenon DEF PciInv
<1>2. Pci!BarAt = 4 /\ Pci!Clipped(4, 4) = 4 /\ 4 \in Nat /\ z2.slot \in Slots
  BY PciNumbers DEF Pci!BarAt, Pci!Clipped, Pci!ConfigBytes
<1>3. call' = [call EXCEPT ![c] = more]
  BY <1>2, Zenon DEF Pci!Access, Begun
<1>4. write \in BOOLEAN /\ write = (z2.stage \in {2, 4})
  OBVIOUS
<1> HIDE DEF write
<1>5. BegunSo(more, write, z2.slot, 4, 4, bytes)
  BY <1>2, <1>4, BegunIs, Zenon
<1> HIDE DEF more, b, z
<1>6. b.at = "ended" /\ z2.stage = z.stage + 1 /\ (z.stage > 0 => z2.slot = z.slot)
  BY DEF b, z
<1>7. Alone(config, latch, more, z2)
  BY <1>1, <1>4, <1>5, <1>6, SizerBegins, Zenon
<1>8. more \in CallOf
  BY <1>5, Zenon DEF BegunSo
<1> QED
  BY <1>3, <1>7, <1>8, BothStep, Zenon

\* The steps of HalpSizeBar.
LEMMA SizeBarStep ==
  ASSUME NEW c, PciInv(c), Pci!SizeBar(c)
  PROVE  PciInv(c)'
<1>1. PICK slot_ \in Pci!Devices :
        /\ sizing' = [sizing EXCEPT ![c] = Started(Pci!NotSizing, slot_)]
        /\ Pci!Access(c, FALSE, slot_, Pci!BarAt, 4, <<>>)
  BY DEF Pci!SizeBar, Started
<1>2. call[c].at = "ended" /\ sizing[c].stage = 0 /\ UNCHANGED <<config, latch>>
  BY Zenon DEF Pci!SizeBar, Pci!Free
<1> DEFINE z2 == Started(Pci!NotSizing, slot_)
<1>3. z2 \in SizingOf /\ z2.stage = 1 /\ z2.slot = slot_
  <2>1. slot_ \in Slots
    BY PciNumbers
  <2> QED
    BY <2>1, NotSizingIs, BeginsIs, Zenon
<1>4. sizing' = [sizing EXCEPT ![c] = z2]
  BY <1>1, Zenon
<1> HIDE DEF z2
<1>5. FoundSo(z2)
  <2>1. ~(z2.stage > 1) /\ z2.stage # 4
    BY <1>3
  <2> QED
    BY <2>1, Zenon DEF FoundSo
<1>6. <<>> \in Seq(0 .. 1) /\ z2.stage = sizing[c].stage + 1 /\ ~(sizing[c].stage > 0) /\ z2.stage \in {1, 3}
  BY <1>2, <1>3
<1>7. (z2.stage \in {2, 4}) = FALSE
  BY <1>3
<1>8. Pci!Access(c, z2.stage \in {2, 4}, z2.slot, Pci!BarAt, 4, <<>>)
  BY <1>1, <1>3, <1>7, Zenon
<1> QED
  BY <1>2, <1>3, <1>4, <1>5, <1>6, <1>8, SizerGoesOn, Zenon

\* HalpSizeBar ends where it is.
LEMMA SizerStops ==
  ASSUME NEW c, PciInv(c), call[c].at = "ended", sizing[c].stage \in {1, 4}, UNCHANGED <<config, latch, call>>,
         sizing' = [sizing EXCEPT ![c] = Staged(sizing[c], 0)]
  PROVE  PciInv(c)'
<1> DEFINE b == call[c]
           z == sizing[c]
           z2 == Staged(z, 0)
<1>1. Alone(config, latch, b, z) /\ b \in CallOf /\ z \in SizingOf
  BY Zenon DEF PciInv, Alone
<1>2. 0 \in 0 .. 4
  OBVIOUS
<1>3. z2 \in SizingOf /\ z2.stage = 0 /\ z2.slot = z.slot
  BY <1>1, <1>2, StagedIs, Zenon
<1>4. sizing' = [sizing EXCEPT ![c] = z2]
  BY Zenon
<1> HIDE DEF z2
<1>5. Alone(config, latch, b, z2)
  BY <1>1, <1>3, SizerEnds, Zenon
<1> QED
  BY <1>1, <1>3, <1>4, <1>5, BothStep, Zenon

LEMMA SizeOnesStep ==
  ASSUME NEW c, PciInv(c), Pci!SizeOnes(c)
  PROVE  PciInv(c)'
<1> DEFINE b == call[c]
           z == sizing[c]
<1>1. Alone(config, latch, b, z) /\ b \in CallOf /\ z \in SizingOf
  BY Zenon DEF PciInv, Alone
<1>2. b.at = "ended" /\ z.stage = 1 /\ UNCHANGED <<config, latch>>
  BY Zenon DEF Pci!SizeOnes, Pci!Stage, Pci!Free
<1>3. /\ b.buffer \in Seq(0 .. 1) /\ Len(b.buffer) = 4 /\ \A i \in 1 .. 4 : b.buffer[i] = Holds(b, z, z.slot, 3 + i)
      /\ z.slot \in Pci!Devices
  <2> HIDE DEF b, z
  <2>1. z.stage \in {1, 3}
    BY <1>2
  <2> QED
    <3>1. SizerRead(b, z)
      BY <1>1, <1>2, <2>1, SizerReads, Zenon
    <3> QED
      BY <3>1, Zenon DEF SizerRead
<1>4. Pci!FirstRead(c) = {b.buffer}
  BY <1>3, Zenon DEF Pci!FirstRead
<1>5. CASE Pci!ToStage(c, 0, z) /\ UNCHANGED call
  <2>1. sizing' = [sizing EXCEPT ![c] = Staged(z, 0)]
    BY <1>5, Zenon DEF Pci!ToStage, Staged
  <2>2. z.stage \in {1, 4}
    BY <1>2
  <2> QED
    BY <1>2, <1>5, <2>1, <2>2, SizerStops, Zenon
<1>6. CASE Pci!ToStage(c, 2, Found(z, b.buffer)) /\ Pci!Access(c, TRUE, z.slot, Pci!BarAt, 4, <<1, 1, 1, 1>>)
  <2> DEFINE kept_ == Found(z, b.buffer)
             z2 == Staged(kept_, 2)
  <2>0. 2 \in 0 .. 4
    OBVIOUS
  <2>1. kept_ \in SizingOf /\ kept_.slot = z.slot /\ kept_.orig = b.buffer
    BY <1>1, <1>3, FoundIs, Zenon
  <2>2. z2 \in SizingOf /\ z2.stage = 2 /\ z2.slot = z.slot /\ z2.orig = b.buffer
    <3> HIDE DEF kept_
    <3> QED
      BY <2>0, <2>1, StagedIs, Zenon
  <2>3. sizing' = [sizing EXCEPT ![c] = z2]
    BY <1>6, Zenon DEF Pci!ToStage, Staged
  <2> HIDE DEF z2, kept_
  <2>4. FoundSo(z2)
    <3>1. ~Opened(b, z)
      <4> HIDE DEF b, z
      <4>1. z.stage # 2 /\ z.stage # 3 /\ z.stage # 4
        BY <1>2
      <4> QED
        BY <4>1, Zenon DEF Opened
    <3>2. z2.stage # 4
      BY <2>2
    <3>3. \A i \in 1 .. 4 : b.buffer[i] = Present[z.slot][3 + i]
      BY <1>3, <3>1, Zenon DEF Holds
    <3> QED
      BY <1>3, <2>2, <3>2, <3>3, Zenon DEF FoundSo
  <2>5. <<1, 1, 1, 1>> \in Seq(0 .. 1)
    <3>1. 1 \in 0 .. 1
      OBVIOUS
    <3> QED
      BY <3>1
  <2>6. z2.stage = z.stage + 1
    BY <1>2, <2>2
  <2>7. (z2.stage \in {2, 4}) = TRUE
    BY <2>2
  <2>8. Pci!Access(c, z2.stage \in {2, 4}, z2.slot, Pci!BarAt, 4, <<1, 1, 1, 1>>)
    BY <1>6, <2>2, <2>7, Zenon
  <2> QED
    BY <1>2, <1>3, <2>2, <2>3, <2>4, <2>5, <2>6, <2>8, SizerGoesOn, Zenon
<1> QED
  <2>1. PICK orig \in Pci!FirstRead(c) :
          IF Pci!Number(orig) = 0 THEN Pci!ToStage(c, 0, sizing[c]) /\ UNCHANGED call
          ELSE /\ Pci!ToStage(c, 2, [sizing[c] EXCEPT !.orig = orig])
               /\ Pci!Access(c, TRUE, sizing[c].slot, Pci!BarAt, 4, <<1, 1, 1, 1>>)
    BY Zenon DEF Pci!SizeOnes
  <2>2. orig = b.buffer
    BY <1>4
  <2> QED
    BY <1>5, <1>6, <2>1, <2>2, Zenon DEF Found

LEMMA SizeReadStep ==
  ASSUME NEW c, PciInv(c), Pci!SizeRead(c)
  PROVE  PciInv(c)'
<1> DEFINE b == call[c]
           z == sizing[c]
           z2 == Staged(z, 3)
<1>1. Alone(config, latch, b, z) /\ Sizes(b, z) /\ z \in SizingOf
  BY Zenon DEF PciInv, Alone
<1>2. b.at = "ended" /\ z.stage = 2 /\ UNCHANGED <<config, latch>>
  BY Zenon DEF Pci!SizeRead, Pci!Stage, Pci!Free
<1>3. sizing' = [sizing EXCEPT ![c] = z2] /\ Pci!Access(c, FALSE, z.slot, Pci!BarAt, 4, <<>>)
  BY Zenon DEF Pci!SizeRead, Pci!ToStage, Staged
<1> HIDE DEF b, z
<1>4. 3 \in 0 .. 4 /\ z.stage > 0 /\ z.stage > 1
  BY <1>2
<1>5. z2 \in SizingOf /\ z2.stage = 3 /\ z2.slot = z.slot /\ z2.orig = z.orig
  BY <1>1, <1>4, StagedIs, Zenon
<1>6. z.slot \in Pci!Devices /\ Len(z.orig) = 4 /\ \A i \in 1 .. 4 : z.orig[i] = Present[z.slot][3 + i]
  BY <1>1, <1>4, Zenon DEF Sizes
<1> HIDE DEF z2
<1>7. FoundSo(z2)
  <2>1. z2.stage # 4
    BY <1>5
  <2> QED
    BY <1>5, <1>6, <2>1, Zenon DEF FoundSo
<1>8. <<>> \in Seq(0 .. 1) /\ z2.stage = z.stage + 1 /\ z2.stage \in {1, 3} /\ (z2.stage \in {2, 4}) = FALSE
  BY <1>2, <1>5
<1>9. Pci!Access(c, z2.stage \in {2, 4}, z2.slot, Pci!BarAt, 4, <<>>)
  BY <1>3, <1>5, <1>8, Zenon
<1> QED
  BY <1>2, <1>3, <1>5, <1>6, <1>7, <1>8, <1>9, SizerGoesOn, Zenon DEF b, z

LEMMA SizeRestoreStep ==
  ASSUME NEW c, PciInv(c), Pci!SizeRestore(c)
  PROVE  PciInv(c)'
<1> DEFINE b == call[c]
           z == sizing[c]
           bits == BarBits[z.slot]
           length == Pci!Span(b.buffer)
           long == Long(z, length)
           z2 == Staged(long, 4)
<1>1. Alone(config, latch, b, z) /\ Sizes(b, z) /\ z \in SizingOf
  BY Zenon DEF PciInv, Alone
<1>2. b.at = "ended" /\ z.stage = 3 /\ UNCHANGED <<config, latch>>
  BY Zenon DEF Pci!SizeRestore, Pci!Stage, Pci!Free
<1> HIDE DEF b, z
<1>3. 4 \in 0 .. 4 /\ z.stage > 0 /\ z.stage > 1 /\ z.stage \in {1, 3}
  BY <1>2
<1>4. /\ b.buffer \in Seq(0 .. 1) /\ Len(b.buffer) = 4 /\ \A i \in 1 .. 4 : b.buffer[i] = Holds(b, z, z.slot, 3 + i)
      /\ z.slot \in Pci!Devices
  <2>1. SizerRead(b, z)
    BY <1>1, <1>2, <1>3, SizerReads, Zenon
  <2> QED
    BY <2>1, Zenon DEF SizerRead
<1>5. Len(z.orig) = 4 /\ \A i \in 1 .. 4 : z.orig[i] = Present[z.slot][3 + i]
  BY <1>1, <1>3, Zenon DEF Sizes
<1>6. Pci!SecondRead(c) = b.buffer
  BY <1>4, Zenon DEF Pci!SecondRead, b
<1>7. sizing' = [sizing EXCEPT ![c] = z2] /\ Pci!Access(c, TRUE, z.slot, Pci!BarAt, 4, z.orig)
  BY <1>6, Zenon DEF Pci!SizeRestore, Pci!ToStage, Pci!WrittenBack, Staged, Long, z
<1>8. bits \in {{3}, {2, 3}, {1, 2, 3}} /\ \A n \in 1 .. 3 : n \in bits \/ Present[z.slot][4 + n] = 0
  BY <1>4, PciNumbers, Zenon
<1>9. \A i \in 2 .. 4 : b.buffer[i] = IF i - 1 \in bits THEN 1 ELSE 0
  <2>1. ASSUME NEW i \in 2 .. 4 PROVE b.buffer[i] = IF i - 1 \in bits THEN 1 ELSE 0
    <3>1. i \in 1 .. 4 /\ i - 1 \in 1 .. 3 /\ 4 + (i - 1) = 3 + i /\ 3 + i >= 4 /\ 3 + i - 4 = i - 1
      OBVIOUS
    <3>2. b.buffer[i] = Holds(b, z, z.slot, 3 + i)
      BY <1>4, <3>1, Zenon
    <3>3. Opened(b, z)
      BY <1>2, Zenon DEF Opened
    <3>4. Holds(b, z, z.slot, 3 + i) = IF i - 1 \in bits THEN 1 ELSE Present[z.slot][3 + i]
      <4> DEFINE n == 3 + i
      <4>1. n >= 4 /\ n - 4 = i - 1
        BY <3>1
      <4> HIDE DEF n
      <4>2. Holds(b, z, z.slot, n) = IF i - 1 \in bits THEN 1 ELSE Present[z.slot][n]
        BY <3>3, <4>1, Zenon DEF Holds
      <4> QED
        BY <4>2, Zenon DEF n
    <3>5. i - 1 \in bits \/ Present[z.slot][3 + i] = 0
      BY <1>8, <3>1, Zenon
    <3> QED
      BY <3>2, <3>4, <3>5, Zenon
  <2> QED
    BY <2>1
<1>10. length = Pci!Weight[CHOOSE n \in bits : \A m \in bits : n <= m] /\ length \in Nat
  <2> HIDE DEF bits
  <2> QED
    BY <1>4, <1>8, <1>9, SpanIs
<1> HIDE DEF length
<1>11. long \in SizingOf /\ long.slot = z.slot /\ long.orig = z.orig /\ long.length = length
  BY <1>1, <1>10, LongIs, Zenon
<1> HIDE DEF long
<1>12. z2 \in SizingOf /\ z2.stage = 4 /\ z2.slot = z.slot /\ z2.orig = z.orig /\ z2.length = length
  BY <1>3, <1>11, StagedIs, Zenon
<1> HIDE DEF z2
<1>13. FoundSo(z2)
  BY <1>5, <1>10, <1>12, Zenon DEF FoundSo
<1>14. z.orig \in Seq(0 .. 1) /\ z2.stage = z.stage + 1 /\ (z2.stage \in {2, 4}) = TRUE
  BY <1>1, <1>2, <1>12, SizingIs
<1>15. Pci!Access(c, z2.stage \in {2, 4}, z2.slot, Pci!BarAt, 4, z.orig)
  BY <1>7, <1>12, <1>14, Zenon
<1> QED
  BY <1>2, <1>4, <1>7, <1>12, <1>13, <1>14, <1>15, SizerGoesOn, Zenon DEF b, z

LEMMA SizeDoneStep ==
  ASSUME NEW c, PciInv(c), Pci!SizeDone(c)
  PROVE  PciInv(c)'
<1>1. call[c].at = "ended" /\ sizing[c].stage = 4 /\ UNCHANGED <<config, latch, call>>
  BY Zenon DEF Pci!SizeDone, Pci!Stage, Pci!Free
<1>2. sizing' = [sizing EXCEPT ![c] = Staged(sizing[c], 0)]
  BY Zenon DEF Pci!SizeDone, Pci!ToStage, Staged
<1>3. sizing[c].stage \in {1, 4}
  BY <1>1
<1> QED
  BY <1>1, <1>2, <1>3, SizerStops, Zenon

LEMMA PciStep == ASSUME NEW c, Callers = {c}, PciInv(c), Pci!Next \/ UNCHANGED pciVars PROVE PciInv(c)'
<1>1. CASE UNCHANGED pciVars
  <2>1. call' = call /\ sizing' = sizing /\ config' = config /\ latch' = latch
    BY <1>1, Zenon DEF pciVars
  <2> QED
    BY <2>1, Zenon DEF PciInv
<1>2. CASE Pci!Next
  <2>1. \/ Pci!ProbeAddress(c) \/ Pci!ProbeData(c) \/ Pci!AccessAddress(c) \/ Pci!AccessData(c)
        \/ Pci!HalGetBusDataByOffset(c) \/ Pci!HalSetBusDataByOffset(c)
        \/ Pci!SizeBar(c) \/ Pci!SizeOnes(c) \/ Pci!SizeRead(c) \/ Pci!SizeRestore(c) \/ Pci!SizeDone(c)
    BY <1>2, Zenon DEF Pci!Next
  <2> QED
    BY <2>1, PciPortStep, DataStep, DriverStep, SizeBarStep, SizeOnesStep, SizeReadStep, SizeRestoreStep, SizeDoneStep, Zenon
<1> QED
  BY <1>1, <1>2

\* A caller that is alone is told what the device it named holds where it named
\* it, finds the length the device decodes, and leaves every base address where
\* the firmware put it, however its reads, writes and sizings follow one another
\* (HalpPciAccess and HalpSizeBar, pci.c:52-98 and 210-226).  With a second
\* caller this is false: the ports are not locked.
THEOREM AloneConfigIsFaithful == ASSUME NEW c, Callers = {c} PROVE ServicesSpec => []ConfigIsFaithful
<1>1. ServicesInit => PciInv(c)
  BY PciStart, Zenon DEF ServicesInit
<1>2. PciInv(c) /\ [ServicesNext]_servicesVars => PciInv(c)'
  BY PciStep, PciSteps, Zenon
<1>3. PciInv(c) => ConfigIsFaithful
  BY AloneIsFaithful, Zenon DEF ConfigIsFaithful
<1> QED
  BY <1>1, <1>2, <1>3, PTL DEF ServicesSpec
=============================================================================
