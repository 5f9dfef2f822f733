-------------------------------- MODULE Clock --------------------------------
(***************************************************************************)
(* src/src/clock.c: the system clock on the decrementer.  Time is counted   *)
(* in ticks of the timebase.  The decrementer is a word that goes on below  *)
(* zero; its interrupt waits while MSR[EE] is off, so a tick may be late.   *)
(***************************************************************************)
EXTENDS Integers

CONSTANTS
  Word,          \* the decrementer counts modulo this
  TicksPerMs,    \* HalpTimebaseFrequency / 1000
  Increments,    \* what the kernel passes to HalSetTimeIncrement (100 ns)
  MaxElapsed,    \* bound on the time a behaviour covers
  MaxLate        \* bound on how late the interrupt is taken

\* A millisecond and ten, in units of 100 ns.
MINIMUM_INCREMENT == 10000
MAXIMUM_INCREMENT == 10 * MINIMUM_INCREMENT

\* Mutant: an increment below a millisecond is not rounded up.
MillisecondsUnclamped(increment) == increment \div MINIMUM_INCREMENT

\* HalSetTimeIncrement's rounding: whole milliseconds, at least one.
Milliseconds(increment) ==
  IF increment \div MINIMUM_INCREMENT = 0 THEN 1 ELSE increment \div MINIMUM_INCREMENT

ASSUME ClockAssumption ==
  /\ Word \in Nat /\ TicksPerMs \in Nat \ {0}
  /\ Increments \subseteq 0 .. MAXIMUM_INCREMENT
  /\ MaxElapsed \in Nat /\ MaxLate \in Nat
  /\ 2 * (10 * TicksPerMs + MaxLate) < Word

VARIABLES
  dec,         \* the decrementer
  pending,     \* it passed zero and nobody has taken the interrupt
  clockCount,  \* HalpClockCount: the next interval to program
  current,     \* HalpCurrentTimeIncrement: what the next tick reports
  new,         \* HalpNewTimeIncrement: what the tick after it reports
  elapsed,     \* timebase ticks since the clock was started
  started,     \* when the running interval was programmed
  reported     \* 100 ns units handed to KeUpdateSystemTime

vars == <<dec, pending, clockCount, current, new, elapsed, started, reported>>

\* HalInitSystem phase 0 sets the increments; HalpInitializeClock the rest.
Init ==
  /\ clockCount = TicksPerMs * (MAXIMUM_INCREMENT \div 10000)
  /\ dec = clockCount
  /\ pending = FALSE
  /\ current = MAXIMUM_INCREMENT /\ new = MAXIMUM_INCREMENT
  /\ elapsed = 0 /\ started = 0 /\ reported = 0

\* One tick of the timebase.
Pass ==
  /\ elapsed < MaxElapsed
  /\ pending => dec > Word - 1 - MaxLate
  /\ elapsed' = elapsed + 1
  /\ dec' = (dec - 1) % Word
  /\ pending' = (pending \/ dec = 0)
  /\ UNCHANGED <<clockCount, current, new, started, reported>>

\* Mutant: the lateness is carried into the next interval.
ReloadCarried(value) == (dec + value) % Word

\* HalpUpdateDecrementer: what is written to the decrementer.
Reload(value) ==
  LET next == (dec + value) % Word
  IN  IF next < value \/ dec > value THEN value ELSE next

\* HalpDecrementerInterrupt: reload, then report the interval that ended.
DecrementerTick ==
  /\ pending
  /\ pending' = FALSE
  /\ dec' = Reload(clockCount)
  /\ started' = elapsed
  /\ reported' = reported + current
  /\ current' = new
  /\ UNCHANGED <<clockCount, new, elapsed>>

\* Mutant: the new increment takes effect at once.
HalSetTimeIncrementAtOnce(desired) ==
  /\ clockCount' = TicksPerMs * Milliseconds(desired)
  /\ new' = Milliseconds(desired) * MINIMUM_INCREMENT
  /\ current' = new'
  /\ UNCHANGED <<dec, pending, elapsed, started, reported>>

\* At HIGH_LEVEL, so no tick comes between the two assignments.
HalSetTimeIncrement(desired) ==
  /\ clockCount' = TicksPerMs * Milliseconds(desired)
  /\ new' = Milliseconds(desired) * MINIMUM_INCREMENT
  /\ UNCHANGED <<dec, pending, current, elapsed, started, reported>>

Next ==
  \/ Pass
  \/ DecrementerTick
  \/ \E desired \in Increments : HalSetTimeIncrement(desired)

Spec == Init /\ [][Next]_vars

-----------------------------------------------------------------------------
(* Properties. *)

TypeOK ==
  /\ dec \in 0 .. Word - 1
  /\ pending \in BOOLEAN
  /\ clockCount \in TicksPerMs .. 10 * TicksPerMs
  /\ {current, new} \subseteq MINIMUM_INCREMENT .. MAXIMUM_INCREMENT
  /\ elapsed \in 0 .. MaxElapsed /\ started \in 0 .. elapsed
  /\ reported \in Nat

\* What the next tick reports is never more than the interval the running
\* decrementer count will have lasted, however HalSetTimeIncrement calls and
\* late ticks interleave: the increment follows its count by one tick.
TickMatchesInterval ==
  pending => current * TicksPerMs <= (elapsed - started) * MINIMUM_INCREMENT

\* NT's time never runs ahead of the timebase.
NeverAhead == reported * TicksPerMs <= elapsed * MINIMUM_INCREMENT

\* A tick is due as soon as its interval is over, never later: the interval
\* that runs is exactly the one the next tick reports.
DueOnTime ==
  ~pending => (elapsed - started) * MINIMUM_INCREMENT <= current * TicksPerMs

\* Ticks keep time: what is reported is what elapsed, no more and no later
\* (clock.c:18-48).
TicksKeepTime == TickMatchesInterval /\ NeverAhead /\ DueOnTime
=============================================================================
