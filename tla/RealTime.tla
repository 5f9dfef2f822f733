------------------------------ MODULE RealTime ------------------------------
(***************************************************************************)
(* src/src/misc.c: the real-time clock.  Cuda counts seconds from its own   *)
(* epoch in one word; NT counts units from an earlier one.                  *)
(***************************************************************************)
EXTENDS Integers

CONSTANTS
  Units,      \* NT_UNITS_PER_SECOND
  MacEpoch,   \* MAC_EPOCH_TO_1601
  CudaWord,   \* 2^32
  Bits,       \* 64: the width of HalpDivU64
  Times       \* the moments the clock is set to, in units

\* 1 << i.
Worth[i \in 0 .. Bits] == IF i = 0 THEN 1 ELSE 2 * Worth[i - 1]

\* A moment is a ULONGLONG when it is divided (misc.c:205).
RealTimeAssumption ==
  /\ Units \in Nat \ {0} /\ MacEpoch \in Nat /\ CudaWord \in Nat \ {0} /\ Bits \in Nat
  /\ Times \subseteq 0 .. Worth[Bits] - 1

VARIABLES
  cuda,     \* Cuda's seconds
  lastSet,  \* what HalSetRealTimeClock was given and returned, none since the clock moved on
  told      \* what HalQueryRealTimeClock told, in units, or one of the two below

timeVars == <<cuda, lastSet, told>>

Nothing == -1   \* nobody has asked since the clock changed
Noon2026 == -2  \* the moment made up when Cuda does not answer

NotSet == [time |-> Nothing, ok |-> FALSE]

Init == cuda = 0 /\ lastSet = NotSet /\ told = Nothing

BitAt(n, i) == (n \div Worth[i]) % 2

\* Long division, a bit at a time from the highest.
HalpDivU64(n, d) ==
  LET Turn(acc, i) == LET rem == 2 * acc.rem + BitAt(n, i)
                      IN  IF rem >= d THEN [rem |-> rem - d, q |-> acc.q + Worth[i]] ELSE [rem |-> rem, q |-> acc.q]
      after[k \in 0 .. Bits] == IF k = 0 THEN [rem |-> 0, q |-> 0] ELSE Turn(after[k - 1], Bits - k)
  IN  IF d = 0 THEN 0 ELSE after[Bits].q

\* Mutant: the first second Cuda cannot count any more is let through.
CountsOneMore(seconds) == seconds >= MacEpoch /\ seconds - MacEpoch <= CudaWord

\* What Cuda can count: not before its epoch, and not after its word runs out.
Counts(seconds) == seconds >= MacEpoch /\ seconds - MacEpoch < CudaWord

\* A moment is refused when Cuda cannot count it, and only then; or it is sent to
\* Cuda, who may not answer, though the clock may be set all the same.
HalSetRealTimeClock(time) ==
  /\ LET seconds == HalpDivU64(time, Units)
         sent    == (seconds - MacEpoch) % CudaWord
     IN  \/ ~Counts(seconds) /\ cuda' = cuda /\ lastSet' = [time |-> time, ok |-> FALSE]
         \/ Counts(seconds) /\ cuda' = sent /\ lastSet' = [time |-> time, ok |-> TRUE]
         \/ Counts(seconds) /\ cuda' \in {cuda, sent} /\ lastSet' = [time |-> time, ok |-> FALSE]
  /\ told' = Nothing

HalQueryRealTimeClock ==
  /\ told' \in {(cuda + MacEpoch) * Units, Noon2026}
  /\ UNCHANGED <<cuda, lastSet>>

\* A second passes.
Second == cuda' = (cuda + 1) % CudaWord /\ lastSet' = NotSet /\ told' = Nothing

Next == (\E time \in Times : HalSetRealTimeClock(time)) \/ HalQueryRealTimeClock \/ Second

-----------------------------------------------------------------------------
(* Properties. *)

\* A clock that took a moment tells that moment, to the second, if it tells any: a moment Cuda's
\* word cannot hold is refused rather than told back as another one.
TellsWhatWasSet ==
  lastSet.ok /\ told \notin {Nothing, Noon2026} => told <= lastSet.time /\ lastSet.time < told + Units
=============================================================================
