----------------------------- MODULE Interrupts -----------------------------
(***************************************************************************)
(* The interrupt side of the HAL: src/src/irql.c (KeRaiseIrql,             *)
(* KeLowerIrql), src/src/ints.c (the Grand Central controller) and the     *)
(* entry and exit of the decrementer handler of src/src/clock.c.           *)
(*                                                                         *)
(* One processor.  `stack' is its control stack: a frame for every piece   *)
(* of code that must give the IRQL back, innermost last.  Code that runs   *)
(* with MSR[EE] clear cannot be interrupted, so it is one step; a device   *)
(* may still latch an event between any two steps.                         *)
(***************************************************************************)
EXTENDS Integers, Sequences, FiniteSets

CONSTANTS
  Sources,       \* Grand Central sources (bit numbers) present in the model
  RaiseLevels,   \* the levels software passes to KeRaiseIrql
  SpuriousLine   \* may the controller interrupt with nothing pending?

PASSIVE_LEVEL  == 0
DISPATCH_LEVEL == 2
CLOCK2_LEVEL   == 28
HIGH_LEVEL     == 31
Irqls          == PASSIVE_LEVEL .. HIGH_LEVEL
GC_IRQ_VIA1    == 18

ASSUME InterruptsAssumption ==
  /\ Sources \subseteq 0 .. 31
  /\ RaiseLevels \subseteq Irqls
  /\ SpuriousLine \in BOOLEAN

\* The level of every source.  Bits 0..19 climb by one every two bits.
HalpInterruptToIrql ==
  [bit \in 0 .. 31 |->
     IF bit < 20 THEN 12 + (bit \div 2)
                 ELSE <<22, 23, 24, 25, 25, 25, 24, 25, 25, 25, 26, 27>>[bit - 19]]

\* Mutant: a source at the current level stays open.
HalpIrqlToMaskInclusive(level) == {s \in Sources : HalpInterruptToIrql[s] >= level}

\* The sources that may interrupt code running at a level.
HalpIrqlToMask(level) == {s \in Sources : HalpInterruptToIrql[s] > level}

VARIABLES
  irql,        \* PCR->CurrentIrql
  ee,          \* MSR[EE]
  latch,       \* Grand Central's Events register
  gcMask,      \* its Mask register; HalpGcShadowMask always holds the same
  registered,  \* HalpRegisteredInterrupts
  connected,   \* sources whose PCR->InterruptRoutine is a driver's
  softint,     \* PCR->SoftwareInterrupt: a DPC waits for the IRQL to drop
  polled,      \* a HalpCudaRequest transfer, and the EE it saved
  stack        \* the frames, innermost last

vars == <<irql, ee, latch, gcMask, registered, connected, softint, polled, stack>>

-----------------------------------------------------------------------------
(* Frames.  "raise" is a KeRaiseIrql still to be lowered, "dpc" the         *)
(* kernel's DPC dispatch, "clock" the decrementer handler.  The external    *)
(* interrupt handler is "service" while a driver's routine (or the HAL's    *)
(* VIA service) runs; for a source nobody connected it is "unexpected",     *)
(* then "removing" between the load and the store of                        *)
(* HalpRegisteredInterrupts, then "returning".                              *)

NoSource == -1
External == {"service", "unexpected", "removing", "returning"}
Kinds    == {"raise", "dpc", "clock"} \cup External

Frame == [kind : Kinds, saved : Irqls, src : Sources \cup {NoSource}, loaded : SUBSET Sources]

PlainFrame(kind, saved) == [kind |-> kind, saved |-> saved, src |-> NoSource, loaded |-> {}]
ExternalFrame(kind, saved, s) == [kind |-> kind, saved |-> saved, src |-> s, loaded |-> {}]

Top  == stack[Len(stack)]
Rest == SubSeq(stack, 1, Len(stack) - 1)
TopIs(kinds) == stack # <<>> /\ Top.kind \in kinds
SetTop(f) == stack' = [stack EXCEPT ![Len(stack)] = f]

\* Only thread and DPC code calls the services that change registrations.
InThread == \A i \in 1 .. Len(stack) : stack[i].kind \in {"raise", "dpc"}

\* Mutant: the software interrupt is dispatched whatever the level.
DispatchesAtAnyLevel(level) == softint

Dispatches(level) == softint /\ level < DISPATCH_LEVEL

\* Mutant: interrupts are enabled again at every level.
EnabledAtAnyLevel(level) == TRUE

EnabledAt(level) == level < CLOCK2_LEVEL

\* Going down to `level' leaves `rest' on the stack; if a DPC waits and the
\* level allows it, KiDispatchSoftwareInterrupt runs it at DISPATCH_LEVEL.
ArriveAt(level, rest, reg) ==
  IF Dispatches(level)
    THEN /\ irql' = DISPATCH_LEVEL
         /\ stack' = Append(rest, PlainFrame("dpc", level))
         /\ softint' = FALSE
         /\ gcMask' = HalpIrqlToMask(DISPATCH_LEVEL) \cap reg
         /\ ee' = TRUE
    ELSE /\ irql' = level
         /\ stack' = rest
         /\ gcMask' = HalpIrqlToMask(level) \cap reg
         /\ ee' = EnabledAt(level)
         /\ UNCHANGED softint

-----------------------------------------------------------------------------
\* HalpInitializeInterrupts, called by the kernel at HIGH_LEVEL.
Init ==
  /\ irql = HIGH_LEVEL
  /\ ee = FALSE
  /\ latch = {} /\ gcMask = {} /\ registered = {} /\ connected = {}
  /\ softint = FALSE
  /\ polled = [active |-> FALSE, ee |-> FALSE]
  /\ stack = <<PlainFrame("raise", PASSIVE_LEVEL)>>

\* A device raises its line and Grand Central latches the event.
RaiseLine(s) ==
  /\ s \notin latch
  /\ latch' = latch \cup {s}
  /\ UNCHANGED <<irql, ee, gcMask, registered, connected, softint, polled, stack>>

KeRaiseIrql(new) ==
  /\ ~polled.active
  /\ new > irql
  /\ irql' = new
  /\ gcMask' = HalpIrqlToMask(new) \cap registered
  /\ ee' = EnabledAt(new)
  /\ stack' = Append(stack, PlainFrame("raise", irql))
  /\ UNCHANGED <<latch, registered, connected, softint, polled>>

KeLowerIrql ==
  /\ ~polled.active
  /\ TopIs({"raise"})
  /\ ArriveAt(Top.saved, Rest, registered)
  /\ UNCHANGED <<latch, registered, connected, polled>>

\* The kernel's DPC dispatch ends: it lowers to where it was called from.
DpcReturn ==
  /\ ~polled.active
  /\ TopIs({"dpc"})
  /\ ArriveAt(Top.saved, Rest, registered)
  /\ UNCHANGED <<latch, registered, connected, polled>>

\* KeInsertQueueDpc, from an interrupt handler or from code at DISPATCH_LEVEL.
QueueDpc ==
  /\ ~polled.active
  /\ irql >= DISPATCH_LEVEL
  /\ ~softint
  /\ softint' = TRUE
  /\ UNCHANGED <<irql, ee, latch, gcMask, registered, connected, polled, stack>>

\* Mutant: the vector is used as a bit number without taking off DEVICE_VECTORS.
HalEnableVectorAsBit(s) ==
  /\ InThread /\ ~polled.active /\ irql <= DISPATCH_LEVEL
  /\ s # GC_IRQ_VIA1
  /\ registered' = registered \cup {s + 32}
  /\ latch' = latch \ {s}
  /\ ArriveAt(irql, stack, registered \cup {s})
  /\ UNCHANGED <<connected, polled>>

\* Of a source that is enabled already an event that waits is cleared all the
\* same, and disabling one that is not enabled changes nothing.
HalEnableSystemInterrupt(s) ==
  /\ InThread /\ ~polled.active /\ irql <= DISPATCH_LEVEL
  /\ s # GC_IRQ_VIA1
  /\ registered' = registered \cup {s}
  /\ latch' = latch \ {s}
  /\ ArriveAt(irql, stack, registered \cup {s})
  /\ UNCHANGED <<connected, polled>>

HalDisableSystemInterrupt(s) ==
  /\ InThread /\ ~polled.active /\ irql <= DISPATCH_LEVEL
  /\ s # GC_IRQ_VIA1
  /\ registered' = registered \ {s}
  /\ ArriveAt(irql, stack, registered \ {s})
  /\ UNCHANGED <<latch, connected, polled>>

\* The VIA is the HAL's own, and no driver enables it: the end of
\* HalPxiAdbAutopoll does, at HIGH_LEVEL, and it leaves the latch alone.
HalPxiAdbAutopoll(on) ==
  /\ InThread /\ ~polled.active /\ irql <= DISPATCH_LEVEL
  /\ GC_IRQ_VIA1 \in Sources
  /\ on # (GC_IRQ_VIA1 \in registered)
  /\ registered' = IF on THEN registered \cup {GC_IRQ_VIA1} ELSE registered \ {GC_IRQ_VIA1}
  /\ ArriveAt(irql, stack, registered')
  /\ UNCHANGED <<latch, connected, polled>>

\* The kernel points the vector at a driver's interrupt object, or back at
\* the unexpected-interrupt routine it keeps in slot 255.
KiConnectVector(s) ==
  /\ InThread /\ ~polled.active
  /\ s # GC_IRQ_VIA1
  /\ \/ s \notin connected /\ connected' = connected \cup {s}
     \/ s \in connected /\ connected' = connected \ {s}
  /\ UNCHANGED <<irql, ee, latch, gcMask, registered, softint, polled, stack>>

-----------------------------------------------------------------------------
(* HalpExternalInterrupt. *)

\* The source to serve: the highest bit, unless a lower bit has a higher
\* level; of several such bits of one level, the first.
Preferred(pending) ==
  LET top  == CHOOSE b \in pending : \A c \in pending : c <= b
      best == {b \in pending : \A c \in pending : HalpInterruptToIrql[c] <= HalpInterruptToIrql[b]}
  IN  IF top \in best THEN top ELSE CHOOSE b \in best : \A c \in best : b <= c

\* Mutant: the handler keeps the interrupted level.
EntryLevelUnraised(s) == irql

EntryLevel(s) ==
  IF HalpInterruptToIrql[s] <= irql THEN irql ELSE HalpInterruptToIrql[s]

\* Mutant: every pending event is cleared, not only the one being served.
ClearedForAll(s) == gcMask

ClearedFor(s) == {s}

ExternalInterrupt ==
  /\ ee
  /\ latch \cap gcMask # {}
  /\ LET s == Preferred(latch \cap gcMask)
         expected == s = GC_IRQ_VIA1 \/ s \in connected
     IN  /\ irql' = EntryLevel(s)
         /\ gcMask' = (HalpIrqlToMask(EntryLevel(s)) \cap registered) \ {s}
         /\ latch' = latch \ ClearedFor(s)
         /\ stack' = Append(stack, ExternalFrame(IF expected THEN "service" ELSE "unexpected", irql, s))
  /\ UNCHANGED <<ee, registered, connected, softint, polled>>

\* The line was still up, but nothing that is open is pending: what fired while
\* masked is cleared, registered or not, and nobody serves it.
SpuriousInterrupt ==
  /\ SpuriousLine
  /\ ee
  /\ latch # {}
  /\ latch \cap gcMask = {}
  /\ latch' = latch \cap gcMask
  /\ UNCHANGED <<irql, ee, gcMask, registered, connected, softint, polled, stack>>

\* HalpRegisteredInterrupts &= ~cur, with EE on: a load, then a store.
LoadRegistered ==
  /\ ~polled.active
  /\ TopIs({"unexpected"})
  /\ SetTop([Top EXCEPT !.kind = "removing", !.loaded = registered])
  /\ UNCHANGED <<irql, ee, latch, gcMask, registered, connected, softint, polled>>

StoreRegistered ==
  /\ ~polled.active
  /\ TopIs({"removing"})
  /\ registered' = Top.loaded \ {Top.src}
  /\ SetTop([Top EXCEPT !.kind = "returning"])
  /\ UNCHANGED <<irql, ee, latch, gcMask, connected, softint, polled>>

\* The handler ends; the kernel's exit path runs a waiting DPC.
ExternalReturn ==
  /\ ~polled.active
  /\ TopIs({"service", "returning"})
  /\ ArriveAt(Top.saved, Rest, registered)
  /\ UNCHANGED <<latch, registered, connected, polled>>

-----------------------------------------------------------------------------
\* HalpDecrementerInterrupt up to KeUpdateSystemTime, and from its return.
DecrementerInterrupt ==
  /\ ee
  /\ irql' = CLOCK2_LEVEL
  /\ ee' = FALSE
  /\ gcMask' = HalpIrqlToMask(CLOCK2_LEVEL) \cap registered
  /\ stack' = Append(stack, PlainFrame("clock", irql))
  /\ UNCHANGED <<latch, registered, connected, softint, polled>>

\* Mutant: the tick forgets to open the mask again.
DecrementerReturnMasked ==
  /\ ~polled.active
  /\ TopIs({"clock"})
  /\ irql' = Top.saved
  /\ stack' = Rest
  /\ ee' = TRUE
  /\ UNCHANGED <<latch, gcMask, registered, connected, softint, polled>>

DecrementerReturn ==
  /\ ~polled.active
  /\ TopIs({"clock"})
  /\ ArriveAt(Top.saved, Rest, registered)
  /\ UNCHANGED <<latch, registered, connected, polled>>

\* HalpCudaRequest saves the MSR, clears EE for the transfer, restores it.
PolledBegin ==
  /\ ~polled.active
  /\ polled' = [active |-> TRUE, ee |-> ee]
  /\ ee' = FALSE
  /\ UNCHANGED <<irql, latch, gcMask, registered, connected, softint, stack>>

PolledEnd ==
  /\ polled.active
  /\ ee' = polled.ee
  /\ polled' = [active |-> FALSE, ee |-> FALSE]
  /\ UNCHANGED <<irql, latch, gcMask, registered, connected, softint, stack>>

-----------------------------------------------------------------------------
Software ==
  \/ \E new \in RaiseLevels : KeRaiseIrql(new)
  \/ KeLowerIrql
  \/ DpcReturn
  \/ QueueDpc
  \/ \E s \in Sources : HalEnableSystemInterrupt(s)
  \/ \E s \in Sources : HalDisableSystemInterrupt(s)
  \/ \E on \in BOOLEAN : HalPxiAdbAutopoll(on)
  \/ \E s \in Sources : KiConnectVector(s)
  \/ PolledBegin
  \/ PolledEnd

Handlers ==
  \/ ExternalInterrupt
  \/ SpuriousInterrupt
  \/ LoadRegistered
  \/ StoreRegistered
  \/ ExternalReturn
  \/ DecrementerInterrupt
  \/ DecrementerReturn

Next ==
  \/ \E s \in Sources : RaiseLine(s)
  \/ Software
  \/ Handlers

Spec == Init /\ [][Next]_vars

-----------------------------------------------------------------------------
(* Properties. *)

TypeOK ==
  /\ irql \in Irqls
  /\ ee \in BOOLEAN
  /\ latch \subseteq Sources
  /\ gcMask \subseteq Sources
  /\ registered \subseteq Sources
  /\ connected \subseteq Sources
  /\ softint \in BOOLEAN
  /\ polled \in [active : BOOLEAN, ee : BOOLEAN]
  /\ stack \in Seq(Frame)

\* MSR[EE] and the IRQL never disagree: interrupts are open exactly below the
\* clock's level, whatever mixture of raises, lowers, handler exits and saved
\* MSRs led here, and always closed during a polled Cuda transfer.
EnableMatchesLevel == ee = (irql < CLOCK2_LEVEL /\ ~polled.active)

\* Every frame gives back a level below the one its successors run at, so
\* that unwinding the stack only ever lowers (irql.c:18-19 and 32-33 bugcheck
\* otherwise).
SavedLevelsClimb ==
  /\ \A i \in 1 .. Len(stack) : stack[i].saved < irql
  /\ \A i, j \in 1 .. Len(stack) : i < j => stack[i].saved < stack[j].saved

\* Grand Central never lets through a source at or below the current level,
\* nor one that nobody enabled (the mask writes of ints.c and irql.c).
MaskIsSound == gcMask \subseteq HalpIrqlToMask(irql) \cap registered

\* And it keeps out nothing else: a registered source above the level is
\* open, unless a handler has just struck an unwanted source off.
MaskIsComplete ==
  (~ \E i \in 1 .. Len(stack) : stack[i].kind = "returning")
    => HalpIrqlToMask(irql) \cap registered \subseteq gcMask

\* A handler is interrupted only by sources of a strictly higher level; in
\* particular no source re-enters its own handler, though the handler runs
\* with EE on and its event was cleared before it was served.
NestedByPriority ==
  \A i, j \in 1 .. Len(stack) :
    i < j /\ stack[i].kind \in External /\ stack[j].kind \in External
      => HalpInterruptToIrql[stack[i].src] < HalpInterruptToIrql[stack[j].src]

\* The DPC consumer of cuda.c cannot preempt a producer: no DPC runs on top
\* of an interrupt handler (the comment at cuda.c:95-99 relies on it).
DpcUnderHandlers ==
  \A i, j \in 1 .. Len(stack) :
    i < j /\ stack[i].kind \in External \cup {"clock"} => stack[j].kind # "dpc"

\* "should not happen: it was masked" (ints.c:157): the source a handler is
\* entered for always outranks the interrupted level.
EntryOutranks == [][Len(stack') = Len(stack) + 1 /\ stack'[Len(stack')].kind \in External
                      => irql' > irql]_vars

\* A source once struck off stays off until somebody enables it again: the
\* comment "nobody wants it: stop it" of ints.c:181.
StruckOffStaysOff ==
  [][\A s \in registered' \ registered : HalEnableSystemInterrupt(s) \/ HalPxiAdbAutopoll(TRUE)]_vars

\* Grand Central lets through the registered sources above the level and no
\* others, but for those a handler has just changed and will open or close on
\* its return: the mask is rewritten at every change of level (irql.c:23 and
\* 36) and of the register (ints.c:120, 132 and 185, cuda.c:414).
MaskMatchesLevel == MaskIsSound /\ MaskIsComplete

\* The control stack is a proper nest: levels fall as it unwinds, and handlers
\* lie on top of one another by rising priority (ints.c:155-165).
StackNests == SavedLevelsClimb /\ NestedByPriority
=============================================================================
