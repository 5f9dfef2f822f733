-------------------------- MODULE InterruptsProofs --------------------------
(***************************************************************************)
(* Theorems about Interrupts for every set of sources, every set of levels  *)
(* software raises to, and any nesting depth.                               *)
(*                                                                         *)
(* The invariant is about the control stack.  Every frame runs at a level   *)
(* of its own (FrameLevel): the source's for an external handler, the       *)
(* clock's, DISPATCH_LEVEL for DPCs, at least one above what it saved for a *)
(* raise.  Ordered says the levels and the saved levels interleave strictly *)
(* up the stack; Removals says what a handler loaded of                     *)
(* HalpRegisteredInterrupts covers what is registered now.                  *)
(***************************************************************************)
EXTENDS Interrupts, LeastElement, SequenceTheorems, TLAPS

FrameLevel(f) ==
  IF f.kind \in External THEN HalpInterruptToIrql[f.src]
  ELSE IF f.kind = "clock" THEN CLOCK2_LEVEL
  ELSE IF f.kind = "dpc" THEN DISPATCH_LEVEL
  ELSE f.saved + 1

Ordered(stk, level) ==
  /\ \A i \in 1 .. Len(stk) :
       /\ stk[i].kind \in External => stk[i].src \in Sources
       /\ stk[i].saved < FrameLevel(stk[i])
       /\ FrameLevel(stk[i]) <= level
  /\ \A i, j \in 1 .. Len(stk) : i < j => FrameLevel(stk[i]) <= stk[j].saved

Removals(stk, reg) ==
  /\ \A i \in 1 .. Len(stk) : stk[i].kind = "removing" => reg \subseteq stk[i].loaded
  /\ \A i, j \in 1 .. Len(stk) :
       i < j /\ stk[i].kind = "removing" /\ stk[j].kind = "removing"
         => stk[j].loaded \subseteq stk[i].loaded

IInv ==
  /\ TypeOK
  /\ EnableMatchesLevel
  /\ polled.active => polled.ee = (irql < CLOCK2_LEVEL)
  /\ Ordered(stack, irql)
  /\ Removals(stack, registered)
  /\ MaskIsSound
  /\ MaskIsComplete

-----------------------------------------------------------------------------
(* The table and the choice of a source. *)

\* Every entry of HalpInterruptToIrql lies above DISPATCH_LEVEL and below
\* CLOCK2_LEVEL.
LEMMA DeviceLevels == \A s \in Sources : HalpInterruptToIrql[s] \in 12 .. 27
<1>. SUFFICES ASSUME NEW s \in Sources PROVE HalpInterruptToIrql[s] \in 12 .. 27
  OBVIOUS
<1>1. s \in 0 .. 31
  BY InterruptsAssumption DEF InterruptsAssumption
<1>2. CASE s < 20
  <2>1. s \div 2 \in 0 .. 9
    BY <1>1, <1>2
  <2>. QED BY <1>1, <1>2, <2>1 DEF HalpInterruptToIrql
<1>3. CASE ~ (s < 20)
  <2>1. s \in {20, 21, 22, 23, 24, 25, 26, 27, 28, 29, 30, 31}
    BY <1>1, <1>3
  <2>. QED BY <1>1, <1>3, <2>1 DEF HalpInterruptToIrql
<1>. QED BY <1>2, <1>3

\* Among pending sources, one is chosen, and it is one of them.
LEMMA PreferredIsPending ==
  ASSUME NEW pending \in SUBSET Sources, pending # {}
  PROVE  Preferred(pending) \in pending
<1>. DEFINE best == {b \in pending : \A c \in pending : HalpInterruptToIrql[c] <= HalpInterruptToIrql[b]}
            low  == {31 - HalpInterruptToIrql[b] : b \in pending}
<1>1. low \in SUBSET Nat /\ low # {}
  BY DeviceLevels
<1>2. PICK x \in low : \A y \in low : x <= y
  <2>. HIDE DEF low
  <2>. QED BY <1>1, SmallestExists
<1>3. PICK b \in pending : x = 31 - HalpInterruptToIrql[b]
  BY <1>2
<1>4. \A c \in pending : HalpInterruptToIrql[c] <= HalpInterruptToIrql[b]
  BY <1>2, <1>3, DeviceLevels
<1>5. best \in SUBSET Nat /\ best # {} /\ best \subseteq pending
  BY <1>4, InterruptsAssumption DEF InterruptsAssumption
<1>6. \E y \in best : \A c \in best : y <= c
  <2>. HIDE DEF best
  <2>. QED BY <1>5, SmallestExists
<1>. QED BY <1>5, <1>6 DEF Preferred

-----------------------------------------------------------------------------
(* The stack. *)

\* Levels are integers from 0 to 31.
LEMMA LevelsAreInts == \A level \in Irqls : level \in Int /\ 0 <= level /\ level <= 31
  BY DEF Irqls, PASSIVE_LEVEL, HIGH_LEVEL

\* The fields of a frame of the control stack have their types.
LEMMA FrameFields ==
  ASSUME NEW f \in Frame
  PROVE  /\ f.kind \in Kinds
         /\ f.saved \in Irqls
         /\ f.src \in Sources \cup {NoSource}
         /\ f.loaded \in SUBSET Sources
  BY DEF Frame

\* The level a frame runs at is an integer that can be compared.
LEMMA FrameLevelIsInt ==
  ASSUME NEW f \in Frame, f.kind \in External => f.src \in Sources
  PROVE  FrameLevel(f) \in Int /\ f.saved \in Int
<1>1. f.saved \in Int
  BY FrameFields, LevelsAreInts
<1>2. f.kind \in External => HalpInterruptToIrql[f.src] \in Int
  BY DeviceLevels
<1>. QED BY <1>1, <1>2 DEF FrameLevel, CLOCK2_LEVEL, DISPATCH_LEVEL

\* Pushing a frame that saved the level it interrupts keeps the order.
LEMMA PushOrdered ==
  ASSUME NEW stk \in Seq(Frame), NEW level \in Irqls, NEW new \in Irqls,
         NEW f \in Frame, Ordered(stk, level),
         f.kind \in External => f.src \in Sources,
         f.saved = level, f.saved < FrameLevel(f), FrameLevel(f) <= new,
         FrameLevel(f) \in Int
  PROVE  /\ Append(stk, f) \in Seq(Frame)
         /\ Ordered(Append(stk, f), new)
<1>. DEFINE push == Append(stk, f)
<1>1. /\ push \in Seq(Frame)
      /\ Len(push) = Len(stk) + 1
      /\ \A i \in 1 .. Len(stk) : push[i] = stk[i]
      /\ push[Len(stk) + 1] = f
  BY AppendProperties
<1>2. \A i \in 1 .. Len(stk) : FrameLevel(stk[i]) \in Int /\ stk[i].saved \in Int /\ FrameLevel(stk[i]) <= level
  <2>. SUFFICES ASSUME NEW i \in 1 .. Len(stk)
                PROVE  FrameLevel(stk[i]) \in Int /\ stk[i].saved \in Int /\ FrameLevel(stk[i]) <= level
    OBVIOUS
  <2>1. stk[i] \in Frame
    BY ElementOfSeq
  <2>2. /\ stk[i].kind \in External => stk[i].src \in Sources
        /\ FrameLevel(stk[i]) <= level
    BY DEF Ordered
  <2>. QED BY <2>1, <2>2, FrameLevelIsInt
<1>3. level \in Int /\ new \in Int /\ Len(stk) \in Nat /\ level < new
  BY LenProperties DEF Irqls, PASSIVE_LEVEL, HIGH_LEVEL
<1>4. ASSUME NEW i \in 1 .. Len(push)
      PROVE  /\ push[i].kind \in External => push[i].src \in Sources
             /\ push[i].saved < FrameLevel(push[i])
             /\ FrameLevel(push[i]) <= new
  <2>1. CASE i \in 1 .. Len(stk)
    <3>. HIDE DEF push
    <3>. QED BY <1>1, <1>2, <1>3, <2>1 DEF Ordered
  <2>2. CASE i = Len(stk) + 1
    <3>. HIDE DEF push
    <3>. QED BY <1>1, <2>2
  <2>. QED BY <2>1, <2>2, <1>1, <1>3
<1>5. ASSUME NEW i \in 1 .. Len(push), NEW j \in 1 .. Len(push), i < j
      PROVE  FrameLevel(push[i]) <= push[j].saved
  <2>. HIDE DEF push
  <2>1. i \in 1 .. Len(stk)
    BY <1>1, <1>3, <1>5
  <2>2. CASE j \in 1 .. Len(stk)
    BY <1>1, <1>5, <2>1, <2>2 DEF Ordered
  <2>3. CASE j = Len(stk) + 1
    BY <1>1, <1>2, <2>1, <2>3
  <2>. QED BY <2>2, <2>3, <1>1, <1>3
<1>. QED BY <1>1, <1>4, <1>5 DEF Ordered

\* Removing the innermost frame leaves the other frames as they were.
LEMMA PopSeq ==
  ASSUME NEW S, NEW stk \in Seq(S), stk # <<>>, NEW n, n = Len(stk),
         NEW rest, rest = SubSeq(stk, 1, n - 1)
  PROVE  /\ n \in Nat \ {0}
         /\ stk[n] \in S
         /\ rest \in Seq(S)
         /\ Len(rest) = n - 1
         /\ \A i \in 1 .. n - 1 : rest[i] = stk[i]
<1>1. n \in Nat \ {0}
  BY EmptySeq
<1>2. \A i \in 1 .. n : stk[i] \in S
  BY ElementOfSeq
<1>3. n \in 1 .. n /\ n - 1 \in Int /\ 1 \in Int /\ 1 .. n - 1 \subseteq 1 .. n
  BY <1>1
<1>4. \A i \in 1 .. n - 1 : stk[i] \in S
  BY <1>2, <1>3
<1>5. /\ SubSeq(stk, 1, n - 1) \in Seq(S)
      /\ Len(SubSeq(stk, 1, n - 1)) = IF 1 <= n - 1 THEN n - 1 - 1 + 1 ELSE 0
      /\ \A i \in 1 .. n - 1 - 1 + 1 : SubSeq(stk, 1, n - 1)[i] = stk[1 + i - 1]
  BY <1>3, <1>4, SubSeqProperties
<1>6. n - 1 - 1 + 1 = n - 1 /\ (~ (1 <= n - 1) => n - 1 = 0)
  BY <1>1
<1>7. Len(rest) = n - 1
  BY <1>5, <1>6
<1>8. \A i \in 1 .. n - 1 : 1 + i - 1 = i
  OBVIOUS
<1>9. \A i \in 1 .. n - 1 : rest[i] = stk[i]
  BY <1>5, <1>6, <1>8
<1>. QED BY <1>1, <1>2, <1>3, <1>5, <1>7, <1>9

\* Popping the innermost frame leaves the rest ordered below what it saved.
LEMMA PopOrdered ==
  ASSUME NEW stk \in Seq(Frame), stk # <<>>, NEW level, Ordered(stk, level),
         NEW n, n = Len(stk), NEW rest, rest = SubSeq(stk, 1, n - 1)
  PROVE  Ordered(rest, stk[n].saved)
<1>1. /\ n \in Nat \ {0} /\ Len(rest) = n - 1
      /\ \A i \in 1 .. n - 1 : rest[i] = stk[i]
  BY PopSeq
<1>2. \A i \in 1 .. n : /\ stk[i].kind \in External => stk[i].src \in Sources
                        /\ stk[i].saved < FrameLevel(stk[i])
  BY DEF Ordered
<1>3. \A i, j \in 1 .. n : i < j => FrameLevel(stk[i]) <= stk[j].saved
  BY DEF Ordered
<1>4. 1 .. n - 1 \subseteq 1 .. n /\ n \in 1 .. n /\ \A i \in 1 .. n - 1 : i < n
  BY <1>1
<1>5. ASSUME NEW i \in 1 .. Len(rest)
      PROVE  /\ rest[i].kind \in External => rest[i].src \in Sources
             /\ rest[i].saved < FrameLevel(rest[i])
             /\ FrameLevel(rest[i]) <= stk[n].saved
  <2>1. i \in 1 .. n - 1 /\ i \in 1 .. n /\ rest[i] = stk[i] /\ i < n
    BY <1>1, <1>4
  <2>2. FrameLevel(stk[i]) <= stk[n].saved
    BY <2>1, <1>3, <1>4
  <2>3. /\ stk[i].kind \in External => stk[i].src \in Sources
        /\ stk[i].saved < FrameLevel(stk[i])
    BY <2>1, <1>2, Zenon
  <2>. QED BY <2>1, <2>2, <2>3, Zenon
<1>6. ASSUME NEW i \in 1 .. Len(rest), NEW j \in 1 .. Len(rest), i < j
      PROVE  FrameLevel(rest[i]) <= rest[j].saved
  <2>1. i \in 1 .. n /\ j \in 1 .. n /\ rest[i] = stk[i] /\ rest[j] = stk[j]
    BY <1>1, <1>4
  <2>. QED BY <2>1, <1>3, <1>6
<1>. QED BY <1>5, <1>6 DEF Ordered

\* Popping keeps what is known of the handlers part-way through line 181.
LEMMA PopRemovals ==
  ASSUME NEW stk \in Seq(Frame), stk # <<>>, NEW reg, Removals(stk, reg),
         NEW n, n = Len(stk), NEW rest, rest = SubSeq(stk, 1, n - 1)
  PROVE  Removals(rest, reg)
<1>1. /\ n \in Nat \ {0} /\ Len(rest) = n - 1
      /\ \A i \in 1 .. n - 1 : rest[i] = stk[i]
  BY PopSeq
<1>2. 1 .. n - 1 \subseteq 1 .. n
  BY <1>1
<1>. QED BY <1>1, <1>2 DEF Removals

\* A pushed frame that is not part-way through line 181 adds no removal.
LEMMA PushRemovals ==
  ASSUME NEW stk \in Seq(Frame), NEW f \in Frame, NEW reg, Removals(stk, reg), f.kind # "removing"
  PROVE  Removals(Append(stk, f), reg)
<1>1. /\ Len(Append(stk, f)) = Len(stk) + 1
      /\ \A i \in 1 .. Len(stk) : Append(stk, f)[i] = stk[i]
      /\ Append(stk, f)[Len(stk) + 1] = f
      /\ Len(stk) \in Nat
  BY AppendProperties, LenProperties
<1>2. \A i \in 1 .. Len(Append(stk, f)) :
        Append(stk, f)[i].kind = "removing" => i \in 1 .. Len(stk)
  BY <1>1
<1>. QED BY <1>1, <1>2 DEF Removals

\* ArriveAt keeps every clause that concerns the processor.
LEMMA Arrival ==
  ASSUME NEW level \in Irqls, NEW rest \in Seq(Frame), NEW reg \in SUBSET Sources,
         Ordered(rest, level), Removals(rest, reg), softint \in BOOLEAN,
         ArriveAt(level, rest, reg)
  PROVE  /\ irql' \in Irqls
         /\ ee' = (irql' < CLOCK2_LEVEL)
         /\ gcMask' = HalpIrqlToMask(irql') \cap reg
         /\ softint' \in BOOLEAN
         /\ stack' \in Seq(Frame)
         /\ Ordered(stack', irql')
         /\ Removals(stack', reg)
<1>1. CASE softint /\ level < DISPATCH_LEVEL
  <2>. DEFINE f == PlainFrame("dpc", level)
  <2>1. f \in Frame /\ f.kind = "dpc" /\ f.saved = level /\ f.kind \notin External
    BY DEF PlainFrame, Frame, Kinds, External
  <2>2. FrameLevel(f) = DISPATCH_LEVEL
    BY <2>1 DEF FrameLevel
  <2>3. /\ irql' = DISPATCH_LEVEL /\ stack' = Append(rest, f) /\ softint' = FALSE
        /\ gcMask' = HalpIrqlToMask(DISPATCH_LEVEL) \cap reg /\ ee' = TRUE
    BY <1>1 DEF ArriveAt, Dispatches, EnabledAt
  <2>4. DISPATCH_LEVEL \in Irqls /\ DISPATCH_LEVEL \in Int
    BY DEF DISPATCH_LEVEL, Irqls, PASSIVE_LEVEL, HIGH_LEVEL
  <2>5. stack' \in Seq(Frame) /\ Ordered(stack', irql')
    <3>. HIDE DEF f
    <3>. QED BY <1>1, <2>1, <2>2, <2>3, <2>4, PushOrdered
  <2>6. Removals(stack', reg)
    <3>. HIDE DEF f
    <3>. QED BY <2>1, <2>3, PushRemovals
  <2>7. (irql' < CLOCK2_LEVEL) = TRUE
    BY <2>3 DEF DISPATCH_LEVEL, CLOCK2_LEVEL
  <2>. QED BY ONLY <2>3, <2>4, <2>5, <2>6, <2>7, Zenon
<1>2. CASE ~ (softint /\ level < DISPATCH_LEVEL)
  BY <1>2 DEF ArriveAt, Dispatches, EnabledAt
<1>. QED BY <1>1, <1>2

-----------------------------------------------------------------------------
(* The invariant is inductive. *)

\* What ArriveAt establishes, with the clauses it leaves to the action.
LEMMA ArrivalKeepsIInv ==
  ASSUME TypeOK, NEW level \in Irqls, NEW rest \in Seq(Frame),
         registered' \in SUBSET Sources,
         Ordered(rest, level), Removals(rest, registered'),
         ArriveAt(level, rest, registered'),
         latch' \in SUBSET Sources, connected' \in SUBSET Sources,
         ~ polled.active, polled' = polled
  PROVE  IInv'
<1>1. /\ irql' \in Irqls
      /\ ee' = (irql' < CLOCK2_LEVEL)
      /\ gcMask' = HalpIrqlToMask(irql') \cap registered'
      /\ softint' \in BOOLEAN
      /\ stack' \in Seq(Frame)
      /\ Ordered(stack', irql')
      /\ Removals(stack', registered')
  BY Arrival DEF TypeOK
<1>2. TypeOK'
  BY <1>1 DEF TypeOK
<1>3. EnableMatchesLevel'
  BY <1>1 DEF EnableMatchesLevel
<1>4. MaskIsSound' /\ MaskIsComplete'
  BY <1>1 DEF MaskIsSound, MaskIsComplete, HalpIrqlToMask
<1>. QED BY <1>1, <1>2, <1>3, <1>4 DEF IInv

\* Code that returns from the innermost frame: KeLowerIrql, the DPC
\* dispatch, both handlers.
LEMMA ReturnKeepsIInv ==
  ASSUME IInv, stack # <<>>, ~ polled.active,
         ArriveAt(Top.saved, Rest, registered),
         UNCHANGED <<latch, registered, connected, polled>>
  PROVE  IInv'
<1>1. /\ Rest \in Seq(Frame) /\ Top \in Frame
      /\ Ordered(Rest, Top.saved)
      /\ Removals(Rest, registered)
  <2>1. PICK n : n = Len(stack)
    OBVIOUS
  <2>2. PICK rest : rest = SubSeq(stack, 1, n - 1)
    OBVIOUS
  <2>3. stack \in Seq(Frame) /\ Ordered(stack, irql) /\ Removals(stack, registered)
    BY DEF IInv, TypeOK
  <2>4. rest \in Seq(Frame) /\ stack[n] \in Frame
    BY <2>1, <2>2, <2>3, PopSeq
  <2>5. Ordered(rest, stack[n].saved)
    BY <2>1, <2>2, <2>3, PopOrdered
  <2>6. Removals(rest, registered)
    BY <2>1, <2>2, <2>3, PopRemovals
  <2>7. Rest = rest /\ Top = stack[n]
    BY <2>1, <2>2 DEF Rest, Top
  <2>. QED BY <2>4, <2>5, <2>6, <2>7
<1>2. Top.saved \in Irqls
  BY <1>1, FrameFields
<1>3. TypeOK
  BY DEF IInv
<1>. QED BY <1>1, <1>2, <1>3, ArrivalKeepsIInv DEF TypeOK

\* HalpInitializeInterrupts establishes the invariant.
LEMMA InitIInv == Init => IInv
<1>. SUFFICES ASSUME Init PROVE IInv
  OBVIOUS
<1>. DEFINE f == PlainFrame("raise", PASSIVE_LEVEL)
<1>1. /\ f \in Frame /\ f.kind = "raise" /\ f.saved = PASSIVE_LEVEL
      /\ f.kind \notin External /\ f.loaded = {}
  BY DEF PlainFrame, Frame, Kinds, External, Irqls, PASSIVE_LEVEL, HIGH_LEVEL
<1>2. stack = <<f>> /\ irql = HIGH_LEVEL
  BY DEF Init
<1>3. FrameLevel(f) = 1
  BY <1>1 DEF FrameLevel, PASSIVE_LEVEL
<1>4. stack \in Seq(Frame) /\ Len(stack) = 1 /\ stack[1] = f
  <2>. HIDE DEF f
  <2>. QED BY <1>1, <1>2
<1>5. \A i \in 1 .. Len(stack) : stack[i] = f
  <2>. HIDE DEF f
  <2>. QED BY <1>4
<1>6. Ordered(stack, irql)
  <2>. HIDE DEF f
  <2>. QED BY <1>1, <1>2, <1>3, <1>4, <1>5 DEF Ordered, HIGH_LEVEL, PASSIVE_LEVEL
<1>7. Removals(stack, registered)
  <2>. HIDE DEF f
  <2>. QED BY <1>1, <1>4, <1>5 DEF Removals
<1>8. polled.active = FALSE /\ polled \in [active : BOOLEAN, ee : BOOLEAN]
  BY DEF Init
<1>9. /\ irql \in Irqls /\ ee \in BOOLEAN /\ softint \in BOOLEAN
      /\ latch = {} /\ gcMask = {} /\ registered = {} /\ connected = {}
  <2>1. HIGH_LEVEL \in Irqls
    BY DEF Irqls, PASSIVE_LEVEL, HIGH_LEVEL
  <2>. QED BY <1>2, <2>1, Zenon DEF Init
<1>10. TypeOK
  BY <1>4, <1>8, <1>9 DEF TypeOK
<1>11. ~ (irql < CLOCK2_LEVEL)
  BY <1>2 DEF CLOCK2_LEVEL, HIGH_LEVEL
<1>12. EnableMatchesLevel
  BY <1>11, Zenon DEF Init, EnableMatchesLevel
<1>13. MaskIsSound /\ MaskIsComplete
  BY <1>9 DEF MaskIsSound, MaskIsComplete
<1>. QED BY <1>6, <1>7, <1>8, <1>10, <1>12, <1>13, Zenon DEF IInv

\* A push of a frame that is neither external nor a raise's equal keeps the
\* invariant when the mask is recomputed for the new level.
LEMMA PushKeepsIInv ==
  ASSUME IInv, NEW f \in Frame, NEW new \in Irqls,
         f.kind \in External => f.src \in Sources,
         f.kind \notin {"removing", "returning"},
         f.saved = irql, f.saved < FrameLevel(f), FrameLevel(f) <= new,
         irql' = new,
         ee' = (new < CLOCK2_LEVEL),
         gcMask' = HalpIrqlToMask(new) \cap registered,
         stack' = Append(stack, f),
         latch' \in SUBSET Sources,
         ~ polled.active,
         UNCHANGED <<registered, connected, softint, polled>>
  PROVE  IInv'
<1>1. /\ stack \in Seq(Frame) /\ irql \in Irqls /\ Ordered(stack, irql)
      /\ Removals(stack, registered) /\ TypeOK
  BY DEF IInv, TypeOK
<1>2. FrameLevel(f) \in Int
  BY FrameLevelIsInt
<1>3. stack' \in Seq(Frame) /\ Ordered(stack', new)
  BY <1>1, <1>2, PushOrdered
<1>4. Removals(stack', registered)
  BY <1>1, PushRemovals
<1>5. gcMask' \in SUBSET Sources
  BY DEF HalpIrqlToMask
<1>6. TypeOK'
  BY <1>1, <1>3, <1>5 DEF TypeOK
<1>7. EnableMatchesLevel'
  <2>1. ~ polled'.active
    OBVIOUS
  <2>. QED BY <2>1 DEF EnableMatchesLevel
<1>8. MaskIsSound' /\ MaskIsComplete'
  BY DEF MaskIsSound, MaskIsComplete, HalpIrqlToMask
<1>. QED BY <1>3, <1>4, <1>6, <1>7, <1>8 DEF IInv

\* KeRaiseIrql.
LEMMA RaiseKeepsIInv ==
  ASSUME IInv, NEW new \in RaiseLevels, KeRaiseIrql(new)
  PROVE  IInv'
<1>. DEFINE f == PlainFrame("raise", irql)
<1>1. irql \in Irqls /\ new \in Irqls /\ irql \in Int
  BY InterruptsAssumption, LevelsAreInts DEF IInv, TypeOK, InterruptsAssumption
<1>2. /\ f \in Frame /\ f.kind = "raise" /\ f.saved = irql /\ f.kind \notin External
      /\ f.kind \notin {"removing", "returning"}
  BY <1>1 DEF PlainFrame, Frame, Kinds, External
<1>3. FrameLevel(f) = irql + 1
  BY <1>2 DEF FrameLevel
<1>4. /\ new > irql /\ irql' = new /\ ee' = (new < CLOCK2_LEVEL)
      /\ gcMask' = HalpIrqlToMask(new) \cap registered
      /\ stack' = Append(stack, f) /\ ~ polled.active
      /\ UNCHANGED <<latch, registered, connected, softint, polled>>
  BY DEF KeRaiseIrql, EnabledAt
<1>5. f.saved < FrameLevel(f) /\ FrameLevel(f) <= new /\ latch' \in SUBSET Sources
  BY <1>1, <1>2, <1>3, <1>4, LevelsAreInts DEF IInv, TypeOK
<1>. HIDE DEF f
<1>. QED BY <1>1, <1>2, <1>4, <1>5, PushKeepsIInv

\* The decrementer is taken below the clock's level, since EE was on.
LEMMA DecrementerKeepsIInv ==
  ASSUME IInv, DecrementerInterrupt
  PROVE  IInv'
<1>. DEFINE f == PlainFrame("clock", irql)
<1>1. irql \in Irqls /\ CLOCK2_LEVEL \in Irqls /\ latch \in SUBSET Sources
  BY DEF IInv, TypeOK, Irqls, PASSIVE_LEVEL, CLOCK2_LEVEL, HIGH_LEVEL
<1>2. irql < CLOCK2_LEVEL /\ ~ polled.active
  BY DEF IInv, EnableMatchesLevel, DecrementerInterrupt
<1>3. /\ f \in Frame /\ f.kind = "clock" /\ f.saved = irql /\ f.kind \notin External
      /\ f.kind \notin {"removing", "returning"}
  BY <1>1 DEF PlainFrame, Frame, Kinds, External
<1>4. FrameLevel(f) = CLOCK2_LEVEL /\ CLOCK2_LEVEL <= CLOCK2_LEVEL
  BY <1>3 DEF FrameLevel, CLOCK2_LEVEL
<1>5. (CLOCK2_LEVEL < CLOCK2_LEVEL) = FALSE
  BY DEF CLOCK2_LEVEL
<1>6. /\ irql' = CLOCK2_LEVEL /\ ee' = (CLOCK2_LEVEL < CLOCK2_LEVEL)
      /\ gcMask' = HalpIrqlToMask(CLOCK2_LEVEL) \cap registered
      /\ stack' = Append(stack, f)
      /\ UNCHANGED <<latch, registered, connected, softint, polled>>
  BY <1>5, Zenon DEF DecrementerInterrupt
<1>. HIDE DEF f
<1>. QED BY <1>1, <1>2, <1>3, <1>4, <1>6, PushKeepsIInv

\* The source served is above the interrupted level: it was not masked.
LEMMA ServedOutranks ==
  ASSUME IInv, latch \cap gcMask # {}
  PROVE  LET s == Preferred(latch \cap gcMask)
         IN  /\ s \in Sources
             /\ s \in latch
             /\ irql < HalpInterruptToIrql[s]
             /\ EntryLevel(s) = HalpInterruptToIrql[s]
             /\ s \notin HalpIrqlToMask(EntryLevel(s))
<1>. DEFINE s == Preferred(latch \cap gcMask)
<1>1. s \in latch \cap gcMask
  BY PreferredIsPending DEF IInv, TypeOK
<1>2. s \in Sources /\ irql < HalpInterruptToIrql[s]
  BY <1>1 DEF IInv, TypeOK, MaskIsSound, HalpIrqlToMask
<1>3. irql \in Int /\ HalpInterruptToIrql[s] \in Int
  BY <1>2, DeviceLevels, LevelsAreInts DEF IInv, TypeOK
<1>. HIDE DEF s
<1>4. EntryLevel(s) = HalpInterruptToIrql[s]
  BY <1>2, <1>3 DEF EntryLevel
<1>5. s \notin HalpIrqlToMask(EntryLevel(s))
  BY <1>3, <1>4 DEF HalpIrqlToMask
<1>. QED BY <1>1, <1>2, <1>4, <1>5 DEF s

\* HalpExternalInterrupt entered with a source to serve: the mask closes
\* over its level before EE comes back on.
LEMMA ExternalKeepsIInv ==
  ASSUME IInv, ExternalInterrupt
  PROVE  IInv'
<1>1. latch \cap gcMask # {} /\ ee
  BY DEF ExternalInterrupt, ClearedFor
<1>2. PICK s : s = Preferred(latch \cap gcMask)
  OBVIOUS
<1>3. /\ s \in Sources /\ s \in latch /\ irql < HalpInterruptToIrql[s]
      /\ EntryLevel(s) = HalpInterruptToIrql[s]
      /\ s \notin HalpIrqlToMask(EntryLevel(s))
  BY <1>1, <1>2, ServedOutranks
<1>4. PICK kind \in {"service", "unexpected"} :
        stack' = Append(stack, ExternalFrame(kind, irql, s))
  BY <1>2 DEF ExternalInterrupt, ClearedFor
<1>. DEFINE f == ExternalFrame(kind, irql, s)
<1>5. irql \in Irqls /\ HalpInterruptToIrql[s] \in 12 .. 27
  BY <1>3, DeviceLevels DEF IInv, TypeOK
<1>6. EntryLevel(s) \in Irqls /\ EntryLevel(s) < CLOCK2_LEVEL /\ EntryLevel(s) <= EntryLevel(s)
  BY <1>3, <1>5 DEF Irqls, PASSIVE_LEVEL, HIGH_LEVEL, CLOCK2_LEVEL
<1>7. /\ f \in Frame /\ f.kind \in External /\ f.saved = irql /\ f.src = s
      /\ f.kind \notin {"removing", "returning"}
  BY <1>3, <1>5 DEF ExternalFrame, Frame, Kinds, External
<1>8. FrameLevel(f) = EntryLevel(s)
  BY <1>3, <1>7 DEF FrameLevel
<1>9. /\ irql' = EntryLevel(s)
      /\ gcMask' = (HalpIrqlToMask(EntryLevel(s)) \cap registered) \ {s}
      /\ latch' = latch \ {s}
      /\ UNCHANGED <<ee, registered, connected, softint, polled>>
  BY <1>2 DEF ExternalInterrupt, ClearedFor
<1>10. gcMask' = HalpIrqlToMask(EntryLevel(s)) \cap registered
  BY <1>3, <1>9
<1>11. ~ polled.active
  BY <1>1, Zenon DEF IInv, EnableMatchesLevel
<1>12. ee' = (EntryLevel(s) < CLOCK2_LEVEL)
  BY <1>1, <1>6, <1>9, <1>11, Zenon DEF IInv, TypeOK, EnableMatchesLevel
<1>13. latch' \in SUBSET Sources
  BY <1>9 DEF IInv, TypeOK
<1>. HIDE DEF f
<1>14. f.saved < FrameLevel(f) /\ FrameLevel(f) <= EntryLevel(s)
  BY <1>3, <1>5, <1>6, <1>7, <1>8
<1>15. stack' = Append(stack, f)
  BY <1>4 DEF f
<1>. QED BY <1>3, <1>6, <1>7, <1>9, <1>10, <1>11, <1>12, <1>13, <1>14, <1>15, PushKeepsIInv

\* Registering and unregistering a source: thread and DPC code only, so no
\* handler is part-way through striking one off.
LEMMA RegistrationKeepsIInv ==
  ASSUME IInv, InThread, ~ polled.active, registered' \in SUBSET Sources,
         ArriveAt(irql, stack, registered'),
         latch' \in SUBSET Sources, UNCHANGED <<connected, polled>>
  PROVE  IInv'
<1>1. /\ stack \in Seq(Frame) /\ irql \in Irqls /\ Ordered(stack, irql) /\ TypeOK
      /\ connected' \in SUBSET Sources
  BY DEF IInv, TypeOK
<1>2. Removals(stack, registered')
  BY DEF InThread, Removals
<1>. QED BY <1>1, <1>2, ArrivalKeepsIInv

\* Replacing the innermost frame by one of the same source and level.
LEMMA SetTopOrdered ==
  ASSUME NEW stk \in Seq(Frame), NEW level, Ordered(stk, level),
         NEW n \in Nat \ {0}, n = Len(stk), NEW f \in Frame,
         NEW new, Len(new) = n, new[n] = f,
         \A i \in 1 .. n : i # n => new[i] = stk[i],
         stk[n].kind \in External, f.kind \in External,
         f.src = stk[n].src, f.saved = stk[n].saved
  PROVE  Ordered(new, level)
<1>1. FrameLevel(f) = FrameLevel(stk[n])
  BY DEF FrameLevel
<1>2. \A i \in 1 .. n : /\ FrameLevel(new[i]) = FrameLevel(stk[i])
                        /\ new[i].saved = stk[i].saved
                        /\ new[i].src = stk[i].src
                        /\ new[i].kind \in External <=> stk[i].kind \in External
  BY <1>1
<1>. QED BY <1>2 DEF Ordered

\* The load of HalpRegisteredInterrupts of line 181 keeps the invariant.
LEMMA LoadKeepsIInv ==
  ASSUME IInv, LoadRegistered
  PROVE  IInv'
<1>1. PICK n : n = Len(stack)
  OBVIOUS
<1>2. /\ stack \in Seq(Frame) /\ stack # <<>> /\ stack[n].kind = "unexpected"
      /\ Ordered(stack, irql) /\ registered \in SUBSET Sources
  BY <1>1 DEF IInv, TypeOK, LoadRegistered, TopIs, Top
<1>3. n \in Nat \ {0} /\ stack[n] \in Frame
  BY <1>1, <1>2, EmptySeq, ElementOfSeq
<1>4. PICK f : f = [stack[n] EXCEPT !.kind = "removing", !.loaded = registered]
  OBVIOUS
<1>5. /\ f \in Frame /\ f.kind = "removing" /\ f.loaded = registered
      /\ f.src = stack[n].src /\ f.saved = stack[n].saved
  BY <1>2, <1>3, <1>4 DEF Frame, Kinds, External
<1>6. stack[n].kind \in External /\ f.kind \in External
  BY <1>2, <1>5 DEF External
<1>7. stack' = [stack EXCEPT ![n] = f]
  BY <1>1, <1>4 DEF LoadRegistered, SetTop, Top
<1>8. /\ stack' \in Seq(Frame) /\ Len(stack') = n
      /\ \A i \in 1 .. n : i # n => stack'[i] = stack[i]
      /\ stack'[n] = f
      /\ Ordered(stack', irql)
  <2>1. /\ stack' \in Seq(Frame) /\ Len(stack') = n
        /\ \A i \in 1 .. n : i # n => stack'[i] = stack[i]
        /\ stack'[n] = f
    BY <1>1, <1>2, <1>3, <1>5, <1>7, ExceptSeq
  <2>2. Ordered(stack', irql)
    BY <1>1, <1>2, <1>3, <1>5, <1>6, <2>1, SetTopOrdered
  <2>. QED BY <2>1, <2>2
<1>9. UNCHANGED <<irql, ee, latch, gcMask, registered, connected, softint, polled>>
  BY DEF LoadRegistered
<1>10. Removals(stack', registered')
  <2>1. \A i \in 1 .. n : stack'[i].kind = "removing" => registered \subseteq stack'[i].loaded
    BY <1>1, <1>5, <1>8 DEF IInv, Removals
  <2>2. ASSUME NEW i \in 1 .. n, NEW j \in 1 .. n, i < j,
               stack'[i].kind = "removing", stack'[j].kind = "removing"
        PROVE  stack'[j].loaded \subseteq stack'[i].loaded
    <3>1. CASE j = n
      BY <1>5, <1>8, <2>1, <2>2, <3>1
    <3>2. CASE j # n
      <4>1. i # n
        BY <1>3, <2>2
      <4>2. stack'[i] = stack[i] /\ stack'[j] = stack[j]
        BY <1>8, <3>2, <4>1
      <4>. QED BY <1>1, <2>2, <4>2 DEF IInv, Removals
    <3>. QED BY <3>1, <3>2
  <2>. QED BY <1>8, <1>9, <2>1, <2>2 DEF Removals
<1>11. MaskIsComplete'
  <2>1. ASSUME NEW i \in 1 .. n, stack[i].kind = "returning"
        PROVE  stack'[i].kind = "returning"
    BY <1>2, <1>8, <2>1
  <2>. QED BY <1>1, <1>8, <1>9, <2>1 DEF IInv, MaskIsComplete, HalpIrqlToMask
<1>12. MaskIsSound'
  BY <1>9 DEF IInv, MaskIsSound, HalpIrqlToMask
<1>13. TypeOK' /\ EnableMatchesLevel' /\ (polled'.active => polled'.ee = (irql' < CLOCK2_LEVEL))
  BY <1>8, <1>9 DEF IInv, TypeOK, EnableMatchesLevel
<1>. QED BY <1>8, <1>9, <1>10, <1>11, <1>12, <1>13 DEF IInv

\* The stale store may bring a source back, but never unmasks one: what it
\* writes covers what was registered, short of its own source.
LEMMA StoreKeepsIInv ==
  ASSUME IInv, StoreRegistered
  PROVE  IInv'
<1>1. PICK n : n = Len(stack)
  OBVIOUS
<1>2. /\ stack \in Seq(Frame) /\ stack # <<>> /\ stack[n].kind = "removing"
      /\ Ordered(stack, irql) /\ irql \in Irqls
  BY <1>1 DEF IInv, TypeOK, StoreRegistered, TopIs, Top
<1>3. n \in Nat \ {0} /\ n \in 1 .. n /\ stack[n] \in Frame
  BY <1>1, <1>2, EmptySeq, ElementOfSeq
<1>4. PICK f : f = [stack[n] EXCEPT !.kind = "returning"]
  OBVIOUS
<1>5. /\ f \in Frame /\ f.kind = "returning"
      /\ f.src = stack[n].src /\ f.saved = stack[n].saved
  BY <1>2, <1>3, <1>4 DEF Frame, Kinds, External
<1>6. stack[n].kind \in External /\ f.kind \in External
  BY <1>2, <1>5 DEF External
<1>7. stack' = [stack EXCEPT ![n] = f] /\ registered' = stack[n].loaded \ {stack[n].src}
  BY <1>1, <1>4 DEF StoreRegistered, SetTop, Top
<1>8. /\ stack' \in Seq(Frame) /\ Len(stack') = n
      /\ \A i \in 1 .. n : i # n => stack'[i] = stack[i]
      /\ stack'[n] = f
      /\ Ordered(stack', irql)
  <2>1. /\ stack' \in Seq(Frame) /\ Len(stack') = n
        /\ \A i \in 1 .. n : i # n => stack'[i] = stack[i]
        /\ stack'[n] = f
    BY <1>1, <1>2, <1>3, <1>5, <1>7, ExceptSeq
  <2>2. Ordered(stack', irql)
    BY <1>1, <1>2, <1>3, <1>5, <1>6, <2>1, SetTopOrdered
  <2>. QED BY <2>1, <2>2
<1>9. UNCHANGED <<irql, ee, latch, gcMask, connected, softint, polled>>
  BY DEF StoreRegistered
<1>10. Removals(stack', registered')
  <2>1. ASSUME NEW i \in 1 .. n, stack'[i].kind = "removing"
        PROVE  stack'[i] = stack[i] /\ i < n /\ registered' \subseteq stack'[i].loaded
    <3>1. i # n /\ i < n
      BY <1>3, <1>5, <1>8, <2>1
    <3>2. stack'[i] = stack[i]
      BY <1>8, <3>1
    <3>3. stack[n].loaded \subseteq stack[i].loaded
      BY <1>1, <1>2, <1>3, <2>1, <3>1, <3>2 DEF IInv, Removals
    <3>. QED BY <1>7, <3>1, <3>2, <3>3
  <2>. QED BY <1>1, <1>8, <2>1 DEF IInv, Removals
<1>11. MaskIsComplete'
  BY <1>3, <1>5, <1>8 DEF MaskIsComplete
<1>12. MaskIsSound'
  <2>1. stack[n].src \in Sources /\ HalpInterruptToIrql[stack[n].src] <= irql
    BY <1>1, <1>2, <1>3, <1>6 DEF Ordered, FrameLevel
  <2>2. stack[n].src \notin gcMask
    <3>1. irql \in Int /\ HalpInterruptToIrql[stack[n].src] \in Int
      <4>1. HalpInterruptToIrql[stack[n].src] \in 12 .. 27
        BY <2>1, DeviceLevels, Zenon
      <4>2. HalpInterruptToIrql[stack[n].src] \in Int
        BY ONLY <4>1
      <4>. QED BY <4>2, <1>2, LevelsAreInts, Zenon
    <3>2. \A s \in gcMask : HalpInterruptToIrql[s] > irql
      BY DEF IInv, MaskIsSound, HalpIrqlToMask
    <3>. QED BY <2>1, <3>1, <3>2
  <2>3. registered \subseteq stack[n].loaded
    BY <1>1, <1>2, <1>3 DEF IInv, Removals
  <2>. QED BY <1>7, <1>9, <2>2, <2>3 DEF IInv, MaskIsSound, HalpIrqlToMask
<1>13. registered' \in SUBSET Sources
  BY <1>3, <1>7, FrameFields
<1>14. TypeOK' /\ EnableMatchesLevel' /\ (polled'.active => polled'.ee = (irql' < CLOCK2_LEVEL))
  BY <1>8, <1>9, <1>13 DEF IInv, TypeOK, EnableMatchesLevel
<1>. QED BY <1>8, <1>9, <1>10, <1>11, <1>12, <1>14 DEF IInv

\* A device edge and a spurious interrupt touch only the latched edges.
LEMMA LatchKeepsIInv ==
  ASSUME IInv, latch' \in SUBSET Sources,
         UNCHANGED <<irql, ee, gcMask, registered, softint, polled, stack>>,
         connected' \in SUBSET Sources
  PROVE  IInv'
  BY DEF IInv, TypeOK, EnableMatchesLevel, MaskIsSound, MaskIsComplete, HalpIrqlToMask

\* A polled Cuda request turns EE off and back to what it was.
LEMMA PolledKeepsIInv ==
  ASSUME IInv, PolledBegin \/ PolledEnd
  PROVE  IInv'
<1>1. UNCHANGED <<irql, latch, gcMask, registered, connected, softint, stack>>
  BY DEF PolledBegin, PolledEnd
<1>2. /\ ee \in BOOLEAN /\ polled \in [active : BOOLEAN, ee : BOOLEAN]
      /\ ee = (irql < CLOCK2_LEVEL /\ ~ polled.active)
      /\ polled.active => polled.ee = (irql < CLOCK2_LEVEL)
  BY DEF IInv, TypeOK, EnableMatchesLevel
<1>3. /\ ee' \in BOOLEAN /\ polled' \in [active : BOOLEAN, ee : BOOLEAN]
      /\ ee' = (irql < CLOCK2_LEVEL /\ ~ polled'.active)
      /\ polled'.active => polled'.ee = (irql < CLOCK2_LEVEL)
  <2>1. CASE PolledBegin
    <3>1. ~ polled.active /\ polled' = [active |-> TRUE, ee |-> ee] /\ ee' = FALSE
      BY <2>1 DEF PolledBegin
    <3>2. polled'.active = TRUE /\ polled'.ee = ee /\ polled' \in [active : BOOLEAN, ee : BOOLEAN]
      BY <1>2, <3>1
    <3>3. CASE irql < CLOCK2_LEVEL
      <4>1. (irql < CLOCK2_LEVEL) = TRUE /\ ee = TRUE
        BY <1>2, <3>1, <3>3, Zenon
      <4>. QED BY <3>1, <3>2, <4>1, Zenon
    <3>4. CASE ~ (irql < CLOCK2_LEVEL)
      <4>1. ee = FALSE
        BY <1>2, <3>4, Zenon
      <4>2. (irql < CLOCK2_LEVEL) = FALSE
        BY <3>4 DEF CLOCK2_LEVEL
      <4>. QED BY <3>1, <3>2, <4>1, <4>2, Zenon
    <3>. QED BY <3>3, <3>4
  <2>2. CASE PolledEnd
    <3>1. polled.active /\ polled' = [active |-> FALSE, ee |-> FALSE] /\ ee' = polled.ee
      BY <2>2 DEF PolledEnd
    <3>2. polled'.active = FALSE /\ polled' \in [active : BOOLEAN, ee : BOOLEAN]
      BY <3>1
    <3>3. ee' \in BOOLEAN
      BY <1>2, <3>1
    <3>4. CASE irql < CLOCK2_LEVEL
      <4>1. (irql < CLOCK2_LEVEL) = TRUE /\ ee' = TRUE
        BY <1>2, <3>1, <3>4, Zenon
      <4>. QED BY <3>2, <4>1, Zenon
    <3>5. CASE ~ (irql < CLOCK2_LEVEL)
      <4>1. (irql < CLOCK2_LEVEL) = FALSE /\ ee' = FALSE
        BY <1>2, <3>1, <3>3, <3>5, Zenon
      <4>. QED BY <3>2, <4>1, Zenon
    <3>. QED BY <3>4, <3>5
  <2>. QED BY <2>1, <2>2
<1>4. TypeOK'
  BY <1>1, <1>3 DEF IInv, TypeOK
<1>5. EnableMatchesLevel' /\ (polled'.active => polled'.ee = (irql' < CLOCK2_LEVEL))
  BY <1>1, <1>3, Zenon DEF EnableMatchesLevel
<1>6. Ordered(stack', irql') /\ Removals(stack', registered')
  BY <1>1 DEF IInv
<1>7. MaskIsSound' /\ MaskIsComplete'
  BY <1>1 DEF IInv, MaskIsSound, MaskIsComplete, HalpIrqlToMask
<1>. QED BY <1>4, <1>5, <1>6, <1>7 DEF IInv

\* Every step of the HAL and of the kernel keeps the invariant.
LEMMA NextIInv == IInv /\ [Next]_vars => IInv'
<1>. SUFFICES ASSUME IInv, [Next]_vars PROVE IInv'
  OBVIOUS
<1>. USE DEF IInv, TypeOK
<1>1. ASSUME NEW s \in Sources, RaiseLine(s) PROVE IInv'
  BY <1>1, LatchKeepsIInv DEF RaiseLine
<1>2. ASSUME NEW new \in RaiseLevels, KeRaiseIrql(new) PROVE IInv'
  BY ONLY IInv, <1>2, RaiseKeepsIInv
<1>3. CASE KeLowerIrql
  BY ONLY IInv, <1>3, ReturnKeepsIInv DEF KeLowerIrql, TopIs
<1>4. CASE DpcReturn
  BY ONLY IInv, <1>4, ReturnKeepsIInv DEF DpcReturn, TopIs
<1>5. CASE QueueDpc
  BY <1>5 DEF QueueDpc, EnableMatchesLevel, MaskIsSound, MaskIsComplete, HalpIrqlToMask
<1>6. ASSUME NEW s \in Sources, HalEnableSystemInterrupt(s) PROVE IInv'
  <2>1. /\ registered' = registered \cup {s} /\ latch' = latch \ {s}
        /\ ArriveAt(irql, stack, registered \cup {s})
        /\ InThread /\ ~ polled.active /\ UNCHANGED <<connected, polled>>
    BY <1>6 DEF HalEnableSystemInterrupt
  <2>2. registered' \in SUBSET Sources /\ latch' \in SUBSET Sources
    BY <2>1
  <2>3. ArriveAt(irql, stack, registered')
    BY ONLY <2>1, Zenon
  <2>. QED BY ONLY IInv, <2>1, <2>2, <2>3, RegistrationKeepsIInv
<1>7. ASSUME NEW s \in Sources, HalDisableSystemInterrupt(s) PROVE IInv'
  <2>1. /\ registered' = registered \ {s} /\ latch' = latch
        /\ ArriveAt(irql, stack, registered \ {s})
        /\ InThread /\ ~ polled.active /\ UNCHANGED <<connected, polled>>
    BY <1>7 DEF HalDisableSystemInterrupt
  <2>2. registered' \in SUBSET Sources /\ latch' \in SUBSET Sources
    BY <2>1
  <2>3. ArriveAt(irql, stack, registered')
    BY ONLY <2>1, Zenon
  <2>. QED BY ONLY IInv, <2>1, <2>2, <2>3, RegistrationKeepsIInv
<1>8. ASSUME NEW on \in BOOLEAN, HalPxiAdbAutopoll(on) PROVE IInv'
  <2>1. /\ registered' \in {registered \cup {GC_IRQ_VIA1}, registered \ {GC_IRQ_VIA1}}
        /\ GC_IRQ_VIA1 \in Sources
        /\ ArriveAt(irql, stack, registered')
        /\ InThread /\ ~ polled.active /\ UNCHANGED <<latch, connected, polled>>
    BY <1>8 DEF HalPxiAdbAutopoll
  <2>2. registered' \in SUBSET Sources /\ latch' \in SUBSET Sources
    BY <2>1
  <2>. QED BY ONLY IInv, <2>1, <2>2, RegistrationKeepsIInv
<1>9. ASSUME NEW s \in Sources, KiConnectVector(s) PROVE IInv'
  <2>1. connected' \in SUBSET Sources /\ latch' \in SUBSET Sources
    BY <1>9 DEF KiConnectVector
  <2>2. UNCHANGED <<irql, ee, gcMask, registered, softint, polled, stack>>
    BY <1>9 DEF KiConnectVector
  <2>. QED BY ONLY IInv, <2>1, <2>2, LatchKeepsIInv
<1>10. CASE PolledBegin \/ PolledEnd
  BY ONLY IInv, <1>10, PolledKeepsIInv
<1>11. CASE ExternalInterrupt
  BY ONLY IInv, <1>11, ExternalKeepsIInv
<1>12. CASE SpuriousInterrupt
  <2>1. latch' \in SUBSET Sources /\ connected' \in SUBSET Sources
    BY <1>12 DEF SpuriousInterrupt
  <2>2. UNCHANGED <<irql, ee, gcMask, registered, softint, polled, stack>>
    BY <1>12 DEF SpuriousInterrupt
  <2>. QED BY ONLY IInv, <2>1, <2>2, LatchKeepsIInv
<1>13. CASE LoadRegistered
  BY ONLY IInv, <1>13, LoadKeepsIInv
<1>14. CASE StoreRegistered
  BY ONLY IInv, <1>14, StoreKeepsIInv
<1>15. CASE ExternalReturn
  BY ONLY IInv, <1>15, ReturnKeepsIInv DEF ExternalReturn, TopIs
<1>16. CASE DecrementerInterrupt
  BY ONLY IInv, <1>16, DecrementerKeepsIInv
<1>17. CASE DecrementerReturn
  BY ONLY IInv, <1>17, ReturnKeepsIInv DEF DecrementerReturn, TopIs
<1>18. CASE UNCHANGED vars
  BY <1>18 DEF vars, EnableMatchesLevel, MaskIsSound, MaskIsComplete, HalpIrqlToMask
<1>. QED BY ONLY [Next]_vars, <1>1, <1>2, <1>3, <1>4, <1>5, <1>6, <1>7, <1>8, <1>9, <1>10, <1>11,
       <1>12, <1>13, <1>14, <1>15, <1>16, <1>17, <1>18 DEF Next, Software, Handlers

-----------------------------------------------------------------------------
(* What the invariant says of the stack. *)

\* A well-ordered stack has rising levels, and each frame saved a level
\* below its own.
LEMMA OrderedGivesLevels ==
  ASSUME NEW stk \in Seq(Frame), NEW level \in Irqls, Ordered(stk, level)
  PROVE  /\ \A i \in 1 .. Len(stk) : stk[i].saved < level
         /\ \A i, j \in 1 .. Len(stk) : i < j => stk[i].saved < stk[j].saved
<1>1. \A i \in 1 .. Len(stk) :
        /\ FrameLevel(stk[i]) \in Int /\ stk[i].saved \in Int
        /\ stk[i].saved < FrameLevel(stk[i]) /\ FrameLevel(stk[i]) <= level
  <2>. SUFFICES ASSUME NEW i \in 1 .. Len(stk)
                PROVE  /\ FrameLevel(stk[i]) \in Int /\ stk[i].saved \in Int
                       /\ stk[i].saved < FrameLevel(stk[i]) /\ FrameLevel(stk[i]) <= level
    OBVIOUS
  <2>1. stk[i] \in Frame
    BY ElementOfSeq
  <2>2. /\ stk[i].kind \in External => stk[i].src \in Sources
        /\ stk[i].saved < FrameLevel(stk[i]) /\ FrameLevel(stk[i]) <= level
    BY DEF Ordered
  <2>. QED BY <2>1, <2>2, FrameLevelIsInt
<1>2. \A i, j \in 1 .. Len(stk) : i < j => FrameLevel(stk[i]) <= stk[j].saved
  BY DEF Ordered
<1>3. level \in Int
  BY LevelsAreInts
<1>. QED BY <1>1, <1>2, <1>3

\* The invariant gives the order in which levels are restored.
LEMMA IInvSavedLevels == IInv => SavedLevelsClimb
  BY OrderedGivesLevels DEF IInv, TypeOK, SavedLevelsClimb

\* The invariant gives the nesting of handlers by level.
LEMMA IInvNested == IInv => NestedByPriority
<1>. SUFFICES ASSUME IInv, NEW i \in 1 .. Len(stack), NEW j \in 1 .. Len(stack), i < j,
                     stack[i].kind \in External, stack[j].kind \in External
              PROVE  HalpInterruptToIrql[stack[i].src] < HalpInterruptToIrql[stack[j].src]
  BY DEF NestedByPriority
<1>1. /\ stack[i].src \in Sources /\ stack[j].src \in Sources
      /\ FrameLevel(stack[i]) <= stack[j].saved
      /\ stack[j].saved < FrameLevel(stack[j])
  BY DEF IInv, Ordered
<1>2. stack[i] \in Frame /\ stack[j] \in Frame
  BY ElementOfSeq DEF IInv, TypeOK
<1>3. /\ FrameLevel(stack[i]) = HalpInterruptToIrql[stack[i].src]
      /\ FrameLevel(stack[j]) = HalpInterruptToIrql[stack[j].src]
  BY DEF FrameLevel
<1>4. FrameLevel(stack[i]) \in Int /\ stack[j].saved \in Int /\ FrameLevel(stack[j]) \in Int
  BY <1>1, <1>2, FrameLevelIsInt
<1>. QED BY <1>1, <1>3, <1>4

\* The invariant keeps DPCs below every handler.
LEMMA IInvDpc == IInv => DpcUnderHandlers
<1>. SUFFICES ASSUME IInv, NEW i \in 1 .. Len(stack), NEW j \in 1 .. Len(stack), i < j,
                     stack[i].kind \in External \cup {"clock"}, stack[j].kind = "dpc"
              PROVE  FALSE
  BY DEF DpcUnderHandlers
<1>1. /\ stack[i].kind \in External => stack[i].src \in Sources
      /\ FrameLevel(stack[i]) <= stack[j].saved
      /\ stack[j].saved < FrameLevel(stack[j])
  BY DEF IInv, Ordered
<1>2. stack[i] \in Frame /\ stack[j] \in Frame
  BY ElementOfSeq DEF IInv, TypeOK
<1>3. FrameLevel(stack[j]) = 2
  BY DEF FrameLevel, External, DISPATCH_LEVEL
<1>4. FrameLevel(stack[i]) \in 12 .. 28
  <2>1. CASE stack[i].kind \in External
    <3>1. HalpInterruptToIrql[stack[i].src] \in 12 .. 27
      BY <1>1, <2>1, DeviceLevels
    <3>. QED BY <2>1, <3>1 DEF FrameLevel
  <2>2. CASE stack[i].kind = "clock"
    BY <2>2 DEF FrameLevel, External, CLOCK2_LEVEL
  <2>. QED BY <2>1, <2>2
<1>5. stack[j].saved \in Int
  BY <1>2, FrameFields, LevelsAreInts
<1>. QED BY <1>1, <1>3, <1>4, <1>5

\* Only the entry of the external handler pushes a frame of its kinds.
LEMMA StepOutranks ==
  ASSUME IInv, [Next]_vars, Len(stack') = Len(stack) + 1, stack'[Len(stack')].kind \in External
  PROVE  irql' > irql
<1>1. CASE ExternalInterrupt
  <2>1. latch \cap gcMask # {}
    BY <1>1 DEF ExternalInterrupt, ClearedFor
  <2>2. PICK s : s = Preferred(latch \cap gcMask)
    OBVIOUS
  <2>3. irql < HalpInterruptToIrql[s] /\ EntryLevel(s) = HalpInterruptToIrql[s] /\ s \in Sources
    BY <2>1, <2>2, ServedOutranks
  <2>4. irql' = EntryLevel(s)
    BY <1>1, <2>2 DEF ExternalInterrupt, ClearedFor
  <2>. QED BY <2>3, <2>4
<1>2. CASE \E f : stack' = Append(stack, f) /\ f.kind \notin External
  <2>1. PICK f : stack' = Append(stack, f) /\ f.kind \notin External
    BY <1>2
  <2>2. Len(stack) \in Nat /\ DOMAIN stack = 1 .. Len(stack)
    BY LenProperties DEF IInv, TypeOK
  <2>3. stack'[Len(stack) + 1] = f
    BY <2>1, <2>2
  <2>. QED BY <2>1, <2>3
<1>3. CASE Len(stack') \in Int /\ Len(stack') <= Len(stack)
  <2>1. Len(stack) \in Nat
    BY LenProperties DEF IInv, TypeOK
  <2>. QED BY <1>3, <2>1
<1>4. CASE UNCHANGED stack
  BY <1>3, <1>4, LenProperties DEF IInv, TypeOK
<1>5. ASSUME NEW level, ArriveAt(level, stack, registered') PROVE irql' > irql
  <2>1. CASE stack' = stack
    BY <1>4, <2>1
  <2>2. CASE stack' = Append(stack, PlainFrame("dpc", level))
    BY <1>2, <2>2 DEF PlainFrame, External
  <2>. QED BY <1>5, <2>1, <2>2 DEF ArriveAt, Dispatches, EnabledAt
<1>6. ASSUME stack # <<>>, ArriveAt(Top.saved, Rest, registered) PROVE irql' > irql
  <2>1. /\ Rest \in Seq(Frame)
        /\ Len(Rest) = Len(stack) - 1
        /\ Len(stack) \in Nat
    <3>1. PICK n : n = Len(stack)
      OBVIOUS
    <3>2. PICK rest : rest = SubSeq(stack, 1, n - 1)
      OBVIOUS
    <3>3. rest \in Seq(Frame) /\ Len(rest) = n - 1 /\ n \in Nat
      BY <1>6, <3>1, <3>2, PopSeq DEF IInv, TypeOK
    <3>. QED BY <3>1, <3>2, <3>3 DEF Rest
  <2>2. CASE stack' = Rest
    BY <1>3, <2>1, <2>2
  <2>3. CASE stack' = Append(Rest, PlainFrame("dpc", Top.saved))
    <3>1. Len(stack') = Len(stack)
      BY <2>1, <2>3, LenProperties
    <3>. QED BY <1>3, <2>1, <3>1
  <2>. QED BY <1>6, <2>2, <2>3 DEF ArriveAt, Dispatches, EnabledAt
<1>7. CASE \E s \in Sources : RaiseLine(s)
  BY <1>4, <1>7 DEF RaiseLine
<1>8. CASE \E new \in RaiseLevels : KeRaiseIrql(new)
  <2>1. stack' = Append(stack, PlainFrame("raise", irql))
    BY <1>8 DEF KeRaiseIrql, EnabledAt
  <2>. QED BY <1>2, <2>1 DEF PlainFrame, External
<1>9. CASE KeLowerIrql \/ DpcReturn \/ ExternalReturn \/ DecrementerReturn
  BY <1>6, <1>9 DEF KeLowerIrql, DpcReturn, ExternalReturn, DecrementerReturn, TopIs
<1>10. CASE QueueDpc \/ PolledBegin \/ PolledEnd \/ SpuriousInterrupt
  BY <1>4, <1>10 DEF QueueDpc, PolledBegin, PolledEnd, SpuriousInterrupt
<1>11. ASSUME NEW s \in Sources, HalEnableSystemInterrupt(s) PROVE irql' > irql
  <2>1. ArriveAt(irql, stack, registered')
    BY <1>11, Zenon DEF HalEnableSystemInterrupt
  <2>. QED BY <1>5, <2>1
<1>12. ASSUME NEW s \in Sources, HalDisableSystemInterrupt(s) PROVE irql' > irql
  <2>1. ArriveAt(irql, stack, registered')
    BY <1>12, Zenon DEF HalDisableSystemInterrupt
  <2>. QED BY <1>5, <2>1
<1>13. ASSUME NEW on \in BOOLEAN, HalPxiAdbAutopoll(on) PROVE irql' > irql
  <2>1. ArriveAt(irql, stack, registered')
    BY <1>13, Zenon DEF HalPxiAdbAutopoll
  <2>. QED BY <1>5, <2>1
<1>14. CASE \E s \in Sources : KiConnectVector(s)
  BY <1>4, <1>14 DEF KiConnectVector
<1>15. CASE LoadRegistered
  <2>1. Len(stack') = Len(stack) /\ Len(stack) \in Nat
    BY <1>15, LenProperties DEF LoadRegistered, SetTop, IInv, TypeOK
  <2>. QED BY <1>3, <2>1
<1>16. CASE StoreRegistered
  <2>1. Len(stack') = Len(stack) /\ Len(stack) \in Nat
    BY <1>16, LenProperties DEF StoreRegistered, SetTop, IInv, TypeOK
  <2>. QED BY <1>3, <2>1
<1>17. CASE DecrementerInterrupt
  <2>1. stack' = Append(stack, PlainFrame("clock", irql))
    BY <1>17 DEF DecrementerInterrupt
  <2>. QED BY <1>2, <2>1 DEF PlainFrame, External
<1>18. CASE UNCHANGED vars
  BY <1>4, <1>18 DEF vars
<1>. QED BY ONLY [Next]_vars, <1>1, <1>7, <1>8, <1>9, <1>10, <1>11, <1>12, <1>13, <1>14, <1>15, <1>16,
       <1>17, <1>18 DEF Next, Software, Handlers

-----------------------------------------------------------------------------
(* Theorems. *)

\* The inductive invariant holds in every state of every run: levels,
\* mask, enable bit and stack agree, whatever the sources.
THEOREM Invariant == Spec => []IInv
<1>1. Init => IInv
  BY InitIInv
<1>2. IInv /\ [Next]_vars => IInv'
  BY NextIInv
<1>. QED BY <1>1, <1>2, PTL DEF Spec

\* The state always has the types the code gives it.
THEOREM TypeCorrect == Spec => []TypeOK
<1>1. IInv => TypeOK
  BY DEF IInv
<1>. QED BY <1>1, Invariant, PTL

\* MSR[EE] is on exactly below the clock's level, outside polled transfers.
THEOREM EnableCorrect == Spec => []EnableMatchesLevel
<1>1. IInv => EnableMatchesLevel
  BY DEF IInv
<1>. QED BY <1>1, Invariant, PTL

\* The controller's mask never opens a source the level excludes, nor one
\* that is not registered, in spite of the race on HalpRegisteredInterrupts,
\* and it keeps out no other.
THEOREM MaskCorrect == Spec => []MaskMatchesLevel
<1>1. IInv => MaskMatchesLevel
  BY DEF IInv, MaskMatchesLevel
<1>. QED BY <1>1, Invariant, PTL

\* Unwinding the control stack only ever lowers the IRQL, and handlers nest by
\* strictly increasing priority; none re-enters itself.
THEOREM HandlersNest == Spec => []StackNests
<1>1. IInv => StackNests
  BY IInvSavedLevels, IInvNested DEF StackNests
<1>. QED BY <1>1, Invariant, PTL

\* No DPC preempts an interrupt handler.
THEOREM DpcsWait == Spec => []DpcUnderHandlers
<1>. QED BY IInvDpc, Invariant, PTL

\* The case that "should not happen" in HalpExternalInterrupt does not.
THEOREM EntryCorrect == Spec => EntryOutranks
<1>1. IInv /\ [Next]_vars
        => [Len(stack') = Len(stack) + 1 /\ stack'[Len(stack')].kind \in External
              => irql' > irql]_vars
  BY StepOutranks
<1>. QED BY <1>1, Invariant, PTL DEF Spec, EntryOutranks
=============================================================================
