-------------------------- MODULE MCInterruptsLive --------------------------
(***************************************************************************)
(* Interrupts with a bound on how often the devices raise their lines, for  *)
(* the liveness of the dispatcher: a source that fires for ever may starve  *)
(* the sources below it, so each of them fires finitely often here.         *)
(***************************************************************************)
EXTENDS Interrupts

CONSTANT MaxEdges   \* events the devices raise between them

VARIABLES
  edges,     \* events raised so far
  discarded  \* sources whose event the last step cleared without serving it

liveVars == <<vars, edges, discarded>>

MCSources == {25, 26}
MCRaiseLevels == {HIGH_LEVEL}

LiveInit == Init /\ edges = 0 /\ discarded = {}

\* The two statements that clear an event nobody has served (ints.c:148 and 119).
Discards == SpuriousInterrupt \/ \E s \in Sources : HalEnableSystemInterrupt(s)

LiveNext ==
  \/ /\ edges < MaxEdges
     /\ edges' = edges + 1
     /\ \E s \in Sources : RaiseLine(s)
     /\ discarded' = {}
  \/ /\ Software \/ Handlers
     /\ discarded' = IF Discards THEN latch \ latch' ELSE {}
     /\ UNCHANGED edges

\* A step of the processor that takes no event away.
Goes(step) == step /\ discarded' = {} /\ UNCHANGED edges

\* What runs on the processor goes on running whenever it gets the processor
\* back (ticks may interrupt it again and again: strong fairness), and an
\* interrupt that is again and again acceptable is accepted.  An interrupt with
\* nothing pending may come at any time and need never come.
ProcessorFairness ==
  /\ SF_liveVars(Goes(KeLowerIrql))
  /\ SF_liveVars(Goes(DpcReturn))
  /\ SF_liveVars(Goes(LoadRegistered \/ StoreRegistered \/ ExternalReturn))
  /\ SF_liveVars(Goes(DecrementerReturn))
  /\ WF_liveVars(Goes(PolledEnd))
  /\ SF_liveVars(Goes(ExternalInterrupt))

LiveSpec == LiveInit /\ [][LiveNext]_liveVars /\ ProcessorFairness

Serving(s) == \E i \in 1 .. Len(stack) : stack[i].kind \in External /\ stack[i].src = s

\* An event latched for a registered source leads to its handler being entered
\* (HalpExternalInterrupt serves one source per entry and leaves the others
\* latched), unless the source is unregistered first, or one of two statements
\* throws the event away: the clearing after an interrupt with nothing pending,
\* of whatever the level keeps out at that moment (ints.c:146-149), and the
\* enabling of a source once more (ints.c:119).  Nothing else loses an event, and
\* none waits for ever behind a mask or a busier source.
EventsAreServed ==
  \A s \in Sources :
    (s \in latch /\ s \in registered) ~> (Serving(s) \/ s \notin registered \/ s \in discarded)
=============================================================================
