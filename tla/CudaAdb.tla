------------------------------ MODULE CudaAdb -------------------------------
(***************************************************************************)
(* src/src/cuda.c: the ADB packet ring between the VIA interrupt            *)
(* (HalpCudaService) and the DPC (HalpAdbDpcRoutine), and the polled        *)
(* requests of HalPxiCommandAdb, HalPxiAdbAutopoll and the clock calls.     *)
(*                                                                         *)
(* Three pieces of code share one processor: a thread, the DPC that         *)
(* preempts it and the VIA handler that preempts both.  A request runs with *)
(* MSR[EE] clear, so neither preempts it; Cuda acts at any time.            *)
(*                                                                         *)
(* VIA1 is taken to be the only source: a spurious interrupt of another,    *)
(* which clears what is latched and masked (ints.c:146-149), is not here.   *)
(***************************************************************************)
EXTENDS Integers, Sequences

CONSTANTS
  AdbRing,              \* ADB_RING, the number of slots and the drain's bound
  Keys,                 \* auto-polled ADB packets
  Reply,                \* the answer to an ADB command
  Tick,                 \* a packet HalpCudaService has no use for
  NoPacket,
  MaxPackets,           \* bound on the packets Cuda presents
  MaxRequests           \* bound on the requests of the thread

AdbPackets == Keys \cup {Reply}
AllPackets == AdbPackets \cup {Tick}

ASSUME CudaAdbAssumption ==
  /\ AdbRing \in Nat /\ AdbRing >= 2
  /\ MaxPackets \in Nat /\ MaxRequests \in Nat
  /\ NoPacket \notin AllPackets
  /\ Tick \notin AdbPackets

VARIABLES
  presented,   \* the packet Cuda holds out: VIA_IFR says a byte is ready
  polling,     \* Cuda auto-polls the bus
  sent,        \* packets presented so far
  ier,         \* VIA_IER enables the shift-register interrupt
  edge,        \* Grand Central latched VIA1
  registered,  \* VIA1 is in HalpRegisteredInterrupts
  ready,       \* HalpCudaReady
  callback,    \* HalpAdbCallback is set
  mask,        \* HalpAdbAutopollMask # 0
  dpcReady,    \* HalpAdbDpcReady
  dpcQueued,   \* the DPC is in the kernel's queue
  ring,        \* HalpAdbRing
  head, tail,  \* HalpAdbRingHead, HalpAdbRingTail
  dropped,     \* HalpAdbDropped
  handler,     \* HalpCudaService
  dpc,         \* HalpAdbDpcRoutine
  thread,      \* the caller of the requests
  requests     \* requests made so far

cudaVars  == <<presented, polling, sent>>
viaVars   == <<ier, edge, registered>>
setupVars == <<ready, callback, mask, dpcReady>>
ringVars  == <<ring, head, tail, dropped>>
vars == <<cudaVars, viaVars, setupVars, dpcQueued, ringVars, handler, dpc, thread, requests>>

Idle == [at |-> "idle", guard |-> 0, queued |-> FALSE]

\* HalpCudaRequest holds MSR[EE] clear, and HalpCudaBusy set, all through.
Requesting == thread.at = "request"
ThreadRuns == handler.at = "idle" /\ dpc = "idle"

-----------------------------------------------------------------------------
Init ==
  /\ presented = NoPacket /\ polling = FALSE /\ sent = 0
  /\ ier = FALSE /\ edge = FALSE /\ registered = FALSE
  /\ ready = FALSE /\ callback = FALSE /\ mask = FALSE /\ dpcReady = FALSE
  /\ dpcQueued = FALSE
  /\ ring = [i \in 0 .. AdbRing - 1 |-> NoPacket]
  /\ head = 0 /\ tail = 0 /\ dropped = 0
  /\ handler = Idle
  /\ dpc = "idle"
  /\ thread = [at |-> "idle", op |-> "none", on |-> FALSE]
  /\ requests = 0

\* Mutant: Grand Central is cleared when the handler is done, and not before.
EdgeLatchedOutside == ier /\ handler.at = "idle"

\* The VIA's line rises, if enabled, and Grand Central latches the edge, while
\* the handler for it runs too: its event was cleared before the handler was
\* entered (ints.c:161).
EdgeLatched == ier

\* Cuda holds out a packet.
Present(p) ==
  /\ presented = NoPacket
  /\ sent < MaxPackets
  /\ p = Tick \/ (p \in Keys /\ polling) \/ (p = Reply /\ Requesting)
  /\ presented' = p
  /\ sent' = sent + 1
  /\ edge' = (edge \/ EdgeLatched)
  /\ UNCHANGED <<polling, ier, registered, setupVars, dpcQueued, ringVars, handler, dpc, thread, requests>>

-----------------------------------------------------------------------------
(* The VIA handler. *)

\* HalpExternalInterrupt clears the latch, then calls HalpCudaService.
EnterService ==
  /\ edge /\ registered
  /\ handler.at = "idle" /\ ~Requesting
  /\ edge' = FALSE
  /\ handler' = IF ready THEN [Idle EXCEPT !.at = "drain"] ELSE Idle
  /\ UNCHANGED <<cudaVars, ier, registered, setupVars, dpcQueued, ringVars, dpc, thread, requests>>

\* Mutant: the packet is stored in the slot after the tail.
SlotToFillNext == (tail + 1) % AdbRing

SlotToFill == tail

\* One ADB packet goes to the ring, or is dropped.
ParkOrDrop(p) ==
  LET next == (tail + 1) % AdbRing
  IN  IF next = head
        THEN /\ dropped' = dropped + 1
             /\ handler' = [handler EXCEPT !.guard = @ + 1]
             /\ UNCHANGED <<ring, head, tail>>
        ELSE /\ ring' = [ring EXCEPT ![SlotToFill] = p]
             /\ tail' = next
             /\ handler' = [at |-> "drain", guard |-> handler.guard + 1, queued |-> TRUE]
             /\ UNCHANGED <<head, dropped>>

\* One turn of the drain loop.  The further bytes of the packet may latch
\* events of their own.
Drain ==
  /\ handler.at = "drain"
  /\ handler.guard < AdbRing /\ presented # NoPacket
  /\ presented' = NoPacket
  /\ edge' \in {edge, TRUE}
  /\ IF presented \in AdbPackets
       THEN ParkOrDrop(presented)
       ELSE /\ handler' = [handler EXCEPT !.guard = @ + 1]
            /\ UNCHANGED ringVars
  /\ UNCHANGED <<polling, sent, ier, registered, setupVars, dpcQueued, dpc, thread, requests>>

\* Mutant: the DPC is not queued while it still runs.
QueuesDpcQuiet == handler.queued /\ dpcReady /\ dpc = "idle"

QueuesDpc == handler.queued /\ dpcReady

LeaveService ==
  /\ handler.at = "drain"
  /\ handler.guard = AdbRing \/ presented = NoPacket
  /\ dpcQueued' = (dpcQueued \/ QueuesDpc)
  /\ handler' = Idle
  /\ UNCHANGED <<cudaVars, viaVars, setupVars, ringVars, dpc, thread, requests>>

-----------------------------------------------------------------------------
(* The DPC. *)

\* The kernel takes the DPC off its queue and calls HalpAdbDpcRoutine.
DpcStart ==
  /\ dpcQueued
  /\ ThreadRuns /\ ~Requesting
  /\ dpcQueued' = FALSE
  /\ dpc' = "test"
  /\ UNCHANGED <<cudaVars, viaVars, setupVars, ringVars, handler, thread, requests>>

\* while (Head != Tail): HalpAdbDeliver the packet at Head, or leave.
DpcTest ==
  /\ dpc = "test" /\ handler.at = "idle"
  /\ dpc' = IF head # tail THEN "deliver" ELSE "return"
  /\ UNCHANGED <<cudaVars, viaVars, setupVars, dpcQueued, ringVars, handler, thread, requests>>

\* The handler may park a packet between the last test and the return.
DpcReturn ==
  /\ dpc = "return" /\ handler.at = "idle"
  /\ dpc' = "idle"
  /\ UNCHANGED <<cudaVars, viaVars, setupVars, dpcQueued, ringVars, handler, thread, requests>>

\* Mutant: the head is not wrapped.
AfterHeadUnwrapped == head + 1

AfterHead == (head + 1) % AdbRing

\* The callback returns, and only then is the slot given back.
DpcAdvance ==
  /\ dpc = "deliver" /\ handler.at = "idle"
  /\ head' = AfterHead
  /\ dpc' = "test"
  /\ UNCHANGED <<cudaVars, viaVars, setupVars, dpcQueued, ring, tail, dropped, handler, thread, requests>>

-----------------------------------------------------------------------------
(* The thread. *)

HalpCudaInitialize ==
  /\ ThreadRuns /\ thread.at = "idle"
  /\ ~ready
  /\ ready' = TRUE
  /\ ier' = FALSE
  /\ presented' = NoPacket
  /\ UNCHANGED <<polling, sent, edge, registered, callback, mask, dpcReady, dpcQueued, ringVars,
                 handler, dpc, thread, requests>>

HalPxiAdbSetCallback ==
  /\ ThreadRuns /\ thread.at = "idle"
  /\ ~callback
  /\ callback' = TRUE
  /\ UNCHANGED <<cudaVars, viaVars, ready, mask, dpcReady, dpcQueued, ringVars, handler, dpc, thread, requests>>

BeginRequest(op, on) ==
  /\ ThreadRuns /\ thread.at = "idle"
  /\ ready
  /\ requests < MaxRequests
  /\ requests' = requests + 1
  /\ thread' = [at |-> "request", op |-> op, on |-> on]
  /\ UNCHANGED <<cudaVars, viaVars, dpcQueued, ringVars, handler, dpc>>

\* HalPxiCommandAdb; HalpCudaGetTime, HalpCudaSetTime and HalpCudaResetSystem.
HalPxiCommandAdb == BeginRequest("command", FALSE) /\ UNCHANGED setupVars
PseudoRequest    == BeginRequest("pseudo", FALSE) /\ UNCHANGED setupVars

HalPxiAdbAutopoll(on) ==
  /\ mask # on
  /\ mask' = on
  /\ dpcReady' = TRUE
  /\ BeginRequest("autopoll", on)
  /\ UNCHANGED <<ready, callback>>

\* HalpCudaRequest ends.  Cuda took the request or not; ReadPacket took the
\* packet Cuda held out, be it the answer, a packet that was there first, or
\* nothing in time.  Only an ADB packet that echoes the command is delivered.
EndRequest ==
  /\ Requesting
  /\ \E taken \in BOOLEAN :
       polling' = IF taken /\ thread.op = "autopoll" THEN thread.on ELSE polling
  /\ presented' = NoPacket
  /\ \E matches \in BOOLEAN :
       thread' = [thread EXCEPT !.at =
                    CASE thread.op = "autopoll" -> "arm"
                      [] thread.op = "command" /\ presented \in AdbPackets /\ matches -> "deliver"
                      [] OTHER -> "idle"]
  /\ UNCHANGED <<sent, viaVars, setupVars, dpcQueued, ringVars, handler, dpc, requests>>

\* HalpAdbDeliver, called at the thread's own IRQL, returns.
EndDelivery ==
  /\ ThreadRuns /\ thread.at = "deliver"
  /\ thread' = [thread EXCEPT !.at = "idle"]
  /\ UNCHANGED <<cudaVars, viaVars, setupVars, dpcQueued, ringVars, handler, dpc, requests>>

\* The rest of HalPxiAdbAutopoll, at HIGH_LEVEL: the VIA's enable, then Grand
\* Central's mask.  Enabling with a packet held out raises the line.
ArmAutopoll ==
  /\ ThreadRuns /\ thread.at = "arm"
  /\ ier' = thread.on
  /\ registered' = thread.on
  /\ edge' = (edge \/ (thread.on /\ ~ier /\ presented # NoPacket))
  /\ thread' = [thread EXCEPT !.at = "idle"]
  /\ UNCHANGED <<cudaVars, setupVars, dpcQueued, ringVars, handler, dpc, requests>>

-----------------------------------------------------------------------------
Handler == EnterService \/ Drain \/ LeaveService
Dpc     == DpcStart \/ DpcTest \/ DpcReturn \/ DpcAdvance
Thread  ==
  \/ HalpCudaInitialize
  \/ HalPxiAdbSetCallback
  \/ HalPxiCommandAdb
  \/ PseudoRequest
  \/ \E on \in BOOLEAN : HalPxiAdbAutopoll(on)
  \/ EndRequest
  \/ EndDelivery
  \/ ArmAutopoll

Next == (\E p \in AllPackets : Present(p)) \/ Handler \/ Dpc \/ Thread

Spec == Init /\ [][Next]_vars

\* The processor keeps running what it has begun: interrupts that are taken
\* return, a queued DPC is dispatched, and code that is not preempted goes on.
Fairness ==
  /\ WF_vars(Handler)
  /\ WF_vars(Dpc)
  /\ WF_vars(EndRequest \/ EndDelivery \/ ArmAutopoll)

FairSpec == Spec /\ Fairness

-----------------------------------------------------------------------------
(* Properties. *)

FlagsOK ==
  /\ polling \in BOOLEAN /\ ier \in BOOLEAN /\ edge \in BOOLEAN /\ registered \in BOOLEAN
  /\ ready \in BOOLEAN /\ callback \in BOOLEAN /\ mask \in BOOLEAN
  /\ dpcReady \in BOOLEAN /\ dpcQueued \in BOOLEAN

DataOK ==
  /\ presented \in AllPackets \cup {NoPacket}
  /\ sent \in 0 .. MaxPackets /\ requests \in 0 .. MaxRequests /\ dropped \in Nat
  /\ ring \in [0 .. AdbRing - 1 -> AdbPackets \cup {NoPacket}]
  /\ head \in 0 .. AdbRing - 1 /\ tail \in 0 .. AdbRing - 1
  /\ handler \in [at : {"idle", "drain"}, guard : 0 .. AdbRing, queued : BOOLEAN]
  /\ dpc \in {"idle", "test", "deliver", "return"}
  /\ thread \in [at : {"idle", "request", "arm", "deliver"},
                 op : {"none", "command", "pseudo", "autopoll"}, on : BOOLEAN]

TypeOK == FlagsOK /\ DataOK

\* The ring is a first-in first-out queue of ADB_RING - 1 packets: none is
\* overwritten, reordered, or changed under the callback (cuda.c:95-99).
Occupied == (tail - head) % AdbRing
Fifo == INSTANCE PacketFifo WITH
  Packets    <- AdbPackets,
  Capacity   <- AdbRing - 1,
  parked     <- [k \in 1 .. Occupied |-> ring[(head + k - 1) % AdbRing]],
  delivering <- dpc = "deliver",
  refused    <- dropped
RingIsFifo == Fifo!FifoSpec

\* No lost wakeup: while packets are parked, the DPC has yet to test for them,
\* or is queued, or the handler that will queue it has not returned.  A DPC
\* that has made its last test and not yet returned does not count.
ParkedHasDpc ==
  head # tail => dpc \in {"test", "deliver"} \/ dpcQueued \/ (handler.at = "drain" /\ handler.queued)

\* No wedge: when polling is armed and no handler or request is under way, a
\* packet Cuda holds out has its event latched, so that somebody will fetch it
\* (the comment at cuda.c:284-290).
NoWedge ==
  presented # NoPacket /\ ier /\ registered /\ handler.at = "idle" => edge \/ Requesting

\* Every packet parked is handed over, and with polling armed every packet
\* Cuda holds out is fetched.
ParkedIsDelivered == head # tail ~> head = tail
HeldOutIsFetched  == presented # NoPacket /\ ier ~> presented = NoPacket \/ ~ier

\* Input does not stop: neither in Cuda nor in the ring does a packet wait for
\* ever (cuda.c:284-326).
PacketsArrive == ParkedIsDelivered /\ HeldOutIsFetched
=============================================================================
