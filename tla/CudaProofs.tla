----------------------------- MODULE CudaProofs ------------------------------
(***************************************************************************)
(* Theorems about CudaAdb for every length of the ring, every set of        *)
(* packets and any number of them: the lost-wakeup and wedge invariants of  *)
(* the VIA handler and the DPC, and that the ring implements PacketFifo.    *)
(*                                                                         *)
(* And about the handshake over the VIA (CudaVia, as MCKeyboard runs it     *)
(* beside the ring) for every set of commands, every length of a request    *)
(* and of a packet, every CUDA_MAX_REPLY and any number of calls.           *)
(***************************************************************************)
EXTENDS MCKeyboard, SequenceTheorems, TLAPS

(* The ring. *)

\* Autopolling is armed only on a transport that is up and has its DPC.
Armed ==
  /\ ier => registered
  /\ registered => ready /\ dpcReady
  /\ handler.at = "drain" => dpcReady
  /\ thread.at = "arm" => ready /\ dpcReady
  /\ thread.at = "request" => ready
  /\ thread.at = "request" /\ thread.op = "autopoll" => dpcReady

\* What Cuda holds out after the handler has fetched a packet has latched an
\* event of its own: the handler may give up with ADB_RING packets fetched.
DrainLatched ==
  handler.at = "drain" /\ handler.guard > 0 /\ presented # NoPacket /\ ier => edge

\* The packet that is being handed over is in the ring.
DeliversParked == dpc = "deliver" => head # tail

IInv == TypeOK /\ Armed /\ DrainLatched /\ DeliversParked /\ ParkedHasDpc /\ NoWedge

-----------------------------------------------------------------------------
(* Places in the ring. *)

\* One turn around the ring is taken off a place past its end.
LEMMA WrapsUp ==
  ASSUME NEW x \in 0 .. 2 * AdbRing - 1
  PROVE  x % AdbRing = IF x < AdbRing THEN x ELSE x - AdbRing
BY CudaAdbAssumption

\* One is added to a distance below zero.
LEMMA WrapsDown ==
  ASSUME NEW x \in -AdbRing .. -1
  PROVE  x % AdbRing = x + AdbRing
BY CudaAdbAssumption

\* The place after a place, and the distance between two, as the code has them.
LEMMA Places ==
  ASSUME NEW h \in 0 .. AdbRing - 1, NEW t \in 0 .. AdbRing - 1
  PROVE  /\ (h + 1) % AdbRing = IF h + 1 = AdbRing THEN 0 ELSE h + 1
         /\ (h + 1) % AdbRing \in 0 .. AdbRing - 1
         /\ (t - h) % AdbRing = IF t >= h THEN t - h ELSE t - h + AdbRing
<1>1. h + 1 \in 0 .. 2 * AdbRing - 1
  BY CudaAdbAssumption
<1>2. CASE t >= h
  BY <1>1, <1>2, WrapsUp, CudaAdbAssumption
<1>3. CASE t < h
  BY <1>1, <1>3, WrapsUp, WrapsDown, CudaAdbAssumption
<1> QED
  BY <1>2, <1>3

\* Each packet has a type of its own.
LEMMA TypesApart == NoPacket \notin AdbPackets /\ Tick \notin AdbPackets /\ Tick # NoPacket
BY CudaAdbAssumption DEF AllPackets

\* The states of the handler.
Handlers == [at : {"idle", "drain"}, guard : 0 .. AdbRing, queued : BOOLEAN]

\* A packet is refused or parked, and only a parked one asks for the DPC.
LEMMA RefusedOrParked ==
  ASSUME NEW p, ParkOrDrop(p)
  PROVE  \/ /\ (tail + 1) % AdbRing = head
            /\ dropped' = dropped + 1 /\ UNCHANGED <<ring, head, tail>>
            /\ handler' = [handler EXCEPT !.guard = @ + 1]
         \/ /\ (tail + 1) % AdbRing # head
            /\ ring' = [ring EXCEPT ![tail] = p] /\ tail' = (tail + 1) % AdbRing /\ UNCHANGED <<head, dropped>>
            /\ handler' = [at |-> "drain", guard |-> handler.guard + 1, queued |-> TRUE]
BY Zenon DEF ParkOrDrop, SlotToFill

-----------------------------------------------------------------------------
(* The type invariant. *)

(* The initial state has its type. *)
LEMMA InitTypeOK == Init => TypeOK
<1> SUFFICES ASSUME Init PROVE FlagsOK /\ DataOK
  BY DEF TypeOK
<1>1. FlagsOK
  BY DEF Init, FlagsOK
<1>2. DataOK
  BY CudaAdbAssumption DEF Init, DataOK, Idle
<1> QED
  BY <1>1, <1>2

(* Every step keeps the type of the flags and control states. *)
LEMMA NextFlagsOK == TypeOK /\ [Next]_vars => FlagsOK'
<1> SUFFICES ASSUME FlagsOK, thread.on \in BOOLEAN, handler.queued \in BOOLEAN, [Next]_vars PROVE FlagsOK'
  BY DEF TypeOK, DataOK
<1> USE DEF FlagsOK, cudaVars, viaVars, setupVars
<1>1. CASE UNCHANGED vars
  BY <1>1 DEF vars
<1>2. ASSUME NEW p \in AllPackets, Present(p) PROVE FlagsOK'
  BY <1>2 DEF Present, EdgeLatched
<1>3. CASE EnterService
  BY <1>3 DEF EnterService
<1>4. CASE Drain
  BY <1>4 DEF Drain
<1>5. CASE LeaveService
  BY <1>5 DEF LeaveService, QueuesDpc
<1>6. CASE Dpc
  BY <1>6 DEF Dpc, DpcStart, DpcTest, DpcReturn, DpcAdvance
<1>7. CASE HalpCudaInitialize \/ HalPxiAdbSetCallback
  BY <1>7 DEF HalpCudaInitialize, HalPxiAdbSetCallback
<1>8. CASE HalPxiCommandAdb \/ PseudoRequest
  BY <1>8 DEF HalPxiCommandAdb, PseudoRequest, BeginRequest
<1>9. ASSUME NEW on \in BOOLEAN, HalPxiAdbAutopoll(on) PROVE FlagsOK'
  BY <1>9 DEF HalPxiAdbAutopoll, BeginRequest
<1>10. CASE EndRequest
  BY <1>10 DEF EndRequest
<1>11. CASE EndDelivery \/ ArmAutopoll
  BY <1>11 DEF EndDelivery, ArmAutopoll
<1> QED
  BY <1>1, <1>2, <1>3, <1>4, <1>5, <1>6, <1>7, <1>8, <1>9, <1>10, <1>11 DEF Next, Handler, Thread

(* Every step keeps the type of packets, ring and indices. *)
LEMMA NextDataOK == TypeOK /\ [Next]_vars => DataOK'
<1> SUFFICES ASSUME DataOK, dpcReady \in BOOLEAN, [Next]_vars PROVE DataOK'
  BY DEF TypeOK, FlagsOK
<1> USE CudaAdbAssumption DEF DataOK, cudaVars, ringVars
<1>1. CASE UNCHANGED vars
  BY <1>1 DEF vars
<1>2. ASSUME NEW p \in AllPackets, Present(p) PROVE DataOK'
  BY <1>2 DEF Present
<1>3. CASE EnterService
  <2>1. Idle \in [at : {"idle", "drain"}, guard : 0 .. AdbRing, queued : BOOLEAN]
    BY DEF Idle
  <2>2. handler' \in [at : {"idle", "drain"}, guard : 0 .. AdbRing, queued : BOOLEAN]
    BY <1>3, <2>1 DEF EnterService
  <2> QED
    BY <1>3, <2>2 DEF EnterService
<1>4. CASE Drain
  <2>1. handler.guard + 1 \in 0 .. AdbRing
    BY <1>4 DEF Drain
  <2>2. presented' \in AllPackets \cup {NoPacket} /\ UNCHANGED <<sent, requests, dpc, thread>>
    BY <1>4 DEF Drain
  <2>3. [handler EXCEPT !.guard = @ + 1] \in Handlers
    BY <2>1 DEF Handlers
  <2>4. [at |-> "drain", guard |-> handler.guard + 1, queued |-> TRUE] \in Handlers
    BY <2>1 DEF Handlers
  <2>5. CASE presented \in AdbPackets /\ ParkOrDrop(presented)
    <3>1. handler' \in Handlers
      BY <2>3, <2>4, <2>5, RefusedOrParked, Zenon
    <3>2. CASE UNCHANGED <<ring, head, tail>> /\ dropped' = dropped + 1
      BY <2>2, <3>1, <3>2 DEF Handlers
    <3>3. CASE ring' = [ring EXCEPT ![tail] = presented] /\ tail' = (tail + 1) % AdbRing /\ UNCHANGED <<head, dropped>>
      <4>1. tail' \in 0 .. AdbRing - 1
        BY <3>3, Places
      <4>2. ring' \in [0 .. AdbRing - 1 -> AdbPackets \cup {NoPacket}]
        BY <2>5, <3>3
      <4> QED
        BY <2>2, <3>1, <3>3, <4>1, <4>2 DEF Handlers
    <3> QED
      BY <2>5, <3>2, <3>3, RefusedOrParked, Zenon
  <2>6. CASE handler' = [handler EXCEPT !.guard = @ + 1] /\ UNCHANGED ringVars
    BY <2>2, <2>3, <2>6 DEF Handlers
  <2> QED
    BY <1>4, <2>5, <2>6, Zenon DEF Drain
<1>5. CASE LeaveService
  BY <1>5 DEF LeaveService, Idle
<1>6. CASE DpcStart \/ DpcTest \/ DpcReturn
  BY <1>6 DEF DpcStart, DpcTest, DpcReturn
<1>7. CASE DpcAdvance
  BY <1>7, Places DEF DpcAdvance, AfterHead
<1>8. CASE HalpCudaInitialize \/ HalPxiAdbSetCallback
  BY <1>8 DEF HalpCudaInitialize, HalPxiAdbSetCallback
<1>9. ASSUME NEW op \in {"command", "pseudo", "autopoll"}, NEW on \in BOOLEAN, BeginRequest(op, on)
      PROVE  DataOK'
  BY <1>9 DEF BeginRequest
<1>10. CASE HalPxiCommandAdb \/ PseudoRequest \/ \E on \in BOOLEAN : HalPxiAdbAutopoll(on)
  BY <1>10, <1>9, Zenon DEF HalPxiCommandAdb, PseudoRequest, HalPxiAdbAutopoll
<1>11. CASE EndRequest
  BY <1>11 DEF EndRequest
<1>12. CASE EndDelivery \/ ArmAutopoll
  BY <1>12 DEF EndDelivery, ArmAutopoll
<1> QED
  BY <1>1, <1>2, <1>3, <1>4, <1>5, <1>6, <1>7, <1>8, <1>9, <1>10, <1>11, <1>12 DEF Next, Handler, Dpc, Thread

-----------------------------------------------------------------------------
(* The invariant. *)

(* The invariant holds before HalpCudaInitialize has run. *)
LEMMA InitIInv == Init => IInv
<1> SUFFICES ASSUME Init PROVE IInv
  OBVIOUS
<1>1. TypeOK
  BY InitTypeOK
<1>2. Armed /\ DrainLatched
  BY DEF Init, Armed, DrainLatched, Idle
<1>3. DeliversParked /\ ParkedHasDpc /\ NoWedge
  BY DEF Init, ParkedHasDpc, NoWedge, DeliversParked
<1> QED
  BY <1>1, <1>2, <1>3 DEF IInv

(* Every step keeps autopolling tied to an armed VIA. *)
LEMMA NextArmed == IInv /\ [Next]_vars => Armed'
<1> SUFFICES ASSUME FlagsOK, DataOK, Armed, [Next]_vars PROVE Armed'
  BY DEF IInv, TypeOK
<1> USE DEF Armed, FlagsOK, setupVars, viaVars
<1>1. CASE UNCHANGED vars
  BY <1>1 DEF vars
<1>2. ASSUME NEW p \in AllPackets, Present(p) PROVE Armed'
  BY <1>2 DEF Present
<1>3. CASE EnterService
  BY <1>3 DEF EnterService, Idle
<1>4. CASE Drain
  BY <1>4 DEF Drain
<1>5. CASE LeaveService
  BY <1>5 DEF LeaveService, Idle
<1>6. CASE Dpc
  BY <1>6 DEF Dpc, DpcStart, DpcTest, DpcReturn, DpcAdvance
<1>7. CASE HalpCudaInitialize \/ HalPxiAdbSetCallback
  BY <1>7 DEF HalpCudaInitialize, HalPxiAdbSetCallback
<1>8. CASE HalPxiCommandAdb \/ PseudoRequest
  BY <1>8 DEF HalPxiCommandAdb, PseudoRequest, BeginRequest
<1>9. ASSUME NEW on \in BOOLEAN, HalPxiAdbAutopoll(on) PROVE Armed'
  BY <1>9 DEF HalPxiAdbAutopoll, BeginRequest
<1>10. CASE EndRequest
  BY <1>10 DEF EndRequest, Requesting
<1>11. CASE EndDelivery
  BY <1>11 DEF EndDelivery, DataOK
<1>12. CASE ArmAutopoll
  BY <1>12 DEF ArmAutopoll, ThreadRuns, DataOK
<1> QED
  BY <1>1, <1>2, <1>3, <1>4, <1>5, <1>6, <1>7, <1>8, <1>9, <1>10, <1>11, <1>12 DEF Next, Handler, Thread

(* Every step leaves parked packets a DPC that will look at the ring. *)
LEMMA NextParkedHasDpc == IInv /\ [Next]_vars => ParkedHasDpc' /\ DeliversParked'
<1> SUFFICES ASSUME TypeOK, Armed, ParkedHasDpc, DeliversParked, [Next]_vars PROVE ParkedHasDpc' /\ DeliversParked'
  BY DEF IInv
<1> USE DEF ParkedHasDpc, DeliversParked, ringVars
<1>1. CASE UNCHANGED vars
  BY <1>1 DEF vars
<1>2. ASSUME NEW p \in AllPackets, Present(p) PROVE ParkedHasDpc' /\ DeliversParked'
  BY <1>2 DEF Present
<1>3. CASE EnterService
  BY <1>3 DEF EnterService
<1>4. CASE Drain
  BY <1>4 DEF Drain, ParkOrDrop, TypeOK, DataOK
<1>5. CASE LeaveService
  BY <1>5 DEF LeaveService, QueuesDpc, Armed
<1>6. CASE Dpc
  BY <1>6 DEF Dpc, DpcStart, DpcTest, DpcReturn, DpcAdvance
<1>7. CASE HalpCudaInitialize \/ HalPxiAdbSetCallback
  BY <1>7 DEF HalpCudaInitialize, HalPxiAdbSetCallback
<1>8. CASE HalPxiCommandAdb \/ PseudoRequest
  BY <1>8 DEF HalPxiCommandAdb, PseudoRequest, BeginRequest
<1>9. ASSUME NEW on \in BOOLEAN, HalPxiAdbAutopoll(on) PROVE ParkedHasDpc' /\ DeliversParked'
  BY <1>9 DEF HalPxiAdbAutopoll, BeginRequest
<1>10. CASE EndRequest \/ EndDelivery \/ ArmAutopoll
  BY <1>10 DEF EndRequest, EndDelivery, ArmAutopoll
<1> QED
  BY <1>1, <1>2, <1>3, <1>4, <1>5, <1>6, <1>7, <1>8, <1>9, <1>10 DEF Next, Handler, Thread

(* Every step leaves a packet that Cuda holds out its event or a server. *)
LEMMA NextNoWedge == IInv /\ [Next]_vars => NoWedge' /\ DrainLatched'
<1> SUFFICES ASSUME TypeOK, Armed, DrainLatched, NoWedge, [Next]_vars PROVE NoWedge' /\ DrainLatched'
  BY DEF IInv
<1> USE DEF NoWedge, DrainLatched, Requesting, ThreadRuns, cudaVars, viaVars
<1>1. CASE UNCHANGED vars
  BY <1>1 DEF vars
<1>2. ASSUME NEW p \in AllPackets, Present(p) PROVE NoWedge' /\ DrainLatched'
  BY <1>2 DEF Present, EdgeLatched
<1>3. CASE EnterService
  BY <1>3 DEF EnterService, Armed, Idle
<1>4. CASE Drain
  BY <1>4 DEF Drain
<1>5. CASE LeaveService
  BY <1>5, CudaAdbAssumption DEF LeaveService, Idle
<1>6. CASE Dpc
  BY <1>6 DEF Dpc, DpcStart, DpcTest, DpcReturn, DpcAdvance
<1>7. CASE HalpCudaInitialize \/ HalPxiAdbSetCallback
  BY <1>7 DEF HalpCudaInitialize, HalPxiAdbSetCallback
<1>8. CASE HalPxiCommandAdb \/ PseudoRequest
  BY <1>8 DEF HalPxiCommandAdb, PseudoRequest, BeginRequest
<1>9. ASSUME NEW on \in BOOLEAN, HalPxiAdbAutopoll(on) PROVE NoWedge' /\ DrainLatched'
  BY <1>9 DEF HalPxiAdbAutopoll, BeginRequest
<1>10. CASE EndRequest
  BY <1>10 DEF EndRequest
<1>11. CASE EndDelivery
  BY <1>11 DEF EndDelivery
<1>12. CASE ArmAutopoll
  BY <1>12 DEF ArmAutopoll, Armed, TypeOK, FlagsOK
<1> QED
  BY <1>1, <1>2, <1>3, <1>4, <1>5, <1>6, <1>7, <1>8, <1>9, <1>10, <1>11, <1>12 DEF Next, Handler, Thread

(* The invariant is inductive. *)
LEMMA NextIInv == IInv /\ [Next]_vars => IInv'
BY NextFlagsOK, NextDataOK, NextArmed, NextParkedHasDpc, NextNoWedge DEF IInv, TypeOK

(* The inductive invariant holds in every reachable state, for every size
   of the ring and every set of packets. *)
THEOREM RingInvariant == Spec => []IInv
<1>1. Init => IInv
  BY InitIInv
<1>2. IInv /\ [Next]_vars => IInv'
  BY NextIInv
<1> QED
  BY <1>1, <1>2, PTL DEF Spec

\* Every variable keeps its type, however long the ring and however many
\* packets and requests there are (cuda.c:95-110).
THEOREM RingTypeCorrect == Spec => []TypeOK
<1>1. IInv => TypeOK
  BY DEF IInv
<1> QED
  BY <1>1, RingInvariant, PTL

\* No packet is left in the ring without somebody to hand it over
\* (cuda.c:296-326).
THEOREM WakeupsAreKept == Spec => []ParkedHasDpc
<1>1. IInv => ParkedHasDpc
  BY DEF IInv
<1> QED
  BY <1>1, RingInvariant, PTL

\* A packet that Cuda holds out with polling armed has its interrupt latched,
\* so input does not wedge (cuda.c:284-290).
THEOREM InputDoesNotWedge == Spec => []NoWedge
<1>1. IInv => NoWedge
  BY DEF IInv
<1> QED
  BY <1>1, RingInvariant, PTL

-----------------------------------------------------------------------------
(* The ring implements the queue. *)

Slots == AdbPackets \cup {NoPacket}
Wrapped(x) == IF x < AdbRing THEN x ELSE x - AdbRing

\* A place past the end of the ring is a place of the ring.
LEMMA Wraps ==
  ASSUME NEW x \in 0 .. 2 * AdbRing - 1
  PROVE  x % AdbRing = Wrapped(x) /\ x % AdbRing \in 0 .. AdbRing - 1
BY WrapsUp, CudaAdbAssumption DEF Wrapped

\* How many packets lie between two indices; none only if they are equal.
LEMMA OccupiedIs ==
  ASSUME NEW h \in 0 .. AdbRing - 1, NEW t \in 0 .. AdbRing - 1
  PROVE  /\ (t - h) % AdbRing = IF t >= h THEN t - h ELSE t - h + AdbRing
         /\ (t - h) % AdbRing \in 0 .. AdbRing - 1
         /\ (t - h) % AdbRing = 0 <=> h = t
BY Places, CudaAdbAssumption

\* The packets from the head h on, with the tail at t, and how many they are.
Count(h, t) == (t - h) % AdbRing
From(h, t, r) == [k \in 1 .. Count(h, t) |-> r[(h + k - 1) % AdbRing]]

\* The packets between two indices, as a sequence.
LEMMA FromIs ==
  ASSUME NEW h \in 0 .. AdbRing - 1, NEW t \in 0 .. AdbRing - 1, NEW r \in [0 .. AdbRing - 1 -> Slots]
  PROVE  /\ Count(h, t) \in 0 .. AdbRing - 1
         /\ From(h, t, r) \in Seq(Slots) /\ Len(From(h, t, r)) = Count(h, t)
         /\ \A k \in 1 .. Count(h, t) : From(h, t, r)[k] = r[Wrapped(h + k - 1)]
<1> DEFINE n == Count(h, t)
           s == [k \in 1 .. n |-> r[(h + k - 1) % AdbRing]]
<1>1. n \in Nat /\ n \in 0 .. AdbRing - 1
  BY OccupiedIs, CudaAdbAssumption DEF Count
<1> HIDE DEF n
<1>2. ASSUME NEW k \in 1 .. n
      PROVE  (h + k - 1) % AdbRing = Wrapped(h + k - 1) /\ (h + k - 1) % AdbRing \in 0 .. AdbRing - 1
  <2>1. h + k - 1 \in 0 .. 2 * AdbRing - 1
    BY <1>1, CudaAdbAssumption
  <2> QED
    BY <2>1, Wraps, Zenon
<1>3. \A k \in 1 .. n : s[k] = r[Wrapped(h + k - 1)] /\ r[(h + k - 1) % AdbRing] \in Slots
  BY <1>2
<1>4. s \in [1 .. n -> Slots]
  BY <1>3
<1>5. s \in Seq(Slots)
  <2> HIDE DEF s
  <2> QED
    BY <1>1, <1>4, SeqDef
<1>6. Len(s) = n
  BY <1>1, <1>5, LenProperties
<1> QED
  BY <1>1, <1>3, <1>5, <1>6 DEF From, n

\* A packet stored at the tail of a ring that is not full is appended to it
\* (ParkOrDrop, cuda.c:299-311).
LEMMA Parks ==
  ASSUME NEW h \in 0 .. AdbRing - 1, NEW t \in 0 .. AdbRing - 1, NEW r \in [0 .. AdbRing - 1 -> Slots],
         NEW p \in Slots, (t + 1) % AdbRing # h
  PROVE  /\ Len(From(h, t, r)) < AdbRing - 1
         /\ From(h, (t + 1) % AdbRing, [r EXCEPT ![t] = p]) = Append(From(h, t, r), p)
<1> DEFINE n == Count(h, t)
           u == (t + 1) % AdbRing
           q == [r EXCEPT ![t] = p]
           s == From(h, t, r)
           z == From(h, u, q)
<1>1. u \in 0 .. AdbRing - 1 /\ u = IF t + 1 = AdbRing THEN 0 ELSE t + 1
  BY Places
<1>2. q \in [0 .. AdbRing - 1 -> Slots] /\ q[t] = p /\ \A x \in (0 .. AdbRing - 1) \ {t} : q[x] = r[x]
  OBVIOUS
<1>3. n = (IF t >= h THEN t - h ELSE t - h + AdbRing)
  BY OccupiedIs DEF Count
<1>4. s \in Seq(Slots) /\ Len(s) = n /\ \A k \in 1 .. n : s[k] = r[Wrapped(h + k - 1)]
  BY FromIs
<1>5. u # h
  OBVIOUS
<1> HIDE DEF u, q, n
<1>6. Count(h, u) = (IF u >= h THEN u - h ELSE u - h + AdbRing)
  BY <1>1, OccupiedIs DEF Count
<1>7. z \in Seq(Slots) /\ Len(z) = Count(h, u) /\ \A k \in 1 .. Count(h, u) : z[k] = q[Wrapped(h + k - 1)]
  BY <1>1, <1>2, FromIs
<1>8. n \in Nat /\ n < AdbRing - 1 /\ Count(h, u) = n + 1
  BY <1>1, <1>3, <1>5, <1>6, CudaAdbAssumption
<1>9. Wrapped(h + (n + 1) - 1) = t
  BY <1>3, <1>8, CudaAdbAssumption DEF Wrapped
<1>10. ASSUME NEW k \in 1 .. n PROVE Wrapped(h + k - 1) \in (0 .. AdbRing - 1) \ {t}
  BY <1>3, <1>8, CudaAdbAssumption DEF Wrapped
<1> HIDE DEF s, z
<1>11. z = Append(s, p)
  <2>1. Append(s, p) \in Seq(Slots) /\ Len(Append(s, p)) = n + 1
        /\ Append(s, p)[n + 1] = p /\ \A k \in 1 .. n : Append(s, p)[k] = s[k]
    BY <1>4, AppendProperties
  <2>2. z[n + 1] = p
    BY <1>2, <1>7, <1>8, <1>9
  <2>3. ASSUME NEW k \in 1 .. n PROVE z[k] = s[k]
    <3>1. k \in 1 .. Count(h, u)
      BY <1>8
    <3>2. z[k] = q[Wrapped(h + k - 1)] /\ s[k] = r[Wrapped(h + k - 1)]
      BY <3>1, <1>4, <1>7
    <3> QED
      BY <1>2, <1>10, <3>2
  <2>4. \A k \in 1 .. Len(z) : z[k] = Append(s, p)[k]
    BY <1>7, <1>8, <2>1, <2>2, <2>3
  <2> QED
    BY <1>7, <1>8, <2>1, <2>4, SeqEqual
<1> QED
  BY <1>4, <1>8, <1>11 DEF s, z, u, q

\* With one packet less the rest is what remains behind the head.
LEMMA GivesBack ==
  ASSUME NEW h \in 0 .. AdbRing - 1, NEW t \in 0 .. AdbRing - 1, NEW r \in [0 .. AdbRing - 1 -> Slots], h # t
  PROVE  From(h, t, r) # <<>> /\ From((h + 1) % AdbRing, t, r) = Tail(From(h, t, r))
<1> DEFINE n == Count(h, t)
           g == (h + 1) % AdbRing
           s == From(h, t, r)
           z == From(g, t, r)
<1>1. g \in 0 .. AdbRing - 1 /\ g = IF h + 1 = AdbRing THEN 0 ELSE h + 1
  BY Places
<1>2. n = (IF t >= h THEN t - h ELSE t - h + AdbRing)
  BY OccupiedIs DEF Count
<1>3. s \in Seq(Slots) /\ Len(s) = n /\ \A k \in 1 .. n : s[k] = r[Wrapped(h + k - 1)]
  BY FromIs
<1> HIDE DEF g, n
<1>4. Count(g, t) = (IF t >= g THEN t - g ELSE t - g + AdbRing)
  BY <1>1, OccupiedIs DEF Count
<1>5. z \in Seq(Slots) /\ Len(z) = Count(g, t) /\ \A k \in 1 .. Count(g, t) : z[k] = r[Wrapped(g + k - 1)]
  BY <1>1, FromIs
<1>6. n \in 1 .. AdbRing - 1 /\ Count(g, t) = n - 1
  BY <1>1, <1>2, <1>4, CudaAdbAssumption
<1>7. ASSUME NEW k \in 1 .. n - 1 PROVE Wrapped(g + k - 1) = Wrapped(h + (k + 1) - 1)
  BY <1>1, <1>6, CudaAdbAssumption DEF Wrapped
<1> HIDE DEF s, z
<1>8. s # <<>>
  BY <1>3, <1>6, EmptySeq
<1>9. Tail(s) \in Seq(Slots) /\ Len(Tail(s)) = n - 1 /\ \A k \in 1 .. n - 1 : Tail(s)[k] = s[k + 1]
  BY <1>3, <1>8, HeadTailProperties
<1>10. \A k \in 1 .. n - 1 : z[k] = Tail(s)[k]
  <2> SUFFICES ASSUME NEW k \in 1 .. n - 1 PROVE z[k] = Tail(s)[k]
    OBVIOUS
  <2>1. k + 1 \in 1 .. n
    BY <1>6
  <2> QED
    BY <1>3, <1>5, <1>6, <1>7, <1>9, <2>1
<1>11. z = Tail(s)
  BY <1>5, <1>6, <1>9, <1>10, SeqEqual
<1> QED
  BY <1>8, <1>11 DEF s, z, g

\* The queue is empty when the ring is.
LEMMA InitRefines == Init => Fifo!FifoInit
<1> SUFFICES ASSUME Init PROVE Fifo!FifoInit
  OBVIOUS
<1>1. Occupied = 0
  BY Places, CudaAdbAssumption DEF Init, Occupied
<1> QED
  BY <1>1 DEF Init, Fifo!FifoInit

\* A packet that comes is parked behind the others, or refused by a full ring.
LEMMA DrainRefines == DataOK /\ Drain => [Fifo!FifoNext]_(Fifo!fifoVars)
<1> SUFFICES ASSUME DataOK, Drain PROVE [Fifo!FifoNext]_(Fifo!fifoVars)
  OBVIOUS
<1> USE DEF Fifo!FifoNext, Fifo!fifoVars
<1>1. CASE UNCHANGED ringVars
  BY <1>1 DEF Drain, ringVars, Occupied
<1>2. CASE presented \in AdbPackets /\ ParkOrDrop(presented)
  <2>1. CASE (tail + 1) % AdbRing = head
    <3>1. Len(From(head, tail, ring)) = Count(head, tail)
      BY FromIs DEF DataOK, Slots
    <3>2. Count(head, tail) = AdbRing - 1
      BY <2>1, Places, CudaAdbAssumption DEF DataOK, Count
    <3> QED
      BY <1>2, <2>1, <3>1, <3>2, RefusedOrParked DEF Drain, Fifo!Refuse, From, Count, Occupied
  <2>2. CASE (tail + 1) % AdbRing # head
    <3>1. PICK p \in AdbPackets : p = presented
      BY <1>2
    <3>2. /\ p \in Slots /\ ring \in [0 .. AdbRing - 1 -> Slots]
          /\ head \in 0 .. AdbRing - 1 /\ tail \in 0 .. AdbRing - 1
      BY DEF DataOK, Slots
    <3>3. /\ Len(From(head, tail, ring)) < AdbRing - 1
          /\ From(head, (tail + 1) % AdbRing, [ring EXCEPT ![tail] = p]) = Append(From(head, tail, ring), p)
      BY <2>2, <3>2, Parks
    <3>4. /\ ring' = [ring EXCEPT ![tail] = p] /\ tail' = (tail + 1) % AdbRing
          /\ UNCHANGED <<head, dropped, dpc>>
      BY <1>2, <2>2, <3>1, RefusedOrParked DEF Drain
    <3>5. Fifo!Park(p)
      BY <3>3, <3>4 DEF Fifo!Park, From, Count, Occupied
    <3> QED
      BY <3>5
  <2> QED
    BY <2>1, <2>2
<1> QED
  BY <1>1, <1>2, Zenon DEF Drain

\* The DPC takes the oldest packet, and gives its slot back when it is done.
LEMMA DpcRefines == DataOK /\ DeliversParked /\ Dpc => [Fifo!FifoNext]_(Fifo!fifoVars)
<1> SUFFICES ASSUME DataOK, DeliversParked, Dpc PROVE [Fifo!FifoNext]_(Fifo!fifoVars)
  OBVIOUS
<1> USE DEF Fifo!FifoNext, Fifo!fifoVars
<1>1. CASE DpcStart \/ DpcReturn
  BY <1>1 DEF DpcStart, DpcReturn, ThreadRuns, ringVars, Occupied
<1>2. CASE DpcTest
  <2>1. CASE head # tail
    <3>1. From(head, tail, ring) # <<>>
      BY <2>1, GivesBack DEF DataOK, Slots
    <3>2. Fifo!StartDelivery
      BY <1>2, <2>1, <3>1 DEF DpcTest, Fifo!StartDelivery, From, Count, Occupied, ringVars
    <3> QED
      BY <3>2
  <2>2. CASE head = tail
    BY <1>2, <2>2 DEF DpcTest, ringVars, Occupied
  <2> QED
    BY <2>1, <2>2
<1>3. CASE DpcAdvance
  <2>1. From((head + 1) % AdbRing, tail, ring) = Tail(From(head, tail, ring))
    BY <1>3, GivesBack DEF DpcAdvance, DeliversParked, DataOK, Slots
  <2>2. Fifo!FinishDelivery
    BY <1>3, <2>1 DEF DpcAdvance, AfterHead, Fifo!FinishDelivery, From, Count, Occupied
  <2> QED
    BY <2>2
<1> QED
  BY <1>1, <1>2, <1>3 DEF Dpc

\* The rest of the code leaves the queue as it is.
LEMMA OthersRefine ==
  ASSUME UNCHANGED <<ringVars, dpc>>
  PROVE  [Fifo!FifoNext]_(Fifo!fifoVars)
BY DEF ringVars, Fifo!fifoVars, Occupied

(* Every step of the driver is a step of the channel, or leaves it alone. *)
LEMMA NextRefines == IInv /\ [Next]_vars => [Fifo!FifoNext]_(Fifo!fifoVars)
<1> SUFFICES ASSUME DataOK, DeliversParked, [Next]_vars PROVE [Fifo!FifoNext]_(Fifo!fifoVars)
  BY DEF IInv, TypeOK
<1>1. CASE Drain
  BY <1>1, DrainRefines
<1>2. CASE Dpc
  BY <1>2, DpcRefines
<1>3. CASE UNCHANGED <<ringVars, dpc>>
  BY <1>3, OthersRefine
<1>4. CASE UNCHANGED vars \/ (\E p \in AllPackets : Present(p)) \/ EnterService \/ LeaveService
  BY <1>3, <1>4 DEF vars, Present, EnterService, LeaveService
<1>5. CASE Thread
  BY <1>3, <1>5 DEF Thread, HalpCudaInitialize, HalPxiAdbSetCallback, HalPxiCommandAdb, PseudoRequest,
     HalPxiAdbAutopoll, BeginRequest, EndRequest, EndDelivery, ArmAutopoll
<1> QED
  BY <1>1, <1>2, <1>4, <1>5 DEF Next, Handler

\* The ring between the VIA handler and the DPC is a first-in first-out queue
\* of ADB_RING - 1 packets that refuses only when it is full and does not
\* touch a packet while the driver reads it (cuda.c:95-99, 284-326).
THEOREM RingImplementsFifo == Spec => RingIsFifo
<1>1. Init => Fifo!FifoInit
  BY InitRefines
<1>2. IInv /\ [Next]_vars => [Fifo!FifoNext]_(Fifo!fifoVars)
  BY NextRefines
<1> QED
  BY <1>1, <1>2, RingInvariant, PTL DEF Spec, RingIsFifo, Fifo!FifoSpec

-----------------------------------------------------------------------------
(* The wire. *)

\* Where the HAL is: between calls, in a call with the lines idle, in one with
\* TIP asserted.
Ends  == {"idle", "spin", "halted"}
Idles == {"tip", "attention", "answer", "acknowledge"} \cup Ends
Busy  == {"written", "ending", "byte", "more"}

ViaTypes ==
  /\ via \in [sr : Wire!Bytes, ifr : BOOLEAN, acr : {"in", "out"}]
  /\ lines \in [tip : BOOLEAN, ack : BOOLEAN, treq : BOOLEAN]

CudaTypes ==
  cuda \in [does : {"rest", "answer", "offer", "take"}, packet : Wire!Packets, pos : Nat, got : Seq(Wire!Bytes),
            cue : {"none", "tip", "ack", "end"}, polls : Nat, taken : SUBSET Commands]

HalTypes ==
  hal \in [at : {"off"} \cup Idles \cup Busy, call : Commands \cup {"none", "service"}, sent : Nat,
           ok : BOOLEAN, reply : Seq(Wire!Bytes), calls : 0 .. MaxCalls, calm : BOOLEAN]

Got  == Len(hal.reply)
Held == cuda.packet

\* Cuda has a byte to carry that it has not carried yet.
Pending == cuda.cue \in {"tip", "ack"}

\* The lines and the direction at each place of the HAL, and what it has so far.
HalInv ==
  /\ hal.at \in Idles => ~lines.tip /\ ~lines.ack
  /\ hal.at \in Busy => lines.tip
  /\ IF hal.at \in {"tip", "written"} THEN via.acr = "out" ELSE hal.at # "off" => via.acr = "in"
  /\ hal.at \in {"tip", "written"} => hal.call \in Commands /\ hal.sent <= Payload[hal.call]
  /\ hal.at = "tip" => hal.sent = 0
  /\ hal.at \in {"tip", "written", "ending", "attention", "answer"} => Got = 0
  /\ hal.at = "byte" => Got < MaxReply
  /\ Got <= MaxReply
  /\ hal.at = "more" => Got > 0
  /\ hal.at = "off" => ~hal.calm /\ Got = 0 /\ ~lines.tip

\* Cuda is behind the lines by one event at most, and holds a packet out from
\* its first byte.
CueInv ==
  /\ Pending => lines.tip
  /\ hal.at \in {"written", "byte", "more"} => cuda.cue # "end"
  /\ cuda.does # "offer" => cuda.pos = 0
  /\ cuda.pos <= Length[Held]
  /\ cuda.does = "offer" /\ cuda.cue = "none" /\ ~lines.tip => cuda.pos = 0 /\ lines.treq
  /\ cuda.does = "offer" /\ hal.at = "answer" /\ via.ifr => cuda.pos = 0

\* The third byte echoes the command, and so does each one from there on.
Echoed   == Got >= 3 /\ hal.reply[3] = Wire!In(hal.call, 3)
EchoedOn == Echoed => \A k \in 3 .. Got : hal.reply[k] = Wire!In(hal.call, k)

\* Where Cuda is in its packet while the HAL reads.  A reading that begins on
\* an event of an earlier step runs one byte behind Cuda, and its third byte is
\* no echo; one in step with Cuda stays in step.
ReadingInv ==
  /\ hal.at \in {"byte", "more"} /\ cuda.does # "offer" =>
       /\ Got >= 1 /\ via.ifr => via.sr = Wire!Junk
       /\ Got >= 3 => hal.reply[3] = Wire!Junk
  /\ hal.at \in {"byte", "more"} /\ cuda.does = "offer" =>
       /\ Got >= 1 /\ via.ifr => via.sr = Wire!In(Held, cuda.pos)
       /\ hal.at = "byte" /\ via.ifr /\ Pending => cuda.pos = Got
       /\ hal.at = "more" /\ Pending => ~via.ifr /\ cuda.pos = Got - 1
       /\ hal.at = "more" /\ via.ifr => cuda.pos = Got
       /\ Echoed => /\ Held = hal.call
                    /\ hal.at = "more" => ~via.ifr /\ ~Pending /\ cuda.pos = Got
                    /\ hal.at = "byte" /\ via.ifr => ~Pending /\ cuda.pos = Got + 1
                    /\ hal.at = "byte" /\ ~via.ifr => cuda.pos = Got

Obeyed == hal.call \in Commands => hal.call \in cuda.taken
Own(q) == hal.call \in Commands => q = hal.call

\* Cuda has taken the first bytes of the request; the HAL has read the first
\* bytes of a packet.
Gathered(m) == Len(cuda.got) = m /\ \A k \in 1 .. m : cuda.got[k] = Wire!Out(hal.call, k)
HasRead(q)  == \A k \in 1 .. Got : hal.reply[k] = Wire!In(q, k)

\* A call that met Cuda at rest, or a packet held out, and was answered in time
\* so far: where Cuda is when the HAL sends, and when it reads.
CalmSending ==
  /\ hal.at = "tip" => cuda.cue = "none" /\ (cuda.does = "rest" => ~via.ifr /\ via.sr = Wire!Out(hal.call, 1))
  /\ hal.at = "written" =>
       \/ /\ cuda.cue = "tip" /\ cuda.does = "rest" /\ ~via.ifr
          /\ hal.sent = 0 /\ via.sr = Wire!Out(hal.call, 1)
       \/ /\ cuda.cue = "ack" /\ cuda.does = "take" /\ ~via.ifr
          /\ Gathered(hal.sent) /\ via.sr = Wire!Out(hal.call, hal.sent + 1)
       \/ /\ cuda.cue = "none" /\ cuda.does = "take" /\ via.ifr
          /\ Gathered(hal.sent + 1)
  /\ hal.at = "ending" =>
       /\ hal.ok /\ cuda.cue = "none" /\ cuda.does = "take" /\ ~via.ifr
       /\ hal.call \in Commands /\ Gathered(Payload[hal.call] + 1)

CalmAnswer ==
  /\ hal.at = "attention" =>
       \/ /\ cuda.cue = "end" /\ cuda.does = "take" /\ ~via.ifr
          /\ hal.call \in Commands /\ Gathered(Payload[hal.call] + 1)
       \/ /\ cuda.cue = "none" /\ Own(Held) /\ Obeyed
          /\ (cuda.does = "answer" /\ ~via.ifr) \/ (cuda.does = "offer" /\ via.ifr)
  /\ hal.at = "answer" => cuda.cue = "none" /\ cuda.does = "offer" /\ ~via.ifr /\ Own(Held) /\ Obeyed

CalmReading ==
  hal.at \in {"byte", "more"} =>
    /\ cuda.does = "offer" /\ (lines.treq <=> cuda.pos < Length[Held]) /\ Own(Held) /\ Obeyed /\ HasRead(Held)
    /\ \/ hal.at = "byte" /\ Pending /\ ~via.ifr /\ cuda.pos = Got /\ Got < Length[Held]
       \/ hal.at = "byte" /\ cuda.cue = "none" /\ via.ifr /\ cuda.pos = Got + 1 /\ via.sr = Wire!In(Held, Got + 1)
       \/ hal.at = "more" /\ cuda.cue = "none" /\ ~via.ifr /\ cuda.pos = Got

\* A packet that is read whole, up to CUDA_MAX_REPLY bytes of it.
Shown(q) == IF Length[q] < MaxReply THEN Length[q] ELSE MaxReply
ReadWhole == Obeyed /\ \E q \in Wire!Packets : Own(q) /\ Got = Shown(q) /\ HasRead(q)

CalmEnd == hal.at \in {"acknowledge"} \cup Ends => ReadWhole

CalmInv == hal.calm => CalmSending /\ CalmAnswer /\ CalmReading /\ CalmEnd

WireTypes == ViaTypes /\ CudaTypes /\ HalTypes
WireInv == WireTypes /\ HalInv /\ CueInv /\ EchoedOn /\ ReadingInv /\ CalmInv

-----------------------------------------------------------------------------
(* Bytes on the wire. *)

\* The bytes that are no packet's.
LEMMA LineBytes == Wire!Junk \in Wire!Bytes /\ Wire!Attention \in Wire!Bytes
BY DEF Wire!Bytes

\* The bytes of a request.
LEMMA OutBytes ==
  ASSUME NEW c \in Commands, NEW i \in 1 .. Payload[c] + 1
  PROVE  Wire!Out(c, i) \in Wire!Bytes
<1>1. Wire!Out(c, i) \in Wire!ToSet(Wire!RequestBytes(c))
  BY DEF Wire!ToSet, Wire!RequestBytes
<1> QED
  BY <1>1 DEF Wire!Bytes

\* The bytes of a packet.
LEMMA InBytes ==
  ASSUME NEW q \in Wire!Packets, NEW i \in 1 .. Length[q]
  PROVE  Wire!In(q, i) \in Wire!Bytes
<1>1. Wire!In(q, i) \in Wire!ToSet(Wire!ReplyBytes(q))
  BY DEF Wire!ToSet, Wire!ReplyBytes
<1> QED
  BY <1>1 DEF Wire!Bytes

\* A byte is known by its packet and place.
LEMMA BytesDiffer ==
  ASSUME NEW q, NEW r, NEW i, NEW j
  PROVE  /\ Wire!In(q, i) = Wire!In(r, j) => q = r /\ i = j
         /\ Wire!Out(q, i) = Wire!Out(r, j) => q = r /\ i = j
         /\ Wire!Junk # Wire!In(q, i)
BY DEF Wire!In, Wire!Out, Wire!Junk

\* The lengths of requests and packets are numbers.
LEMMA LengthsAre ==
  /\ MaxReply \in Nat \ {0} /\ MaxCalls \in Nat
  /\ \A c \in Commands : Payload[c] \in Nat /\ c \in Wire!Packets /\ c # "none" /\ c # "service"
  /\ \A q \in Wire!Packets : Length[q] \in Nat \ {0}
  /\ "poll" \in Wire!Packets
BY WireAssumption DEF Wire!CudaViaAssumption, Wire!Packets

\* A packet's length bounds what is read of it.
LEMMA ShownIs ==
  ASSUME NEW q \in Wire!Packets
  PROVE  Shown(q) \in Nat \ {0} /\ Shown(q) <= Length[q] /\ Shown(q) <= MaxReply
BY LengthsAre DEF Shown

-----------------------------------------------------------------------------
(* The initial state. *)

\* Both are at rest, and the lines are not known to be.
LEMMA InitWireInv == Wire!Init => WireInv
<1> SUFFICES ASSUME Wire!Init PROVE WireInv
  OBVIOUS
<1> USE DEF Wire!Init
<1>1. Got = 0 /\ hal.reply = <<>>
  BY DEF Got
<1>2. ViaTypes
  BY LineBytes DEF ViaTypes
<1>5. CudaTypes
  BY LengthsAre DEF CudaTypes
<1>6. HalTypes
  BY LengthsAre DEF HalTypes, Idles, Busy, Ends
<1>3. HalInv
  <2>1. MaxReply >= 0
    BY LengthsAre
  <2>2. ~lines.tip /\ hal.at = "off" /\ ~hal.calm
    OBVIOUS
  <2> QED
    BY <1>1, <2>1, <2>2 DEF HalInv, Idles, Busy, Ends
<1>7. CueInv
  BY LengthsAre DEF CueInv, Pending, Held
<1>4. EchoedOn /\ ReadingInv /\ CalmInv
  BY <1>1 DEF EchoedOn, Echoed, ReadingInv, CalmInv
<1> QED
  BY <1>2, <1>3, <1>4, <1>5, <1>6, <1>7 DEF WireInv, WireTypes

-----------------------------------------------------------------------------
(* What the steps with more than one outcome do. *)

\* The lines are put to rest, and Cuda sees it if TIP was asserted.
LinesRest ==
  /\ lines' = [lines EXCEPT !.tip = FALSE, !.ack = FALSE]
  /\ (lines.tip /\ cuda' = [cuda EXCEPT !.cue = "end"]) \/ (~lines.tip /\ cuda' = cuda)

Ended(r, calm) == \E e \in Ends : hal' = [hal EXCEPT !.reply = r, !.calm = calm, !.sent = 0, !.at = e]

\* A call that is over leaves the HAL between calls, or waiting, or halted.
LEMMA ReturnIs ==
  ASSUME NEW r, NEW calm, Wire!Return(r, calm)
  PROVE  Ended(r, calm)
<1> DEFINE e == CASE hal.call # "reset" -> "idle" [] r # <<>> -> "spin" [] OTHER -> "halted"
<1>1. e \in Ends
  BY DEF Ends
<1>2. hal' = [hal EXCEPT !.reply = r, !.calm = calm, !.sent = 0, !.at = e]
  BY Zenon DEF Wire!Return
<1> HIDE DEF e
<1> QED
  BY <1>1, <1>2 DEF Ended

\* HalpCudaIdleLines (cuda.c:138-141).
LEMMA IdleLinesIs == Wire!HalpCudaIdleLines => LinesRest
BY Zenon DEF Wire!HalpCudaIdleLines, Wire!Cue, LinesRest

\* A request that is sent, or has failed.
LEMMA WriteEndedIs ==
  Wire!WriteEnded =>
    /\ hal.at = "ending" /\ LinesRest /\ via' = via
    /\ (hal.ok /\ hal' = [hal EXCEPT !.at = "attention"]) \/ Ended(<<>>, FALSE)
BY IdleLinesIs, ReturnIs, Zenon DEF Wire!WriteEnded, Wire!Goes

\* No byte in time.
LEMMA ReadGivesUpIs ==
  Wire!ReadGivesUp =>
    /\ hal.at \in {"attention", "byte"} /\ ~via.ifr /\ LinesRest /\ via' = via
    /\ \/ hal.reply = <<>> /\ Ended(<<>>, FALSE)
       \/ hal.reply # <<>> /\ hal' = [hal EXCEPT !.at = "acknowledge", !.calm = FALSE]
BY IdleLinesIs, ReturnIs, Zenon DEF Wire!ReadGivesUp, Wire!GivesUp

\* One byte more, or the last.
LEMMA ReadPacketIs ==
  Wire!HalpCudaReadPacket =>
    /\ hal.at = "more" /\ via' = via
    /\ \/ /\ Got < MaxReply /\ lines.treq /\ lines' = [lines EXCEPT !.ack = ~@]
          /\ cuda' = [cuda EXCEPT !.cue = "ack"] /\ hal' = [hal EXCEPT !.at = "byte"]
       \/ /\ ~(Got < MaxReply /\ lines.treq)
          /\ LinesRest /\ hal' = [hal EXCEPT !.at = "acknowledge"]
BY IdleLinesIs DEF Wire!HalpCudaReadPacket, Wire!WantsMore, Wire!HalpCudaToggleAck, Wire!Goes, Wire!Cue, Got

\* The reply is the call's.
LEMMA ReadEndIs ==
  Wire!HalpCudaReadEnd =>
    /\ hal.at = "acknowledge" /\ lines' = lines /\ cuda' = cuda /\ Ended(hal.reply, hal.calm)
    /\ via' = [via EXCEPT !.ifr = FALSE] \/ via' = via
BY ReturnIs, Zenon DEF Wire!HalpCudaReadEnd, Wire!ReadSr

-----------------------------------------------------------------------------
(* The types. *)

\* The register and the lines.
LEMMA NextViaTypes == WireTypes /\ HalInv /\ CueInv /\ Wire!Next => ViaTypes'
<1> SUFFICES ASSUME WireTypes, HalInv, CueInv, Wire!Next PROVE ViaTypes'
  OBVIOUS
<1> USE LineBytes DEF WireTypes, ViaTypes, CudaTypes, HalTypes
<1>1. CASE Wire!Offer \/ Wire!FinishTake \/ Wire!FinishSend \/ Wire!FinishNothing
  BY <1>1 DEF Wire!Offer, Wire!FinishTake, Wire!FinishSend, Wire!FinishNothing
<1>2. CASE Wire!Send
  <2>1. cuda.packet \in Wire!Packets /\ cuda.pos + 1 \in 1 .. Length[cuda.packet]
    BY <1>2, LengthsAre DEF Wire!Send
  <2>2. Wire!In(cuda.packet, cuda.pos + 1) \in Wire!Bytes
    BY <2>1, InBytes
  <2> DEFINE held == cuda.pos + 1 < Length[cuda.packet]
  <2>3. lines' = [lines EXCEPT !.treq = held] /\ held \in BOOLEAN
    BY <1>2 DEF Wire!Send
  <2> HIDE DEF held
  <2> QED
    BY <1>2, <2>2, <2>3 DEF Wire!Send
<1>3. CASE Wire!Take
  BY <1>3 DEF Wire!Take
<1>4. CASE Wire!HalpCudaInitialize \/ Wire!HalpCudaService
  BY <1>4 DEF Wire!HalpCudaInitialize, Wire!HalpCudaService, Wire!HalpCudaIdleLines
<1>5. ASSUME NEW c \in Commands, Wire!HalpCudaRequest(c) PROVE ViaTypes'
  <2>1. Wire!Out(c, 1) \in Wire!Bytes
    BY OutBytes, LengthsAre
  <2> QED
    BY <1>5, <2>1 DEF Wire!HalpCudaRequest, Wire!WriteSr
<1>6. CASE Wire!HalpCudaWriteNext
  <2>1. hal.call \in Commands /\ hal.sent \in Nat /\ hal.sent < Payload[hal.call]
    BY <1>6 DEF Wire!HalpCudaWriteNext, HalInv
  <2>2. Wire!Out(hal.call, hal.sent + 2) \in Wire!Bytes
    BY <2>1, OutBytes, LengthsAre
  <2> QED
    BY <1>6, <2>2 DEF Wire!HalpCudaWriteNext, Wire!WriteSr, Wire!HalpCudaToggleAck
<1>7. CASE Wire!HalpCudaWriteFirst \/ Wire!HalpCudaWriteEnd
  BY <1>7 DEF Wire!HalpCudaWriteFirst, Wire!HalpCudaWriteEnd, Wire!HalpCudaTip
<1>8. CASE Wire!ReadAttention \/ Wire!ReadTip \/ Wire!HalpCudaReadNext
  BY <1>8 DEF Wire!ReadAttention, Wire!ReadTip, Wire!HalpCudaReadNext, Wire!ReadSr, Wire!HalpCudaTip
<1>9. CASE Wire!HalpCudaReadPacket
  BY <1>9, ReadPacketIs DEF LinesRest
<1>10. CASE Wire!WriteEnded \/ Wire!ReadGivesUp
  BY <1>10, WriteEndedIs, ReadGivesUpIs DEF LinesRest
<1>11. CASE Wire!HalpCudaReadEnd
  BY <1>11, ReadEndIs
<1> QED
  BY <1>1, <1>2, <1>3, <1>4, <1>5, <1>6, <1>7, <1>8, <1>9, <1>10, <1>11 DEF Wire!Next, Wire!Cuda, Wire!Hal

\* Cuda's packet and what it was sent.
LEMMA NextCudaTypes == WireTypes /\ HalInv /\ CueInv /\ Wire!Next => CudaTypes'
<1> SUFFICES ASSUME ViaTypes, CudaTypes, Wire!Next PROVE CudaTypes'
  BY DEF WireTypes
<1> USE DEF ViaTypes, CudaTypes
<1>1. CASE Wire!Offer
  <2>1. cuda.polls + 1 \in Nat
    OBVIOUS
  <2>2. cuda' = [cuda EXCEPT !.does = "offer"] \/ cuda' = [cuda EXCEPT !.does = "offer", !.polls = @ + 1]
    BY <1>1, Zenon DEF Wire!Offer
  <2> QED
    BY <2>1, <2>2
<1>2. CASE Wire!Send
  <2>1. cuda.pos + 1 \in Nat /\ cuda' = [cuda EXCEPT !.cue = "none", !.pos = @ + 1]
    BY <1>2 DEF Wire!Send
  <2> QED
    BY <2>1
<1>3. CASE Wire!Take
  <2>1. "poll" \in Wire!Packets
    BY LengthsAre
  <2> DEFINE byte == IF via.acr = "out" THEN via.sr ELSE Wire!Junk
             before == IF cuda.cue = "tip" THEN <<>> ELSE cuda.got
  <2>2. byte \in Wire!Bytes
    BY LineBytes
  <2>3. before \in Seq(Wire!Bytes)
    OBVIOUS
  <2>4. cuda' = [cuda EXCEPT !.cue = "none", !.does = "take", !.pos = 0, !.packet = "poll", !.got = Append(before, byte)]
    BY <1>3, Zenon DEF Wire!Take
  <2> HIDE DEF byte, before
  <2>5. Append(before, byte) \in Seq(Wire!Bytes)
    BY <2>2, <2>3
  <2> QED
    BY <2>1, <2>4, <2>5
<1>4. CASE Wire!FinishTake
  <2>1. ASSUME NEW c \in Commands,
               cuda' = [cuda EXCEPT !.cue = "none", !.does = "answer", !.packet = c, !.got = <<>>, !.taken = @ \cup {c}]
        PROVE  CudaTypes'
    <3>1. c \in Wire!Packets /\ cuda.taken \cup {c} \in SUBSET Commands /\ <<>> \in Seq(Wire!Bytes)
      BY LengthsAre
    <3> QED
      BY <2>1, <3>1
  <2>2. ASSUME cuda' = [cuda EXCEPT !.cue = "none", !.does = "rest", !.got = <<>>]
        PROVE  CudaTypes'
    <3>1. <<>> \in Seq(Wire!Bytes)
      OBVIOUS
    <3> QED
      BY <2>2, <3>1
  <2> QED
    BY <1>4, <2>1, <2>2, Zenon DEF Wire!FinishTake
<1>5. CASE Wire!FinishSend
  <2>1. "poll" \in Wire!Packets
    BY LengthsAre
  <2>2. \/ cuda' = [cuda EXCEPT !.cue = "none", !.pos = 0, !.packet = "poll", !.does = "rest"]
        \/ cuda' = [cuda EXCEPT !.cue = "none", !.pos = 0, !.does = "answer"]
    BY <1>5, Zenon DEF Wire!FinishSend
  <2>3. CASE cuda' = [cuda EXCEPT !.cue = "none", !.pos = 0, !.packet = "poll", !.does = "rest"]
    BY <2>1, <2>3
  <2>4. CASE cuda' = [cuda EXCEPT !.cue = "none", !.pos = 0, !.does = "answer"]
    BY <2>4
  <2> QED
    BY <2>2, <2>3, <2>4
<1>6. CASE Wire!FinishNothing
  BY <1>6 DEF Wire!FinishNothing
<1>7. CASE Wire!HalpCudaInitialize \/ Wire!HalpCudaService
  BY <1>7, IdleLinesIs DEF Wire!HalpCudaInitialize, Wire!HalpCudaService, LinesRest
<1>8. ASSUME NEW c \in Commands, Wire!HalpCudaRequest(c) PROVE CudaTypes'
  BY <1>8 DEF Wire!HalpCudaRequest
<1>9. CASE Wire!HalpCudaWriteFirst \/ Wire!HalpCudaWriteNext \/ Wire!HalpCudaWriteEnd
  BY <1>9 DEF Wire!HalpCudaWriteFirst, Wire!HalpCudaWriteNext, Wire!HalpCudaWriteEnd, Wire!HalpCudaTip,
     Wire!HalpCudaToggleAck, Wire!Cue
<1>10. CASE Wire!WriteEnded \/ Wire!ReadGivesUp
  BY <1>10, WriteEndedIs, ReadGivesUpIs DEF LinesRest
<1>11. CASE Wire!ReadAttention \/ Wire!ReadTip \/ Wire!HalpCudaReadNext
  BY <1>11 DEF Wire!ReadAttention, Wire!ReadTip, Wire!HalpCudaReadNext, Wire!HalpCudaTip, Wire!Cue
<1>12. CASE Wire!HalpCudaReadPacket
  BY <1>12, ReadPacketIs DEF LinesRest
<1>13. CASE Wire!HalpCudaReadEnd
  BY <1>13, ReadEndIs
<1> QED
  BY <1>1, <1>2, <1>3, <1>4, <1>5, <1>6, <1>7, <1>8, <1>9, <1>10, <1>11, <1>12, <1>13 DEF Wire!Next, Wire!Cuda, Wire!Hal

\* A call that is over leaves the HAL between calls.
LEMMA EndedTypes ==
  ASSUME HalTypes, NEW r \in Seq(Wire!Bytes), NEW calm \in BOOLEAN, Ended(r, calm)
  PROVE  /\ HalTypes' /\ hal'.at \in Ends /\ hal'.reply = r /\ hal'.calm = calm /\ hal'.call = hal.call
         /\ Got' = Len(r)
<1>1. PICK e \in Ends : hal' = [hal EXCEPT !.reply = r, !.calm = calm, !.sent = 0, !.at = e]
  BY DEF Ended
<1>2. e \in Idles
  BY DEF Idles
<1>3. HalTypes'
  BY <1>1, <1>2 DEF HalTypes
<1>4. hal'.at = e /\ hal'.reply = r /\ hal'.calm = calm /\ hal'.call = hal.call
  BY <1>1 DEF HalTypes
<1> QED
  BY <1>3, <1>4 DEF Got

\* The HAL's call and reply.
LEMMA NextHalTypes == WireTypes /\ HalInv /\ CueInv /\ Wire!Next => HalTypes'
<1> SUFFICES ASSUME ViaTypes, CudaTypes, HalTypes, HalInv, Wire!Next PROVE HalTypes'
  BY DEF WireTypes
<1>1. CASE Wire!Cuda
  BY <1>1 DEF Wire!Cuda, Wire!Offer, Wire!Send, Wire!Take, Wire!FinishTake, Wire!FinishSend, Wire!FinishNothing, HalTypes
<1>2. CASE Wire!HalpCudaInitialize
  BY <1>2 DEF Wire!HalpCudaInitialize, Wire!Goes, HalTypes, Idles, Ends
<1>3. ASSUME NEW call \in Commands \cup {"service"}, NEW at \in {"tip", "attention"}, NEW calm, Wire!Begin(call, at, calm)
      PROVE  HalTypes'
  <2> DEFINE quiet == calm /\ cuda.cue = "none"
  <2>1. quiet \in BOOLEAN
    OBVIOUS
  <2>2. hal' = [at |-> at, call |-> call, sent |-> 0, ok |-> TRUE, reply |-> <<>>, calls |-> hal.calls + 1, calm |-> quiet]
        /\ hal.calls < MaxCalls
    BY <1>3, Zenon DEF Wire!Begin
  <2> HIDE DEF quiet
  <2>3. hal.calls + 1 \in 0 .. MaxCalls
    BY <2>2, LengthsAre DEF HalTypes
  <2> QED
    BY <2>1, <2>2, <2>3 DEF HalTypes, Idles
<1>4. ASSUME NEW c \in Commands, Wire!HalpCudaRequest(c) PROVE HalTypes'
  BY <1>3, <1>4 DEF Wire!HalpCudaRequest
<1>5. CASE Wire!HalpCudaService
  BY <1>3, <1>5 DEF Wire!HalpCudaService
<1>6. CASE Wire!HalpCudaWriteFirst
  <2> DEFINE quiet == hal.calm /\ cuda.does = "rest"
  <2>1. quiet \in BOOLEAN /\ hal' = [hal EXCEPT !.at = "written", !.calm = quiet]
    BY <1>6 DEF Wire!HalpCudaWriteFirst, HalTypes
  <2> HIDE DEF quiet
  <2> QED
    BY <2>1 DEF HalTypes, Busy
<1>7. CASE Wire!HalpCudaWriteNext
  BY <1>7 DEF Wire!HalpCudaWriteNext, HalTypes
<1>8. CASE Wire!HalpCudaWriteEnd
  <2> DEFINE quiet == hal.calm /\ via.ifr
  <2>1. quiet \in BOOLEAN /\ via.ifr \in BOOLEAN /\ hal' = [hal EXCEPT !.at = "ending", !.ok = via.ifr, !.calm = quiet]
    BY <1>8 DEF Wire!HalpCudaWriteEnd, Wire!Comes, HalTypes, ViaTypes
  <2> HIDE DEF quiet
  <2> QED
    BY <2>1 DEF HalTypes, Busy
<1>9. CASE Wire!WriteEnded
  <2>1. CASE hal' = [hal EXCEPT !.at = "attention"]
    BY <2>1 DEF HalTypes, Idles
  <2>2. CASE Ended(<<>>, FALSE)
    <3>1. <<>> \in Seq(Wire!Bytes)
      OBVIOUS
    <3> QED
      BY <2>2, <3>1, EndedTypes
  <2> QED
    BY <1>9, <2>1, <2>2, WriteEndedIs
<1>10. CASE Wire!ReadAttention \/ Wire!ReadTip
  BY <1>10 DEF Wire!ReadAttention, Wire!ReadTip, Wire!Goes, HalTypes, Idles, Busy
<1>11. CASE Wire!HalpCudaReadNext
  <2>1. via.sr \in Wire!Bytes /\ Append(hal.reply, via.sr) \in Seq(Wire!Bytes)
    BY DEF ViaTypes, HalTypes
  <2> QED
    BY <1>11, <2>1 DEF Wire!HalpCudaReadNext, HalTypes, Busy
<1>12. CASE Wire!ReadGivesUp
  BY <1>12, ReadGivesUpIs, EndedTypes DEF HalTypes, Idles
<1>13. CASE Wire!HalpCudaReadPacket
  BY <1>13, ReadPacketIs DEF HalTypes, Idles, Busy
<1>14. CASE Wire!HalpCudaReadEnd
  <2>1. hal.reply \in Seq(Wire!Bytes) /\ hal.calm \in BOOLEAN
    BY DEF HalTypes
  <2> QED
    BY <1>14, <2>1, ReadEndIs, EndedTypes
<1> QED
  BY <1>1, <1>2, <1>4, <1>5, <1>6, <1>7, <1>8, <1>9, <1>10, <1>11, <1>12, <1>13, <1>14 DEF Wire!Next, Wire!Hal

-----------------------------------------------------------------------------
(* The lines at the HAL's places. *)

\* The lines are where the HAL's place says, whatever Cuda does.
LEMMA NextHalInv == WireTypes /\ HalInv /\ Wire!Next => HalInv'
<1> SUFFICES ASSUME ViaTypes, CudaTypes, HalTypes, HalInv, Wire!Next PROVE HalInv'
  BY DEF WireTypes
<1>0. Got \in Nat
  BY DEF Got, HalTypes
<1> USE DEF ViaTypes, HalTypes, Idles, Busy, Ends
<1>1. CASE Wire!Cuda
  <2>1. /\ hal' = hal /\ via'.acr = via.acr /\ lines'.tip = lines.tip /\ lines'.ack = lines.ack
    BY <1>1 DEF Wire!Cuda, Wire!Offer, Wire!Send, Wire!Take, Wire!FinishTake, Wire!FinishSend, Wire!FinishNothing
  <2> QED
    BY <2>1 DEF HalInv, Got
<1>2. CASE Wire!HalpCudaInitialize
  <2>1. /\ hal'.at = "idle" /\ hal'.reply = hal.reply /\ hal.at = "off"
        /\ via'.acr = "in" /\ ~lines'.tip /\ ~lines'.ack
    BY <1>2, IdleLinesIs DEF Wire!HalpCudaInitialize, LinesRest, Wire!Goes
  <2> QED
    BY <1>0, <2>1 DEF HalInv, Got
<1>3. ASSUME NEW call \in Commands \cup {"service"}, NEW at \in {"tip", "attention"}, NEW calm, Wire!Begin(call, at, calm)
      PROVE  /\ hal'.at = at /\ hal'.call = call /\ hal'.sent = 0 /\ hal'.reply = <<>> /\ hal.at = "idle"
             /\ ~lines.tip /\ ~lines.ack /\ via.acr = "in"
  BY <1>3 DEF Wire!Begin, HalInv
<1>4. ASSUME NEW c \in Commands, Wire!HalpCudaRequest(c) PROVE HalInv'
  <2>1. Wire!Begin(c, "tip", cuda.does = "rest")
    BY <1>4 DEF Wire!HalpCudaRequest
  <2>2. lines' = lines /\ via'.acr = "out"
    BY <1>4 DEF Wire!HalpCudaRequest, Wire!WriteSr
  <2>3. Payload[c] >= 0 /\ MaxReply >= 0
    BY LengthsAre
  <2> QED
    BY <2>1, <2>2, <2>3, <1>3 DEF HalInv, Got
<1>5. CASE Wire!HalpCudaService
  <2>1. Wire!Begin("service", "attention", cuda.does = "offer") /\ via' = via /\ lines' = lines
    BY <1>5 DEF Wire!HalpCudaService
  <2>2. MaxReply >= 0
    BY LengthsAre
  <2> QED
    BY <2>1, <2>2, <1>3 DEF HalInv, Got
<1>6. CASE Wire!HalpCudaWriteFirst
  <2>1. /\ hal.at = "tip" /\ hal'.at = "written" /\ hal'.call = hal.call /\ hal'.sent = hal.sent /\ hal'.reply = hal.reply
        /\ via' = via /\ lines'.tip
    BY <1>6 DEF Wire!HalpCudaWriteFirst, Wire!HalpCudaTip
  <2> QED
    BY <1>0, <2>1 DEF HalInv, Got
<1>7. CASE Wire!HalpCudaWriteNext
  <2>1. /\ hal.at = "written" /\ hal'.at = "written" /\ hal'.call = hal.call /\ hal'.sent = hal.sent + 1 /\ hal'.reply = hal.reply
        /\ via'.acr = "out" /\ lines'.tip = lines.tip /\ hal.sent < Payload[hal.call] /\ hal.sent \in Nat
    BY <1>7 DEF Wire!HalpCudaWriteNext, Wire!WriteSr, Wire!HalpCudaToggleAck
  <2>2. hal.call \in Commands
    BY <2>1 DEF HalInv
  <2>3. Payload[hal.call] \in Nat
    BY <2>2, LengthsAre
  <2> QED
    BY <1>0, <2>1, <2>2, <2>3 DEF HalInv, Got
<1>8. CASE Wire!HalpCudaWriteEnd
  <2>1. /\ hal.at = "written" /\ hal'.at = "ending" /\ hal'.reply = hal.reply
        /\ via'.acr = "in" /\ lines' = lines
    BY <1>8 DEF Wire!HalpCudaWriteEnd
  <2> QED
    BY <1>0, <2>1 DEF HalInv, Got
<1>9. ASSUME LinesRest PROVE ~lines'.tip /\ ~lines'.ack
  BY <1>9 DEF LinesRest
<1>10. ASSUME NEW r \in Seq(Wire!Bytes), NEW calm \in BOOLEAN, Ended(r, calm), Len(r) <= MaxReply,
              ~lines'.tip, ~lines'.ack, via'.acr = "in"
       PROVE  HalInv'
  BY <1>10, EndedTypes DEF HalInv
<1>11. CASE Wire!WriteEnded
  <2>1. hal.at = "ending" /\ via' = via /\ via.acr = "in" /\ Got = 0 /\ MaxReply >= 0
    BY <1>11, WriteEndedIs, LengthsAre DEF HalInv
  <2>2. CASE hal' = [hal EXCEPT !.at = "attention"]
    <3>1. hal'.at = "attention" /\ hal'.reply = hal.reply
      BY <2>2
    <3> QED
      BY <1>9, <1>11, <2>1, <3>1, WriteEndedIs DEF HalInv, Got
  <2>3. CASE Ended(<<>>, FALSE)
    <3>1. <<>> \in Seq(Wire!Bytes) /\ Len(<<>>) <= MaxReply
      BY <2>1
    <3> QED
      BY <1>9, <1>10, <1>11, <2>1, <2>3, <3>1, WriteEndedIs
  <2> QED
    BY <1>11, <2>2, <2>3, WriteEndedIs
<1>12. CASE Wire!ReadAttention
  <2>1. /\ hal.at = "attention" /\ hal'.at = "answer" /\ hal'.reply = hal.reply
        /\ via'.acr = via.acr /\ lines' = lines
    BY <1>12 DEF Wire!ReadAttention, Wire!ReadSr, Wire!Goes
  <2> QED
    BY <1>0, <2>1 DEF HalInv, Got
<1>13. CASE Wire!ReadTip
  <2>1. /\ hal.at = "answer" /\ hal'.at = "byte" /\ hal'.reply = hal.reply
        /\ via' = via /\ lines'.tip
    BY <1>13 DEF Wire!ReadTip, Wire!HalpCudaTip, Wire!Goes
  <2>2. MaxReply > 0
    BY LengthsAre
  <2> QED
    BY <1>0, <2>1, <2>2 DEF HalInv, Got
<1>14. CASE Wire!HalpCudaReadNext
  <2>1. /\ hal.at = "byte" /\ hal'.at = "more" /\ hal'.reply = Append(hal.reply, via.sr)
        /\ via'.acr = via.acr /\ lines' = lines
    BY <1>14 DEF Wire!HalpCudaReadNext, Wire!ReadSr
  <2>2. Got' = Got + 1 /\ MaxReply \in Nat
    BY <2>1, LengthsAre DEF Got
  <2> QED
    BY <1>0, <2>1, <2>2 DEF HalInv
<1>15. CASE Wire!ReadGivesUp
  <2>1. hal.at \in {"attention", "byte"} /\ via' = via /\ via.acr = "in" /\ Got <= MaxReply /\ MaxReply >= 0
    BY <1>15, ReadGivesUpIs, LengthsAre DEF HalInv
  <2>2. CASE hal' = [hal EXCEPT !.at = "acknowledge", !.calm = FALSE]
    <3>1. hal'.at = "acknowledge" /\ hal'.reply = hal.reply
      BY <2>2
    <3> QED
      BY <1>9, <1>15, <2>1, <3>1, ReadGivesUpIs DEF HalInv, Got
  <2>3. CASE Ended(<<>>, FALSE)
    <3>1. <<>> \in Seq(Wire!Bytes) /\ Len(<<>>) <= MaxReply
      BY <2>1
    <3> QED
      BY <1>9, <1>10, <1>15, <2>1, <2>3, <3>1, ReadGivesUpIs
  <2> QED
    BY <1>15, <2>2, <2>3, ReadGivesUpIs
<1>16. CASE Wire!HalpCudaReadPacket
  <2>1. hal.at = "more" /\ via' = via /\ via.acr = "in" /\ Got <= MaxReply /\ lines.tip
    BY <1>16, ReadPacketIs DEF HalInv
  <2>2. CASE Got < MaxReply /\ lines' = [lines EXCEPT !.ack = ~@] /\ hal' = [hal EXCEPT !.at = "byte"]
    <3>1. hal'.at = "byte" /\ hal'.reply = hal.reply /\ lines'.tip
      BY <2>1, <2>2
    <3> QED
      BY <1>0, <2>1, <2>2, <3>1 DEF HalInv, Got
  <2>3. CASE LinesRest /\ hal' = [hal EXCEPT !.at = "acknowledge"]
    <3>1. hal'.at = "acknowledge" /\ hal'.reply = hal.reply
      BY <2>3
    <3> QED
      BY <1>9, <2>1, <2>3, <3>1 DEF HalInv, Got
  <2> QED
    BY <1>16, <2>2, <2>3, ReadPacketIs
<1>17. CASE Wire!HalpCudaReadEnd
  <2>1. /\ hal.at = "acknowledge" /\ lines' = lines /\ via'.acr = via.acr
        /\ ~lines.tip /\ ~lines.ack /\ via.acr = "in" /\ Len(hal.reply) <= MaxReply
    BY <1>17, ReadEndIs DEF HalInv, Got
  <2>2. hal.reply \in Seq(Wire!Bytes) /\ hal.calm \in BOOLEAN
    OBVIOUS
  <2> QED
    BY <1>10, <1>17, <2>1, <2>2, ReadEndIs
<1> QED
  BY <1>1, <1>2, <1>4, <1>5, <1>6, <1>7, <1>8, <1>11, <1>12, <1>13, <1>14, <1>15, <1>16, <1>17 DEF Wire!Next, Wire!Hal

-----------------------------------------------------------------------------
(* The steps, field by field. *)

ViaIs(sr, ifr, acr)      == via'.sr = sr /\ via'.ifr = ifr /\ via'.acr = acr
LinesAre(tip, ack, treq) == lines'.tip = tip /\ lines'.ack = ack /\ lines'.treq = treq
CudaIs(does, packet, pos, got, cue, taken) ==
  /\ cuda'.does = does /\ cuda'.packet = packet /\ cuda'.pos = pos
  /\ cuda'.got = got /\ cuda'.cue = cue /\ cuda'.taken = taken
Cued(event) == CudaIs(cuda.does, cuda.packet, cuda.pos, cuda.got, event, cuda.taken)
HalIs(at, call, written, reply, calm) ==
  /\ hal'.at = at /\ hal'.call = call /\ hal'.sent = written
  /\ hal'.reply = reply /\ hal'.calm = calm
Moved(at) == HalIs(at, hal.call, hal.sent, hal.reply, hal.calm) /\ hal'.ok = hal.ok

\* Cuda holds out a packet.
LEMMA OfferIs == WireTypes /\ Wire!Offer =>
  /\ cuda.cue = "none" /\ ~lines.tip /\ cuda.does \in {"rest", "answer"}
  /\ CudaIs("offer", cuda.packet, cuda.pos, cuda.got, "none", cuda.taken)
  /\ ViaIs(Wire!Attention, TRUE, via.acr) /\ LinesAre(lines.tip, lines.ack, TRUE) /\ hal' = hal
<1> SUFFICES ASSUME ViaTypes, CudaTypes, Wire!Offer
    PROVE  /\ CudaIs("offer", cuda.packet, cuda.pos, cuda.got, "none", cuda.taken)
           /\ ViaIs(Wire!Attention, TRUE, via.acr) /\ LinesAre(lines.tip, lines.ack, TRUE)
  BY Zenon DEF WireTypes, Wire!Offer
<1>1. CudaIs("offer", cuda.packet, cuda.pos, cuda.got, "none", cuda.taken)
  BY DEF Wire!Offer, CudaIs, CudaTypes
<1>2. ViaIs(Wire!Attention, TRUE, via.acr) /\ LinesAre(lines.tip, lines.ack, TRUE)
  BY DEF Wire!Offer, ViaIs, LinesAre, ViaTypes
<1> QED
  BY <1>1, <1>2

\* Cuda sends a byte.
LEMMA SendIs == WireTypes /\ Wire!Send =>
  /\ Pending /\ cuda.does = "offer" /\ cuda.pos < Length[cuda.packet] /\ hal' = hal
  /\ CudaIs("offer", cuda.packet, cuda.pos + 1, cuda.got, "none", cuda.taken)
  /\ ViaIs(IF via.acr = "in" THEN Wire!In(cuda.packet, cuda.pos + 1) ELSE via.sr, TRUE, via.acr)
  /\ lines'.tip = lines.tip /\ lines'.ack = lines.ack /\ (lines'.treq <=> cuda.pos + 1 < Length[cuda.packet])
<1> SUFFICES ASSUME ViaTypes, CudaTypes, Wire!Send
    PROVE  /\ CudaIs("offer", cuda.packet, cuda.pos + 1, cuda.got, "none", cuda.taken)
           /\ ViaIs(IF via.acr = "in" THEN Wire!In(cuda.packet, cuda.pos + 1) ELSE via.sr, TRUE, via.acr)
           /\ lines'.tip = lines.tip /\ lines'.ack = lines.ack /\ (lines'.treq <=> cuda.pos + 1 < Length[cuda.packet])
  BY Zenon DEF WireTypes, Wire!Send, Pending
<1>1. CudaIs("offer", cuda.packet, cuda.pos + 1, cuda.got, "none", cuda.taken)
  BY DEF Wire!Send, CudaIs, CudaTypes
<1>2. ViaIs(IF via.acr = "in" THEN Wire!In(cuda.packet, cuda.pos + 1) ELSE via.sr, TRUE, via.acr)
  BY DEF Wire!Send, ViaIs, ViaTypes
<1>3. lines'.tip = lines.tip /\ lines'.ack = lines.ack /\ (lines'.treq <=> cuda.pos + 1 < Length[cuda.packet])
  BY DEF Wire!Send, ViaTypes
<1> QED
  BY <1>1, <1>2, <1>3

\* Cuda takes a byte.
LEMMA TakeIs == WireTypes /\ Wire!Take =>
  /\ cuda.cue = "tip" \/ (cuda.cue = "ack" /\ cuda.does = "take")
  /\ cuda.does = "offer" => via.acr = "out"
  /\ CudaIs("take", "poll", 0, Append(IF cuda.cue = "tip" THEN <<>> ELSE cuda.got,
                                      IF via.acr = "out" THEN via.sr ELSE Wire!Junk), "none", cuda.taken)
  /\ ViaIs(IF via.acr = "in" THEN Wire!Junk ELSE via.sr, TRUE, via.acr)
  /\ LinesAre(lines.tip, lines.ack, FALSE) /\ hal' = hal
<1> SUFFICES ASSUME ViaTypes, CudaTypes, Wire!Take
    PROVE  /\ CudaIs("take", "poll", 0, Append(IF cuda.cue = "tip" THEN <<>> ELSE cuda.got,
                                               IF via.acr = "out" THEN via.sr ELSE Wire!Junk), "none", cuda.taken)
           /\ ViaIs(IF via.acr = "in" THEN Wire!Junk ELSE via.sr, TRUE, via.acr)
           /\ LinesAre(lines.tip, lines.ack, FALSE)
  BY Zenon DEF WireTypes, Wire!Take
<1>1. CudaIs("take", "poll", 0, Append(IF cuda.cue = "tip" THEN <<>> ELSE cuda.got,
                                       IF via.acr = "out" THEN via.sr ELSE Wire!Junk), "none", cuda.taken)
  BY DEF Wire!Take, CudaIs, CudaTypes
<1>2. ViaIs(IF via.acr = "in" THEN Wire!Junk ELSE via.sr, TRUE, via.acr)
  BY DEF Wire!Take, ViaIs, ViaTypes
<1>3. LinesAre(lines.tip, lines.ack, FALSE)
  BY DEF Wire!Take, LinesAre, ViaTypes
<1> QED
  BY <1>1, <1>2, <1>3

\* Cuda obeys what it took.
LEMMA FinishTakeIs == WireTypes /\ Wire!FinishTake =>
  /\ cuda.cue = "end" /\ cuda.does = "take" /\ UNCHANGED <<via, lines, hal>>
  /\ \/ \E c \in Commands : /\ cuda.got = Wire!RequestBytes(c)
                            /\ CudaIs("answer", c, cuda.pos, <<>>, "none", cuda.taken \cup {c})
     \/ /\ \A c \in Commands : cuda.got # Wire!RequestBytes(c)
        /\ CudaIs("rest", cuda.packet, cuda.pos, <<>>, "none", cuda.taken)
<1> SUFFICES ASSUME CudaTypes, Wire!FinishTake
    PROVE  \/ \E c \in Commands : /\ cuda.got = Wire!RequestBytes(c)
                                  /\ CudaIs("answer", c, cuda.pos, <<>>, "none", cuda.taken \cup {c})
           \/ /\ \A c \in Commands : cuda.got # Wire!RequestBytes(c)
              /\ CudaIs("rest", cuda.packet, cuda.pos, <<>>, "none", cuda.taken)
  BY Zenon DEF WireTypes, Wire!FinishTake
<1>1. ASSUME NEW c \in Commands,
             cuda' = [cuda EXCEPT !.cue = "none", !.does = "answer", !.packet = c, !.got = <<>>, !.taken = @ \cup {c}]
      PROVE  CudaIs("answer", c, cuda.pos, <<>>, "none", cuda.taken \cup {c})
  BY <1>1 DEF CudaIs, CudaTypes
<1>2. ASSUME cuda' = [cuda EXCEPT !.cue = "none", !.does = "rest", !.got = <<>>]
      PROVE  CudaIs("rest", cuda.packet, cuda.pos, <<>>, "none", cuda.taken)
  BY <1>2 DEF CudaIs, CudaTypes
<1> QED
  BY <1>1, <1>2, Zenon DEF Wire!FinishTake

\* Cuda is done with its packet, or offers it again.
LEMMA FinishSendIs == WireTypes /\ Wire!FinishSend =>
  /\ cuda.cue = "end" /\ cuda.does = "offer" /\ hal' = hal
  /\ cuda'.does \in {"rest", "answer"} /\ cuda'.pos = 0 /\ cuda'.cue = "none" /\ cuda'.taken = cuda.taken
  /\ ViaIs(via.sr, TRUE, via.acr) /\ LinesAre(lines.tip, lines.ack, FALSE)
<1> SUFFICES ASSUME ViaTypes, CudaTypes, Wire!FinishSend
    PROVE  /\ cuda'.does \in {"rest", "answer"} /\ cuda'.pos = 0 /\ cuda'.cue = "none" /\ cuda'.taken = cuda.taken
           /\ ViaIs(via.sr, TRUE, via.acr) /\ LinesAre(lines.tip, lines.ack, FALSE)
  BY Zenon DEF WireTypes, Wire!FinishSend
<1>1. cuda'.does \in {"rest", "answer"} /\ cuda'.pos = 0 /\ cuda'.cue = "none" /\ cuda'.taken = cuda.taken
  BY DEF Wire!FinishSend, CudaTypes
<1>2. ViaIs(via.sr, TRUE, via.acr) /\ LinesAre(lines.tip, lines.ack, FALSE)
  BY DEF Wire!FinishSend, ViaIs, LinesAre, ViaTypes
<1> QED
  BY <1>1, <1>2

\* Cuda missed it all.
LEMMA FinishNothingIs == WireTypes /\ Wire!FinishNothing =>
  /\ cuda.cue = "end" /\ cuda.does \in {"rest", "answer"} /\ Cued("none") /\ UNCHANGED <<via, lines, hal>>
BY DEF WireTypes, Wire!FinishNothing, Cued, CudaIs, CudaTypes

\* The lines put to rest.
LEMMA LinesRestIs == WireTypes /\ LinesRest =>
  /\ LinesAre(FALSE, FALSE, lines.treq)
  /\ lines.tip => Cued("end")
  /\ ~lines.tip => cuda' = cuda
<1> SUFFICES ASSUME ViaTypes, CudaTypes, LinesRest
    PROVE  LinesAre(FALSE, FALSE, lines.treq) /\ (lines.tip => Cued("end")) /\ (~lines.tip => cuda' = cuda)
  BY DEF WireTypes
<1>1. LinesAre(FALSE, FALSE, lines.treq)
  BY DEF LinesRest, LinesAre, ViaTypes
<1>2. ASSUME cuda' = [cuda EXCEPT !.cue = "end"] PROVE Cued("end")
  BY <1>2 DEF Cued, CudaIs, CudaTypes
<1> QED
  BY <1>1, <1>2, Zenon DEF LinesRest

\* HalpCudaTip.
LEMMA TipIs == WireTypes /\ Wire!HalpCudaTip => LinesAre(TRUE, FALSE, lines.treq) /\ Cued("tip")
<1> SUFFICES ASSUME ViaTypes, CudaTypes, Wire!HalpCudaTip PROVE LinesAre(TRUE, FALSE, lines.treq) /\ Cued("tip")
  BY DEF WireTypes
<1>1. LinesAre(TRUE, FALSE, lines.treq)
  BY DEF Wire!HalpCudaTip, LinesAre, ViaTypes
<1>2. Cued("tip")
  BY DEF Wire!HalpCudaTip, Wire!Cue, Cued, CudaIs, CudaTypes
<1> QED
  BY <1>1, <1>2

\* HalpCudaToggleAck.
LEMMA ToggleIs == WireTypes /\ Wire!HalpCudaToggleAck =>
  lines'.tip = lines.tip /\ lines'.treq = lines.treq /\ Cued("ack")
<1> SUFFICES ASSUME ViaTypes, CudaTypes, Wire!HalpCudaToggleAck
    PROVE  lines'.tip = lines.tip /\ lines'.treq = lines.treq /\ Cued("ack")
  BY DEF WireTypes
<1>1. lines'.tip = lines.tip /\ lines'.treq = lines.treq
  BY DEF Wire!HalpCudaToggleAck, ViaTypes
<1>2. Cued("ack")
  BY DEF Wire!HalpCudaToggleAck, Wire!Cue, Cued, CudaIs, CudaTypes
<1> QED
  BY <1>1, <1>2

\* The end of a call.
LEMMA EndedIs ==
  ASSUME WireTypes, NEW r, NEW calm, Ended(r, calm)
  PROVE  \E e \in Ends : HalIs(e, hal.call, 0, r, calm)
<1>1. PICK e \in Ends : hal' = [hal EXCEPT !.reply = r, !.calm = calm, !.sent = 0, !.at = e]
  BY DEF Ended
<1>2. HalIs(e, hal.call, 0, r, calm)
  BY <1>1 DEF WireTypes, HalTypes, HalIs
<1> QED
  BY <1>2

\* The HAL goes on.
LEMMA MovedIs == ASSUME WireTypes, NEW at, hal' = [hal EXCEPT !.at = at] PROVE Moved(at)
BY DEF WireTypes, HalTypes, HalIs, Moved

\* HalpCudaInitialize.
LEMMA InitializeIs == WireTypes /\ HalInv /\ Wire!HalpCudaInitialize =>
  /\ hal.at = "off" /\ LinesAre(FALSE, FALSE, lines.treq) /\ cuda' = cuda
  /\ ViaIs(via.sr, FALSE, "in") /\ Moved("idle")
<1> SUFFICES ASSUME WireTypes, HalInv, Wire!HalpCudaInitialize
    PROVE  /\ hal.at = "off" /\ LinesAre(FALSE, FALSE, lines.treq) /\ cuda' = cuda
           /\ ViaIs(via.sr, FALSE, "in") /\ Moved("idle")
  OBVIOUS
<1>1. hal.at = "off" /\ LinesRest /\ ~lines.tip
  BY IdleLinesIs DEF Wire!HalpCudaInitialize, HalInv
<1>2. ViaIs(via.sr, FALSE, "in")
  BY DEF Wire!HalpCudaInitialize, ViaIs, WireTypes, ViaTypes
<1>3. Moved("idle")
  BY MovedIs DEF Wire!HalpCudaInitialize, Wire!Goes
<1> QED
  BY <1>1, <1>2, <1>3, LinesRestIs

\* HalpCudaRequest.
LEMMA RequestIs == ASSUME NEW c \in Commands, WireTypes, Wire!HalpCudaRequest(c) PROVE
  /\ hal.at = "idle" /\ hal'.at = "tip" /\ hal'.call = c /\ hal'.sent = 0 /\ hal'.reply = <<>>
  /\ hal'.calm <=> cuda.does = "rest" /\ cuda.cue = "none"
  /\ ViaIs(Wire!Out(c, 1), FALSE, "out") /\ lines' = lines
  /\ CudaIs(cuda.does, cuda.packet, cuda.pos, cuda.got, cuda.cue, {})
<1>1. ViaIs(Wire!Out(c, 1), FALSE, "out") /\ lines' = lines
  BY DEF Wire!HalpCudaRequest, Wire!WriteSr, ViaIs, WireTypes, ViaTypes
<1>2. CudaIs(cuda.does, cuda.packet, cuda.pos, cuda.got, cuda.cue, {})
  BY DEF Wire!HalpCudaRequest, CudaIs, WireTypes, CudaTypes
<1>3. /\ hal.at = "idle" /\ hal'.at = "tip" /\ hal'.call = c /\ hal'.sent = 0 /\ hal'.reply = <<>>
      /\ hal'.calm <=> cuda.does = "rest" /\ cuda.cue = "none"
  BY DEF Wire!HalpCudaRequest, Wire!Begin
<1> QED
  BY <1>1, <1>2, <1>3

\* HalpCudaService.
LEMMA ServiceIs == Wire!HalpCudaService =>
  /\ via.ifr /\ hal.at = "idle" /\ hal'.at = "attention" /\ hal'.call = "service" /\ hal'.sent = 0 /\ hal'.reply = <<>>
  /\ hal'.calm <=> cuda.does = "offer" /\ cuda.cue = "none"
  /\ UNCHANGED <<via, lines, cuda>>
<1> SUFFICES ASSUME Wire!HalpCudaService
    PROVE  /\ hal.at = "idle" /\ hal'.at = "attention" /\ hal'.call = "service" /\ hal'.sent = 0 /\ hal'.reply = <<>>
           /\ hal'.calm <=> cuda.does = "offer" /\ cuda.cue = "none"
  BY Zenon DEF Wire!HalpCudaService
<1> QED
  BY DEF Wire!HalpCudaService, Wire!Begin

\* TIP, with the first byte in the register.
LEMMA WriteFirstIs == WireTypes /\ Wire!HalpCudaWriteFirst =>
  /\ hal.at = "tip" /\ hal'.at = "written" /\ hal'.call = hal.call /\ hal'.sent = hal.sent /\ hal'.reply = hal.reply
  /\ hal'.calm <=> hal.calm /\ cuda.does = "rest"
  /\ LinesAre(TRUE, FALSE, lines.treq) /\ Cued("tip") /\ via' = via
<1> SUFFICES ASSUME WireTypes, Wire!HalpCudaWriteFirst
    PROVE  /\ hal'.at = "written" /\ hal'.call = hal.call /\ hal'.sent = hal.sent /\ hal'.reply = hal.reply
           /\ hal'.calm <=> hal.calm /\ cuda.does = "rest"
  BY TipIs DEF Wire!HalpCudaWriteFirst
<1> QED
  BY DEF Wire!HalpCudaWriteFirst, WireTypes, HalTypes

\* The next byte.
LEMMA WriteNextIs == WireTypes /\ Wire!HalpCudaWriteNext =>
  /\ hal.at = "written" /\ via.ifr /\ hal.sent < Payload[hal.call]
  /\ HalIs("written", hal.call, hal.sent + 1, hal.reply, hal.calm)
  /\ ViaIs(Wire!Out(hal.call, hal.sent + 2), FALSE, "out")
  /\ lines'.tip = lines.tip /\ lines'.treq = lines.treq /\ Cued("ack")
<1> SUFFICES ASSUME WireTypes, Wire!HalpCudaWriteNext
    PROVE  HalIs("written", hal.call, hal.sent + 1, hal.reply, hal.calm) /\ ViaIs(Wire!Out(hal.call, hal.sent + 2), FALSE, "out")
  BY ToggleIs DEF Wire!HalpCudaWriteNext, Wire!Comes
<1>1. HalIs("written", hal.call, hal.sent + 1, hal.reply, hal.calm)
  BY DEF Wire!HalpCudaWriteNext, HalIs, WireTypes, HalTypes
<1>2. ViaIs(Wire!Out(hal.call, hal.sent + 2), FALSE, "out")
  BY DEF Wire!HalpCudaWriteNext, Wire!WriteSr, ViaIs, WireTypes, ViaTypes
<1> QED
  BY <1>1, <1>2

\* The last byte is taken, or none is.
LEMMA WriteEndIs == WireTypes /\ Wire!HalpCudaWriteEnd =>
  /\ hal.at = "written" /\ (via.ifr => hal.sent = Payload[hal.call])
  /\ hal'.at = "ending" /\ hal'.call = hal.call /\ hal'.reply = hal.reply
  /\ hal'.ok = via.ifr /\ (hal'.calm <=> hal.calm /\ via.ifr)
  /\ ViaIs(via.sr, FALSE, "in") /\ UNCHANGED <<lines, cuda>>
<1> SUFFICES ASSUME WireTypes, Wire!HalpCudaWriteEnd
    PROVE  /\ hal'.at = "ending" /\ hal'.call = hal.call /\ hal'.reply = hal.reply
           /\ hal'.ok = via.ifr /\ (hal'.calm <=> hal.calm /\ via.ifr)
           /\ ViaIs(via.sr, FALSE, "in")
  BY DEF Wire!HalpCudaWriteEnd, Wire!Comes, Wire!GivesUp
<1>1. /\ hal'.at = "ending" /\ hal'.call = hal.call /\ hal'.reply = hal.reply
      /\ hal'.ok = via.ifr /\ (hal'.calm <=> hal.calm /\ via.ifr)
  BY DEF Wire!HalpCudaWriteEnd, Wire!Comes, WireTypes, HalTypes
<1>2. ViaIs(via.sr, FALSE, "in")
  BY DEF Wire!HalpCudaWriteEnd, ViaIs, WireTypes, ViaTypes
<1> QED
  BY <1>1, <1>2

\* The attention byte.
LEMMA ReadAttentionIs == WireTypes /\ Wire!ReadAttention =>
  hal.at = "attention" /\ via.ifr /\ ViaIs(via.sr, FALSE, via.acr) /\ Moved("answer") /\ UNCHANGED <<lines, cuda>>
<1> SUFFICES ASSUME WireTypes, Wire!ReadAttention PROVE ViaIs(via.sr, FALSE, via.acr)
  BY MovedIs DEF Wire!ReadAttention, Wire!Goes, Wire!Comes
<1> QED
  BY DEF Wire!ReadAttention, Wire!ReadSr, ViaIs, WireTypes, ViaTypes

\* TIP, for the type byte.
LEMMA ReadTipIs == WireTypes /\ Wire!ReadTip =>
  hal.at = "answer" /\ LinesAre(TRUE, FALSE, lines.treq) /\ Cued("tip") /\ Moved("byte") /\ via' = via
<1> SUFFICES ASSUME WireTypes, Wire!ReadTip PROVE LinesAre(TRUE, FALSE, lines.treq) /\ Cued("tip") /\ Moved("byte")
  BY Zenon DEF Wire!ReadTip
<1>1. Moved("byte")
  BY MovedIs DEF Wire!ReadTip, Wire!Goes
<1> QED
  BY <1>1, TipIs DEF Wire!ReadTip

\* A byte is read.
LEMMA ReadNextIs == WireTypes /\ Wire!HalpCudaReadNext =>
  /\ hal.at = "byte" /\ via.ifr /\ ViaIs(via.sr, FALSE, via.acr)
  /\ HalIs("more", hal.call, hal.sent, Append(hal.reply, via.sr), hal.calm)
  /\ UNCHANGED <<lines, cuda>>
<1> SUFFICES ASSUME WireTypes, Wire!HalpCudaReadNext
    PROVE  ViaIs(via.sr, FALSE, via.acr) /\ HalIs("more", hal.call, hal.sent, Append(hal.reply, via.sr), hal.calm)
  BY DEF Wire!HalpCudaReadNext, Wire!Comes
<1>1. ViaIs(via.sr, FALSE, via.acr)
  BY DEF Wire!HalpCudaReadNext, Wire!ReadSr, ViaIs, WireTypes, ViaTypes
<1>2. HalIs("more", hal.call, hal.sent, Append(hal.reply, via.sr), hal.calm)
  BY DEF Wire!HalpCudaReadNext, HalIs, WireTypes, HalTypes
<1> QED
  BY <1>1, <1>2

-----------------------------------------------------------------------------
(* Cuda and the lines. *)

\* Cuda is one event behind at most.
LEMMA NextCueInv == WireTypes /\ HalInv /\ CueInv /\ Wire!Next => CueInv'
<1> SUFFICES ASSUME WireTypes, HalInv, CueInv, Wire!Next PROVE CueInv'
  OBVIOUS
<1>0. /\ cuda.pos \in Nat /\ cuda.packet \in Wire!Packets /\ \A q \in Wire!Packets : Length[q] >= 0
      /\ "poll" \in Wire!Packets /\ hal.at \in {"off"} \cup Idles \cup Busy /\ Length[cuda.packet] \in Nat
      /\ \A c \in Commands : c \in Wire!Packets
  BY LengthsAre DEF WireTypes, CudaTypes, HalTypes
<1> USE <1>0 DEF CueInv, Pending, Held, CudaIs, LinesAre, ViaIs, Cued
<1>1. CASE Wire!Offer
  BY <1>1, OfferIs
<1>2. CASE Wire!Send
  <2>1. /\ cuda'.does = "offer" /\ cuda'.packet = cuda.packet /\ cuda'.pos = cuda.pos + 1 /\ cuda'.cue = "none"
        /\ cuda.pos < Length[cuda.packet] /\ Pending /\ lines'.tip = lines.tip /\ hal' = hal
    BY <1>2, SendIs
  <2>2. lines.tip /\ hal.at # "answer"
    BY <2>1 DEF HalInv, Idles
  <2> QED
    BY <2>1, <2>2
<1>3. CASE Wire!Take
  <2>1. Length["poll"] >= 0
    OBVIOUS
  <2> QED
    BY <1>3, <2>1, TakeIs
<1>4. CASE Wire!FinishTake
  BY <1>4, FinishTakeIs
<1>5. CASE Wire!FinishSend
  <2>1. cuda'.packet \in Wire!Packets
    BY <1>5, NextCudaTypes DEF CudaTypes
  <2> QED
    BY <1>5, <2>1, FinishSendIs
<1>6. CASE Wire!FinishNothing
  BY <1>6, FinishNothingIs
<1>7. CASE Wire!HalpCudaInitialize
  <2>1. lines'.tip = FALSE /\ cuda' = cuda /\ lines'.treq = lines.treq /\ ~lines.tip /\ hal'.at = "idle"
    BY <1>7, InitializeIs DEF Moved, HalIs, HalInv
  <2> QED
    BY <2>1
<1>8. ASSUME NEW c \in Commands, Wire!HalpCudaRequest(c) PROVE CueInv'
  BY <1>8, RequestIs
<1>9. CASE Wire!HalpCudaService
  BY <1>9, ServiceIs
<1>10. CASE Wire!HalpCudaWriteFirst
  BY <1>10, WriteFirstIs
<1>11. CASE Wire!HalpCudaWriteNext
  BY <1>11, WriteNextIs DEF HalIs, HalInv, Busy
<1>12. CASE Wire!HalpCudaWriteEnd
  BY <1>12, WriteEndIs
<1>13. CASE LinesRest /\ hal'.at \notin {"written", "byte", "more", "answer"}
  BY <1>13, LinesRestIs
<1>14. ASSUME NEW r, NEW calm, Ended(r, calm) PROVE hal'.at \in Ends
  BY <1>14, EndedIs DEF HalIs
<1>15. CASE Wire!WriteEnded
  <2>1. ASSUME hal' = [hal EXCEPT !.at = "attention"] PROVE hal'.at = "attention"
    BY <2>1, MovedIs DEF Moved, HalIs
  <2> QED
    BY <1>13, <1>14, <1>15, <2>1, WriteEndedIs DEF Ends
<1>16. CASE Wire!ReadAttention
  BY <1>16, ReadAttentionIs DEF Moved, HalIs
<1>17. CASE Wire!ReadTip
  BY <1>17, ReadTipIs DEF Moved, HalIs
<1>18. CASE Wire!HalpCudaReadNext
  BY <1>18, ReadNextIs DEF HalIs
<1>19. CASE Wire!ReadGivesUp
  <2>1. ASSUME hal' = [hal EXCEPT !.at = "acknowledge", !.calm = FALSE] PROVE hal'.at = "acknowledge"
    BY <2>1 DEF WireTypes, HalTypes
  <2> QED
    BY <1>13, <1>14, <1>19, <2>1, ReadGivesUpIs DEF Ends
<1>20. CASE Wire!HalpCudaReadPacket
  <2>1. CASE Wire!HalpCudaToggleAck /\ Wire!Goes("byte")
    <3>1. lines'.tip = lines.tip /\ lines.tip /\ lines'.treq = lines.treq /\ Cued("ack") /\ hal'.at = "byte"
      BY <1>20, <2>1, ToggleIs, MovedIs DEF Moved, HalIs, Wire!Goes, Wire!HalpCudaReadPacket, HalInv, Busy
    <3> QED
      BY <3>1
  <2>2. CASE LinesRest /\ hal' = [hal EXCEPT !.at = "acknowledge"]
    BY <1>13, <2>2, MovedIs DEF Moved, HalIs
  <2> QED
    BY <1>20, <2>1, <2>2, IdleLinesIs DEF Wire!HalpCudaReadPacket, Wire!Goes
<1>21. CASE Wire!HalpCudaReadEnd
  <2>1. lines' = lines /\ cuda' = cuda /\ hal'.at \in Ends
    BY <1>14, <1>21, ReadEndIs
  <2> QED
    BY <2>1 DEF Ends
<1> QED
  BY <1>1, <1>2, <1>3, <1>4, <1>5, <1>6, <1>7, <1>8, <1>9, <1>10, <1>11, <1>12, <1>15, <1>16, <1>17, <1>18, <1>19, <1>20,
     <1>21 DEF Wire!Next, Wire!Cuda, Wire!Hal

-----------------------------------------------------------------------------
(* The echo. *)

\* The three things the invariant tells apart.
JunkComes == (Got >= 1 /\ via.ifr => via.sr = Wire!Junk) /\ (Got >= 3 => hal.reply[3] = Wire!Junk)
ByteWaits ==
  /\ Got >= 1 /\ via.ifr => via.sr = Wire!In(cuda.packet, cuda.pos)
  /\ hal.at = "byte" /\ via.ifr /\ Pending => cuda.pos = Got
  /\ hal.at = "more" /\ Pending => ~via.ifr /\ cuda.pos = Got - 1
  /\ hal.at = "more" /\ via.ifr => cuda.pos = Got
InStep ==
  Echoed => /\ cuda.packet = hal.call
            /\ hal.at = "more" => ~via.ifr /\ ~Pending /\ cuda.pos = Got
            /\ hal.at = "byte" /\ via.ifr => ~Pending /\ cuda.pos = Got + 1
            /\ hal.at = "byte" /\ ~via.ifr => cuda.pos = Got

\* ReadingInv in these parts.
LEMMA ReadingIs ==
  ReadingInv <=> (hal.at \in {"byte", "more"} => IF cuda.does # "offer" THEN JunkComes ELSE ByteWaits /\ InStep)
BY Zenon DEF ReadingInv, JunkComes, ByteWaits, InStep, Held

\* The reply is unchanged, or ended with what it was, or is empty.
LEMMA EchoKept ==
  ASSUME EchoedOn, hal'.reply = hal.reply, hal'.call = hal.call
  PROVE  EchoedOn'
BY DEF EchoedOn, Echoed, Got

\* An empty reply echoes nothing.
LEMMA EchoEmpty == ASSUME hal'.reply = <<>> PROVE EchoedOn'
BY DEF EchoedOn, Echoed, Got

\* The byte after an echo is the next of the same packet.
LEMMA NextEchoedOn == WireTypes /\ HalInv /\ EchoedOn /\ ReadingInv /\ Wire!Next => EchoedOn'
<1> SUFFICES ASSUME WireTypes, HalInv, EchoedOn, ReadingInv, Wire!Next PROVE EchoedOn'
  OBVIOUS
<1> USE EchoKept, EchoEmpty DEF HalIs, Moved
<1>1. CASE Wire!Cuda
  BY <1>1 DEF Wire!Cuda, Wire!Offer, Wire!Send, Wire!Take, Wire!FinishTake, Wire!FinishSend, Wire!FinishNothing
<1>2. CASE Wire!HalpCudaInitialize
  BY <1>2, InitializeIs
<1>3. ASSUME NEW c \in Commands, Wire!HalpCudaRequest(c) PROVE EchoedOn'
  BY <1>3, RequestIs
<1>4. CASE Wire!HalpCudaService
  BY <1>4, ServiceIs
<1>5. CASE Wire!HalpCudaWriteFirst \/ Wire!HalpCudaWriteNext \/ Wire!HalpCudaWriteEnd
  BY <1>5, WriteFirstIs, WriteNextIs, WriteEndIs
<1>6. ASSUME NEW at, hal' = [hal EXCEPT !.at = at] PROVE EchoedOn'
  BY <1>6, MovedIs
<1>7. ASSUME NEW calm, Ended(<<>>, calm) PROVE EchoedOn'
  BY <1>7, EndedIs
<1>8. CASE Wire!WriteEnded
  BY <1>6, <1>7, <1>8, WriteEndedIs
<1>9. CASE Wire!ReadAttention \/ Wire!ReadTip
  BY <1>9, ReadAttentionIs, ReadTipIs
<1>10. CASE Wire!HalpCudaReadNext
  <2>1. hal.reply \in Seq(Wire!Bytes) /\ via.sr \in Wire!Bytes /\ Got \in Nat
    BY DEF WireTypes, HalTypes, ViaTypes, Got
  <2>2. hal.at = "byte" /\ via.ifr /\ hal'.reply = Append(hal.reply, via.sr) /\ hal'.call = hal.call
    BY <1>10, ReadNextIs
  <2>3. Got' = Got + 1 /\ (\A k \in 1 .. Got : hal'.reply[k] = hal.reply[k]) /\ hal'.reply[Got + 1] = via.sr
    BY <2>1, <2>2 DEF Got
  <2>4. CASE Echoed
    <3>1. Got >= 3 /\ \A k \in 3 .. Got : hal.reply[k] = Wire!In(hal.call, k)
      BY <2>4 DEF EchoedOn, Echoed
    <3>2. cuda.does = "offer"
      BY <2>2, <2>4, BytesDiffer DEF ReadingInv, Echoed
    <3>3. via.sr = Wire!In(hal.call, Got + 1)
      <4>1. ByteWaits /\ InStep
        BY <2>2, <3>2, ReadingIs
      <4>2. cuda.packet = hal.call /\ cuda.pos = Got + 1
        BY <2>2, <2>4, <4>1 DEF InStep
      <4>3. via.sr = Wire!In(cuda.packet, cuda.pos)
        BY <2>1, <2>2, <3>1, <4>1 DEF ByteWaits
      <4> QED
        BY <4>2, <4>3
    <3>4. ASSUME NEW k \in 3 .. Got' PROVE hal'.reply[k] = Wire!In(hal'.call, k)
      <4>1. CASE k = Got + 1
        BY <2>2, <2>3, <3>3, <4>1
      <4>2. CASE k \in 3 .. Got
        <5>1. k \in 1 .. Got
          BY <2>1, <4>2
        <5> QED
          BY <2>2, <2>3, <3>1, <4>2, <5>1
      <4> QED
        BY <2>1, <2>3, <4>1, <4>2
    <3> QED
      BY <3>4 DEF EchoedOn
  <2>5. CASE ~Echoed
    <3>1. CASE Got >= 3
      <4>1. hal.reply[3] # Wire!In(hal.call, 3) /\ 3 \in 1 .. Got
        BY <2>1, <2>5, <3>1 DEF Echoed
      <4>2. hal'.reply[3] # Wire!In(hal'.call, 3)
        BY <2>2, <2>3, <4>1
      <4> QED
        BY <4>2 DEF EchoedOn, Echoed
    <3>2. CASE Got < 3
      <4> SUFFICES ASSUME Echoed', NEW k \in 3 .. Got' PROVE hal'.reply[k] = Wire!In(hal'.call, k)
        BY DEF EchoedOn
      <4>1. k = 3
        BY <2>1, <2>3, <3>2
      <4> QED
        BY <4>1 DEF Echoed
    <3> QED
      BY <2>1, <3>1, <3>2
  <2> QED
    BY <2>4, <2>5
<1>11. CASE Wire!ReadGivesUp
  <2>1. ASSUME hal' = [hal EXCEPT !.at = "acknowledge", !.calm = FALSE] PROVE EchoedOn'
    BY <2>1 DEF WireTypes, HalTypes
  <2> QED
    BY <1>7, <1>11, <2>1, ReadGivesUpIs
<1>12. CASE Wire!HalpCudaReadPacket
  BY <1>6, <1>12, ReadPacketIs
<1>13. CASE Wire!HalpCudaReadEnd
  BY <1>13, ReadEndIs, EndedIs
<1> QED
  BY <1>1, <1>2, <1>3, <1>4, <1>5, <1>8, <1>9, <1>10, <1>11, <1>12, <1>13 DEF Wire!Next, Wire!Hal

-----------------------------------------------------------------------------
(* Cuda while the HAL reads. *)

\* A step that ends elsewhere than in a reading.
LEMMA NotReading == ASSUME hal'.at \notin {"byte", "more"} PROVE ReadingInv'
BY DEF ReadingInv

\* A byte read, and Cuda where it was.
LEMMA ReadNextReads == WireTypes /\ HalInv /\ CueInv /\ ReadingInv /\ Wire!HalpCudaReadNext => ReadingInv'
<1> SUFFICES ASSUME WireTypes, HalInv, CueInv, ReadingInv, Wire!HalpCudaReadNext PROVE ReadingInv'
  OBVIOUS
<1>1. hal.reply \in Seq(Wire!Bytes) /\ via.sr \in Wire!Bytes /\ Got \in Nat /\ cuda.pos \in Nat
  BY DEF WireTypes, HalTypes, ViaTypes, CudaTypes, Got
<1>2. /\ hal.at = "byte" /\ via.ifr /\ hal'.reply = Append(hal.reply, via.sr) /\ hal'.call = hal.call
      /\ hal'.at = "more" /\ ~via'.ifr /\ cuda' = cuda
  BY ReadNextIs DEF HalIs, ViaIs
<1>3. Got' = Got + 1 /\ (\A k \in 1 .. Got : hal'.reply[k] = hal.reply[k]) /\ hal'.reply[Got + 1] = via.sr
  BY <1>1, <1>2 DEF Got
<1>4. CASE cuda.does # "offer"
  <2>1. JunkComes
    BY <1>2, <1>4, ReadingIs
  <2>2. ASSUME Got' >= 3 PROVE hal'.reply[3] = Wire!Junk
    <3>1. CASE Got = 2
      <4>1. via.sr = Wire!Junk
        BY <1>2, <2>1, <3>1 DEF JunkComes
      <4>2. hal'.reply[Got + 1] = hal'.reply[3]
        BY <3>1
      <4> QED
        BY <1>3, <4>1, <4>2
    <3>2. CASE Got >= 3
      <4>1. 3 \in 1 .. Got /\ hal.reply[3] = Wire!Junk
        BY <1>1, <2>1, <3>2 DEF JunkComes
      <4> QED
        BY <1>3, <4>1
    <3> QED
      BY <1>1, <1>3, <2>2, <3>1, <3>2
  <2> QED
    BY <1>2, <1>4, <2>2 DEF ReadingInv
<1>5. CASE cuda.does = "offer"
  <2>1. ByteWaits /\ InStep
    BY <1>2, <1>5, ReadingIs
  <2>2. ByteWaits'
    BY <1>1, <1>2, <1>3, <2>1 DEF ByteWaits, Pending
  <2>3. ASSUME Echoed' PROVE cuda.packet = hal.call /\ ~Pending /\ cuda.pos = Got'
    <3>1. CASE Got = 2
      <4>0. hal'.reply[Got + 1] = hal'.reply[3]
        BY <3>1
      <4>1. via.sr = Wire!In(hal.call, 3) /\ via.sr = Wire!In(cuda.packet, cuda.pos)
        <5>1. via.sr = Wire!In(hal.call, 3)
          BY <1>2, <1>3, <2>3, <4>0 DEF Echoed
        <5>2. via.sr = Wire!In(cuda.packet, cuda.pos)
          BY <1>2, <2>1, <3>1 DEF ByteWaits
        <5> QED
          BY <5>1, <5>2
      <4>2. cuda.packet = hal.call /\ cuda.pos = 3
        BY <4>1, BytesDiffer
      <4> QED
        BY <1>2, <1>3, <2>1, <3>1, <4>2 DEF ByteWaits
    <3>2. CASE Got >= 3
      <4>1. 3 \in 1 .. Got
        BY <1>1, <3>2
      <4>2. Echoed
        BY <1>2, <1>3, <2>3, <3>2, <4>1 DEF Echoed
      <4> QED
        BY <1>2, <1>3, <2>1, <4>2 DEF InStep
    <3>3. Got + 1 >= 3
      BY <1>3, <2>3 DEF Echoed
    <3> QED
      BY <1>1, <3>1, <3>2, <3>3
  <2>4. InStep'
    BY <1>2, <1>3, <2>3 DEF InStep, Pending
  <2>5. (IF cuda.does # "offer" THEN JunkComes ELSE ByteWaits /\ InStep)'
    BY <1>2, <1>5, <2>2, <2>4
  <2>6. (ReadingInv <=> (hal.at \in {"byte", "more"} => IF cuda.does # "offer" THEN JunkComes ELSE ByteWaits /\ InStep))'
    BY ReadingIs, PTL
  <2> QED
    BY <2>5, <2>6
<1> QED
  BY <1>4, <1>5

\* Cuda and the reading stay together.
LEMMA NextReadingInv == WireTypes /\ HalInv /\ CueInv /\ ReadingInv /\ Wire!Next => ReadingInv'
<1> SUFFICES ASSUME WireTypes, HalInv, CueInv, ReadingInv, Wire!Next PROVE ReadingInv'
  OBVIOUS
<1>0. /\ (ReadingInv <=> (hal.at \in {"byte", "more"} => IF cuda.does # "offer" THEN JunkComes ELSE ByteWaits /\ InStep))'
      /\ Got \in Nat /\ cuda.pos \in Nat
      /\ hal.at \in {"byte", "more"} => lines.tip /\ via.acr = "in" /\ cuda.cue # "end"
  <2>1. (ReadingInv <=> (hal.at \in {"byte", "more"} => IF cuda.does # "offer" THEN JunkComes ELSE ByteWaits /\ InStep))'
    BY ReadingIs, PTL
  <2>2. Got \in Nat /\ cuda.pos \in Nat
    BY DEF WireTypes, HalTypes, CudaTypes, Got
  <2>3. hal.at \in {"byte", "more"} => lines.tip /\ via.acr = "in" /\ cuda.cue # "end"
    BY DEF HalInv, CueInv, Busy
  <2> QED
    BY <2>1, <2>2, <2>3
<1> USE DEF HalIs, Moved, CudaIs, ViaIs, LinesAre, Cued
<1>1. CASE Wire!Offer
  <2>1. hal'.at \notin {"byte", "more"}
    BY <1>0, <1>1, OfferIs
  <2> QED
    BY <2>1, NotReading
<1>2. CASE Wire!Send
  <2>1. /\ Pending /\ cuda.does = "offer" /\ cuda'.does = "offer" /\ cuda'.packet = cuda.packet /\ cuda'.pos = cuda.pos + 1
        /\ cuda'.cue = "none" /\ via'.ifr /\ hal' = hal
        /\ via.acr = "in" => via'.sr = Wire!In(cuda.packet, cuda.pos + 1)
    BY <1>2, SendIs
  <2>2. CASE hal.at \in {"byte", "more"}
    <3>1. ByteWaits /\ InStep /\ Got' = Got /\ (Echoed' <=> Echoed)
      BY <2>1, <2>2, ReadingIs DEF Got, Echoed
    <3>2. ByteWaits'
      BY <1>0, <2>1, <2>2, <3>1 DEF ByteWaits, Pending
    <3>3. InStep'
      BY <1>0, <2>1, <2>2, <3>1 DEF InStep, Pending
    <3> QED
      BY <1>0, <2>1, <3>2, <3>3
  <2>3. CASE hal.at \notin {"byte", "more"}
    BY <2>1, <2>3, NotReading
  <2> QED
    BY <2>2, <2>3
<1>3. CASE Wire!Take
  <2>1. /\ cuda.does = "offer" => via.acr = "out"
        /\ cuda'.does = "take" /\ hal' = hal /\ (via.acr = "in" => via'.sr = Wire!Junk)
    BY <1>3, TakeIs
  <2>2. CASE hal.at \in {"byte", "more"}
    <3>1. JunkComes /\ Got' = Got
      BY <1>0, <2>1, <2>2, ReadingIs DEF Got
    <3>2. JunkComes'
      BY <1>0, <2>1, <2>2, <3>1 DEF JunkComes
    <3> QED
      BY <1>0, <2>1, <3>2
  <2>3. CASE hal.at \notin {"byte", "more"}
    BY <2>1, <2>3, NotReading
  <2> QED
    BY <2>2, <2>3
<1>4. CASE Wire!FinishTake \/ Wire!FinishSend \/ Wire!FinishNothing
  <2>1. hal'.at \notin {"byte", "more"}
    BY <1>0, <1>4, FinishTakeIs, FinishSendIs, FinishNothingIs
  <2> QED
    BY <2>1, NotReading
<1>5. CASE Wire!HalpCudaInitialize \/ Wire!HalpCudaService
  BY <1>5, InitializeIs, ServiceIs, NotReading
<1>6. ASSUME NEW c \in Commands, Wire!HalpCudaRequest(c) PROVE ReadingInv'
  BY <1>6, RequestIs, NotReading
<1>7. CASE Wire!HalpCudaWriteFirst \/ Wire!HalpCudaWriteNext \/ Wire!HalpCudaWriteEnd
  BY <1>7, WriteFirstIs, WriteNextIs, WriteEndIs, NotReading
<1>8. ASSUME NEW at, at \notin {"byte", "more"}, hal' = [hal EXCEPT !.at = at] PROVE ReadingInv'
  BY <1>8, MovedIs, NotReading
<1>9. ASSUME NEW r, NEW calm, Ended(r, calm) PROVE ReadingInv'
  BY <1>9, EndedIs, NotReading DEF Ends
<1>10. CASE Wire!WriteEnded
  <2>1. hal' = [hal EXCEPT !.at = "attention"] \/ Ended(<<>>, FALSE)
    BY <1>10, WriteEndedIs, Zenon
  <2> QED
    BY <1>8, <1>9, <2>1
<1>11. CASE Wire!ReadAttention
  BY <1>11, ReadAttentionIs, NotReading
<1>12. CASE Wire!ReadTip
  <2>1. /\ hal.at = "answer" /\ hal'.at = "byte" /\ hal'.reply = hal.reply /\ cuda'.does = cuda.does /\ cuda'.pos = cuda.pos
        /\ via' = via /\ Got = 0
    BY <1>12, ReadTipIs DEF HalInv
  <2>2. Got' = 0 /\ ~Echoed'
    BY <2>1 DEF Got, Echoed
  <2>3. CASE cuda.does = "offer"
    <3>1. via.ifr => cuda.pos = 0
      BY <2>1, <2>3 DEF CueInv
    <3>2. ByteWaits' /\ InStep'
      BY <2>1, <2>2, <3>1 DEF ByteWaits, InStep
    <3> QED
      BY <1>0, <2>1, <2>3, <3>2
  <2>4. CASE cuda.does # "offer"
    <3>1. JunkComes'
      BY <2>2 DEF JunkComes
    <3> QED
      BY <1>0, <2>1, <2>4, <3>1
  <2> QED
    BY <2>3, <2>4
<1>13. CASE Wire!HalpCudaReadNext
  BY <1>13, ReadNextReads
<1>14. CASE Wire!ReadGivesUp
  <2>1. ASSUME hal' = [hal EXCEPT !.at = "acknowledge", !.calm = FALSE] PROVE hal'.at = "acknowledge"
    BY <2>1 DEF WireTypes, HalTypes
  <2>2. hal' = [hal EXCEPT !.at = "acknowledge", !.calm = FALSE] \/ Ended(<<>>, FALSE)
    BY <1>14, ReadGivesUpIs, Zenon
  <2> QED
    BY <1>9, <2>1, <2>2, NotReading
<1>15. CASE Wire!HalpCudaReadPacket
  <2>1. CASE Wire!HalpCudaToggleAck /\ Wire!Goes("byte") /\ via' = via
    <3>1. /\ hal.at = "more" /\ hal'.at = "byte" /\ hal'.reply = hal.reply /\ hal'.call = hal.call
          /\ cuda'.does = cuda.does /\ cuda'.packet = cuda.packet /\ cuda'.pos = cuda.pos /\ cuda'.cue = "ack"
      BY <1>15, <2>1, ToggleIs, MovedIs DEF Wire!Goes, Wire!HalpCudaReadPacket
    <3>2. Got' = Got /\ (Echoed' <=> Echoed)
      BY <3>1 DEF Got, Echoed
    <3>3. CASE cuda.does = "offer"
      <4>1. ByteWaits /\ InStep
        BY <3>1, <3>3, ReadingIs
      <4>2. ByteWaits'
        BY <2>1, <3>1, <3>2, <4>1 DEF ByteWaits
      <4>3. InStep'
        BY <2>1, <3>1, <3>2, <4>1 DEF InStep
      <4> QED
        BY <1>0, <3>1, <3>3, <4>2, <4>3
    <3>4. CASE cuda.does # "offer"
      <4>1. JunkComes
        BY <3>1, <3>4, ReadingIs
      <4>2. JunkComes'
        BY <2>1, <3>1, <3>2, <4>1 DEF JunkComes
      <4> QED
        BY <1>0, <3>1, <3>4, <4>2
    <3> QED
      BY <3>3, <3>4
  <2>2. CASE hal' = [hal EXCEPT !.at = "acknowledge"]
    BY <1>8, <2>2
  <2> QED
    BY <1>15, <2>1, <2>2, Zenon DEF Wire!HalpCudaReadPacket, Wire!Goes
<1>16. CASE Wire!HalpCudaReadEnd
  BY <1>9, <1>16, ReadEndIs
<1> QED
  BY <1>1, <1>2, <1>3, <1>4, <1>5, <1>6, <1>7, <1>10, <1>11, <1>12, <1>13, <1>14, <1>15, <1>16
     DEF Wire!Next, Wire!Cuda, Wire!Hal

-----------------------------------------------------------------------------
(* A call that is answered in time. *)

\* What Cuda has gathered when it has all of a request is that request, and no
\* other.
LEMMA RequestGathered ==
  ASSUME CudaTypes, hal.call \in Commands, Gathered(Payload[hal.call] + 1)
  PROVE  /\ cuda.got = Wire!RequestBytes(hal.call)
         /\ \A c \in Commands : cuda.got = Wire!RequestBytes(c) => c = hal.call
<1>1. Payload[hal.call] \in Nat
  BY LengthsAre
<1>2. cuda.got \in Seq(Wire!Bytes)
  BY DEF CudaTypes
<1>3. cuda.got = [i \in 1 .. Payload[hal.call] + 1 |-> cuda.got[i]]
  BY <1>1, <1>2 DEF Gathered
<1>4. cuda.got = Wire!RequestBytes(hal.call)
  BY <1>3 DEF Gathered, Wire!RequestBytes
<1>5. ASSUME NEW c \in Commands, cuda.got = Wire!RequestBytes(c) PROVE c = hal.call
  <2>1. Payload[c] \in Nat
    BY LengthsAre
  <2>2. 1 \in 1 .. Payload[c] + 1 /\ 1 \in 1 .. Payload[hal.call] + 1
    BY <1>1, <2>1
  <2>3. cuda.got[1] = Wire!Out(c, 1)
    BY <1>5, <2>2 DEF Wire!RequestBytes
  <2>4. cuda.got[1] = Wire!Out(hal.call, 1)
    BY <2>2 DEF Gathered
  <2> QED
    BY <2>3, <2>4, BytesDiffer
<1> QED
  BY <1>4, <1>5

\* One more byte is gathered.
LEMMA OneMoreGathered ==
  ASSUME NEW before \in Seq(Wire!Bytes), NEW byte \in Wire!Bytes, hal'.call = hal.call,
         \A k \in 1 .. Len(before) : before[k] = Wire!Out(hal.call, k), byte = Wire!Out(hal.call, Len(before) + 1),
         cuda'.got = Append(before, byte)
  PROVE  Gathered(Len(before) + 1)'
<1>1. Len(cuda'.got) = Len(before) + 1 /\ Len(before) \in Nat /\ Len(before)' = Len(before)
  OBVIOUS
<1>2. ASSUME NEW k \in 1 .. Len(before) + 1 PROVE cuda'.got[k] = Wire!Out(hal'.call, k)
  <2>1. CASE k = Len(before) + 1
    BY <2>1
  <2>2. CASE k \in 1 .. Len(before)
    BY <2>2
  <2> QED
    BY <1>1, <2>1, <2>2
<1> QED
  BY <1>1, <1>2 DEF Gathered

\* What was read stays, and what was taken.
LEMMA WholeKept ==
  ASSUME ReadWhole, hal'.reply = hal.reply, hal'.call = hal.call, Obeyed'
  PROVE  ReadWhole'
BY DEF ReadWhole, HasRead, Own, Got, Shown

\* What was read stays.
LEMMA ReadKept ==
  ASSUME NEW q, HasRead(q), hal'.reply = hal.reply
  PROVE  HasRead(q)'
BY DEF HasRead, Got

\* A call that is not calm promises nothing.
LEMMA NotCalm == ~hal'.calm => CalmInv'
BY DEF CalmInv

\* Where the HAL is decides which part is at stake.
LEMMA CalmAt ==
  /\ hal'.at \in {"tip", "written", "ending"} /\ CalmSending' => CalmInv'
  /\ hal'.at \in {"attention", "answer"} /\ CalmAnswer' => CalmInv'
  /\ hal'.at \in {"byte", "more"} /\ CalmReading' => CalmInv'
  /\ hal'.at \in {"acknowledge"} \cup Ends /\ ReadWhole' => CalmInv'
BY DEF CalmInv, CalmSending, CalmAnswer, CalmReading, CalmEnd, Ends

\* A step of Cuda's in a call that goes well.
LEMMA CudaCalm == WireTypes /\ HalInv /\ CueInv /\ CalmInv /\ Wire!Cuda => CalmInv'
<1> SUFFICES ASSUME WireTypes, HalInv, CueInv, Wire!Cuda, hal.calm, CalmSending, CalmAnswer, CalmReading, CalmEnd
    PROVE  CalmInv'
  <2>1. Wire!Cuda => hal' = hal
    BY DEF Wire!Cuda, Wire!Offer, Wire!Send, Wire!Take, Wire!FinishTake, Wire!FinishSend, Wire!FinishNothing
  <2> QED
    BY <2>1, NotCalm DEF CalmInv
<1>0. /\ hal' = hal /\ hal.at \in {"off"} \cup Idles \cup Busy
      /\ hal.at # "off" /\ (hal.at \in Busy => lines.tip) /\ (hal.at \in Idles => ~lines.tip)
      /\ Got' = Got
  <2>1. hal' = hal
    BY DEF Wire!Cuda, Wire!Offer, Wire!Send, Wire!Take, Wire!FinishTake, Wire!FinishSend, Wire!FinishNothing
  <2>2. hal.at \in {"off"} \cup Idles \cup Busy
    BY DEF WireTypes, HalTypes
  <2>3. hal.at # "off" /\ (hal.at \in Busy => lines.tip) /\ (hal.at \in Idles => ~lines.tip)
    BY DEF HalInv
  <2> QED
    BY <2>1, <2>2, <2>3 DEF Got
<1> USE DEF CudaIs, ViaIs, LinesAre, Cued, Pending, Held
<1>1. ASSUME hal.at \in {"acknowledge"} \cup Ends, cuda.taken \subseteq cuda'.taken PROVE CalmInv'
  <2>1. ReadWhole
    BY <1>1 DEF CalmEnd
  <2>2. Obeyed'
    BY <1>0, <1>1, <2>1 DEF ReadWhole, Obeyed
  <2>3. ReadWhole'
    BY <1>0, <2>1, <2>2, WholeKept
  <2> QED
    BY <1>0, <1>1, <2>3, CalmAt
<1>2. CASE Wire!Offer
  <2>1. cuda.cue = "none" /\ ~lines.tip /\ cuda.does \in {"rest", "answer"}
        /\ cuda'.does = "offer" /\ cuda'.packet = cuda.packet /\ cuda'.cue = "none" /\ cuda'.taken = cuda.taken /\ via'.ifr
    BY <1>2, OfferIs
  <2>2. CASE hal.at = "tip"
    <3>1. CalmSending'
      BY <1>0, <2>1, <2>2 DEF CalmSending
    <3> QED
      BY <1>0, <2>2, <3>1, CalmAt
  <2>3. CASE hal.at = "attention"
    <3>1. CalmAnswer'
      BY <1>0, <2>1, <2>3 DEF CalmAnswer, Own, Obeyed
    <3> QED
      BY <1>0, <2>3, <3>1, CalmAt
  <2>4. CASE hal.at = "answer"
    BY <2>1, <2>4 DEF CalmAnswer
  <2> QED
    BY <1>0, <1>1, <2>1, <2>2, <2>3, <2>4 DEF Idles
<1>3. CASE Wire!Send
  <2>1. /\ Pending /\ cuda.does = "offer" /\ cuda.pos < Length[cuda.packet]
        /\ cuda'.does = "offer" /\ cuda'.packet = cuda.packet /\ cuda'.pos = cuda.pos + 1 /\ cuda'.cue = "none"
        /\ cuda'.taken = cuda.taken /\ via'.ifr /\ (via.acr = "in" => via'.sr = Wire!In(cuda.packet, cuda.pos + 1))
        /\ (lines'.treq <=> cuda.pos + 1 < Length[cuda.packet])
    BY <1>3, SendIs
  <2>2. hal.at \in Busy
    BY <1>0, <2>1 DEF CueInv
  <2>3. hal.at = "byte"
    BY <2>1, <2>2 DEF CalmSending, CalmReading, Busy
  <2>4. via.acr = "in" /\ HasRead(cuda.packet) /\ cuda.pos = Got /\ Own(cuda.packet) /\ Obeyed
    BY <2>1, <2>3 DEF HalInv, CalmReading
  <2>5. HasRead(cuda.packet)' /\ Own(cuda.packet)' /\ Obeyed'
    <3>1. HasRead(cuda.packet)'
      BY <1>0, <2>1, <2>4 DEF HasRead
    <3> QED
      BY <1>0, <2>1, <2>4, <3>1 DEF Own, Obeyed
  <2>6. CalmReading'
    BY <1>0, <2>1, <2>3, <2>4, <2>5 DEF CalmReading
  <2> QED
    BY <1>0, <2>3, <2>6, CalmAt
<1>4. CASE Wire!Take
  <2>1. /\ cuda.cue = "tip" \/ (cuda.cue = "ack" /\ cuda.does = "take")
        /\ cuda.does = "offer" => via.acr = "out"
        /\ cuda'.does = "take" /\ cuda'.cue = "none" /\ via'.ifr
        /\ cuda'.got = Append(IF cuda.cue = "tip" THEN <<>> ELSE cuda.got,
                              IF via.acr = "out" THEN via.sr ELSE Wire!Junk)
    BY <1>4, TakeIs
  <2>2. hal.at \in Busy
    BY <1>0, <2>1 DEF CueInv
  <2>3. hal.at = "written"
    <3>1. CASE hal.at \in {"byte", "more"}
      BY <2>1, <3>1 DEF CalmReading, HalInv
    <3>2. CASE hal.at = "ending"
      BY <2>1, <3>2 DEF CalmSending
    <3> QED
      BY <2>2, <3>1, <3>2 DEF Busy
  <2>4. via.acr = "out" /\ via.sr \in Wire!Bytes /\ hal.sent \in Nat
    BY <2>3 DEF HalInv, WireTypes, ViaTypes, HalTypes
  <2>5. Gathered(hal.sent + 1)'
    <3>1. CASE cuda.cue = "tip"
      <4>1. hal.sent = 0 /\ via.sr = Wire!Out(hal.call, 1) /\ cuda'.got = Append(<<>>, via.sr)
        BY <2>1, <2>3, <2>4, <3>1 DEF CalmSending
      <4>2. <<>> \in Seq(Wire!Bytes) /\ Len(<<>>) = 0
        OBVIOUS
      <4>3. PICK before \in Seq(Wire!Bytes) : before = <<>>
        BY <4>2
      <4>5. /\ \A k \in 1 .. Len(before) : before[k] = Wire!Out(hal.call, k)
            /\ via.sr = Wire!Out(hal.call, Len(before) + 1) /\ cuda'.got = Append(before, via.sr)
        BY <4>1, <4>2, <4>3
      <4>4. Gathered(Len(before) + 1)'
        BY <1>0, <2>4, <4>5, OneMoreGathered
      <4> QED
        BY <1>0, <4>1, <4>2, <4>3, <4>4 DEF Gathered
    <3>2. CASE cuda.cue = "ack"
      <4>1. Gathered(hal.sent) /\ via.sr = Wire!Out(hal.call, hal.sent + 1) /\ cuda'.got = Append(cuda.got, via.sr)
        BY <2>1, <2>3, <2>4, <3>2 DEF CalmSending
      <4>2. cuda.got \in Seq(Wire!Bytes) /\ Len(cuda.got) = hal.sent
        BY <4>1 DEF Gathered, WireTypes, CudaTypes
      <4>3. \A k \in 1 .. Len(cuda.got) : cuda.got[k] = Wire!Out(hal.call, k)
        BY <4>1, <4>2 DEF Gathered
      <4>4. PICK before \in Seq(Wire!Bytes) : before = cuda.got
        BY <4>2
      <4>5. Gathered(Len(before) + 1)'
        BY <1>0, <2>4, <4>1, <4>2, <4>3, <4>4, OneMoreGathered
      <4> QED
        BY <1>0, <4>2, <4>4, <4>5 DEF Gathered
    <3> QED
      BY <2>1, <3>1, <3>2
  <2>6. CalmSending'
    BY <1>0, <2>1, <2>3, <2>5 DEF CalmSending
  <2> QED
    BY <1>0, <2>3, <2>6, CalmAt
<1>5. CASE Wire!FinishTake
  <2>1. cuda.cue = "end" /\ cuda.does = "take" /\ UNCHANGED <<via, lines, hal>>
    BY <1>5, FinishTakeIs
  <2>2. hal.at = "attention" \/ hal.at \in {"acknowledge"} \cup Ends
    BY <1>0, <2>1 DEF CalmSending, CalmAnswer, CalmReading, Idles, Busy
  <2>3. cuda.taken \subseteq cuda'.taken
    BY <1>5, FinishTakeIs
  <2>4. CASE hal.at = "attention"
    <3>1. ~via.ifr /\ hal.call \in Commands /\ Gathered(Payload[hal.call] + 1)
      BY <2>1, <2>4 DEF CalmAnswer
    <3>2. cuda'.does = "answer" /\ cuda'.packet = hal.call /\ cuda'.cue = "none" /\ hal.call \in cuda'.taken
      BY <1>5, <3>1, FinishTakeIs, RequestGathered DEF WireTypes
    <3>3. CalmAnswer'
      BY <1>0, <2>1, <2>4, <3>1, <3>2 DEF CalmAnswer, Own, Obeyed
    <3> QED
      BY <1>0, <2>4, <3>3, CalmAt
  <2> QED
    BY <1>1, <2>2, <2>3, <2>4
<1>6. CASE Wire!FinishSend \/ Wire!FinishNothing
  <2>1. cuda.cue = "end" /\ cuda.does # "take" /\ cuda'.taken = cuda.taken
    BY <1>6, FinishSendIs, FinishNothingIs
  <2>2. hal.at \in {"acknowledge"} \cup Ends
    BY <1>0, <2>1 DEF CalmSending, CalmAnswer, CalmReading, Idles, Busy
  <2> QED
    BY <1>1, <2>1, <2>2
<1> QED
  BY <1>2, <1>3, <1>4, <1>5, <1>6 DEF Wire!Cuda

\* The HAL sends in a call that goes well.
LEMMA SendingCalm ==
  ASSUME WireTypes, HalInv, CueInv, CalmInv,
         Wire!HalpCudaWriteFirst \/ Wire!HalpCudaWriteNext \/ Wire!HalpCudaWriteEnd \/ Wire!WriteEnded
  PROVE  CalmInv'
<1> USE DEF CudaIs, ViaIs, LinesAre, Cued, HalIs, Moved
<1>1. CASE Wire!HalpCudaWriteFirst
  <2>1. /\ hal.at = "tip" /\ hal'.at = "written" /\ hal'.call = hal.call /\ hal'.sent = hal.sent
        /\ hal'.calm <=> hal.calm /\ cuda.does = "rest"
        /\ cuda'.cue = "tip" /\ cuda'.does = cuda.does /\ via' = via
    BY <1>1, WriteFirstIs
  <2>2. CASE hal.calm /\ cuda.does = "rest"
    <3>1. ~via.ifr /\ via.sr = Wire!Out(hal.call, 1) /\ hal.sent = 0
      BY <2>1, <2>2 DEF CalmInv, CalmSending, HalInv
    <3>2. CalmSending'
      BY <2>1, <2>2, <3>1 DEF CalmSending
    <3> QED
      BY <2>1, <3>2, CalmAt
  <2> QED
    BY <2>1, <2>2, NotCalm
<1>2. CASE Wire!HalpCudaWriteNext
  <2>1. /\ hal.at = "written" /\ via.ifr /\ hal'.at = "written" /\ hal'.call = hal.call /\ hal'.sent = hal.sent + 1
        /\ hal'.calm = hal.calm /\ via'.sr = Wire!Out(hal.call, hal.sent + 2) /\ ~via'.ifr
        /\ cuda'.cue = "ack" /\ cuda'.does = cuda.does /\ cuda'.got = cuda.got
    BY <1>2, WriteNextIs
  <2>2. CASE hal.calm
    <3>1. cuda.does = "take" /\ Gathered(hal.sent + 1)
      BY <2>1, <2>2 DEF CalmInv, CalmSending
    <3>2. Gathered(hal.sent)'
      BY <2>1, <3>1 DEF Gathered
    <3>3. hal'.sent + 1 = hal.sent + 2
      BY <2>1 DEF WireTypes, HalTypes
    <3>4. CalmSending'
      BY <2>1, <3>1, <3>2, <3>3 DEF CalmSending
    <3> QED
      BY <2>1, <3>4, CalmAt
  <2> QED
    BY <2>1, <2>2, NotCalm
<1>3. CASE Wire!HalpCudaWriteEnd
  <2>1. /\ hal.at = "written" /\ (via.ifr => hal.sent = Payload[hal.call])
        /\ hal'.at = "ending" /\ hal'.call = hal.call /\ hal'.ok = via.ifr /\ (hal'.calm <=> hal.calm /\ via.ifr)
        /\ ~via'.ifr /\ cuda' = cuda
    BY <1>3, WriteEndIs
  <2>2. CASE hal.calm /\ via.ifr
    <3>1. cuda.cue = "none" /\ cuda.does = "take" /\ Gathered(hal.sent + 1) /\ hal.call \in Commands
      BY <2>1, <2>2 DEF CalmInv, CalmSending, HalInv
    <3>2. Gathered(Payload[hal.call] + 1)'
      BY <2>1, <2>2, <3>1 DEF Gathered
    <3>3. CalmSending'
      BY <2>1, <2>2, <3>1, <3>2 DEF CalmSending
    <3> QED
      BY <2>1, <3>3, CalmAt
  <2> QED
    BY <2>1, <2>2, NotCalm
<1>4. CASE Wire!WriteEnded
  <2>1. hal.at = "ending" /\ LinesRest /\ via' = via /\ lines.tip
    BY <1>4, WriteEndedIs DEF HalInv, Busy
  <2>2. CASE Ended(<<>>, FALSE)
    BY <2>2, EndedIs, NotCalm
  <2>3. CASE hal' = [hal EXCEPT !.at = "attention"]
    <3>1. /\ hal'.at = "attention" /\ hal'.call = hal.call /\ hal'.calm = hal.calm
          /\ cuda'.cue = "end" /\ cuda'.does = cuda.does /\ cuda'.got = cuda.got
      BY <2>1, <2>3, MovedIs, LinesRestIs
    <3>2. CASE hal.calm
      <4>1. cuda.does = "take" /\ ~via.ifr /\ hal.call \in Commands /\ Gathered(Payload[hal.call] + 1)
        BY <2>1, <3>2 DEF CalmInv, CalmSending
      <4>2. Gathered(Payload[hal.call] + 1)'
        BY <3>1, <4>1 DEF Gathered
      <4>3. CalmAnswer'
        BY <2>1, <3>1, <4>1, <4>2 DEF CalmAnswer
      <4> QED
        BY <3>1, <4>3, CalmAt
    <3> QED
      BY <3>1, <3>2, NotCalm
  <2> QED
    BY <1>4, <2>2, <2>3, WriteEndedIs, Zenon
<1> QED
  BY <1>1, <1>2, <1>3, <1>4

\* The HAL reads in a call that goes well.
LEMMA ReadingCalm ==
  ASSUME WireTypes, HalInv, CueInv, CalmInv,
         Wire!ReadAttention \/ Wire!ReadTip \/ Wire!HalpCudaReadNext \/ Wire!HalpCudaReadPacket \/ Wire!HalpCudaReadEnd
  PROVE  CalmInv'
<1> USE DEF CudaIs, ViaIs, LinesAre, Cued, HalIs, Moved, Held
<1>0. hal.reply \in Seq(Wire!Bytes) /\ Got \in Nat /\ via.sr \in Wire!Bytes
  BY DEF WireTypes, HalTypes, ViaTypes, Got
<1>1. CASE Wire!ReadAttention
  <2>1. /\ hal.at = "attention" /\ via.ifr /\ hal'.at = "answer" /\ hal'.call = hal.call /\ hal'.calm = hal.calm
        /\ ~via'.ifr /\ cuda' = cuda
    BY <1>1, ReadAttentionIs
  <2>2. CASE hal.calm
    <3>1. cuda.cue = "none" /\ cuda.does = "offer" /\ Own(cuda.packet) /\ Obeyed
      BY <2>1, <2>2 DEF CalmInv, CalmAnswer
    <3>2. CalmAnswer'
      BY <2>1, <3>1 DEF CalmAnswer, Own, Obeyed
    <3> QED
      BY <2>1, <3>2, CalmAt
  <2> QED
    BY <2>1, <2>2, NotCalm
<1>2. CASE Wire!ReadTip
  <2>1. /\ hal.at = "answer" /\ hal'.at = "byte" /\ hal'.call = hal.call /\ hal'.calm = hal.calm /\ hal'.reply = hal.reply
        /\ via' = via /\ lines'.treq = lines.treq /\ cuda'.cue = "tip" /\ cuda'.does = cuda.does
        /\ cuda'.packet = cuda.packet /\ cuda'.pos = cuda.pos /\ cuda'.taken = cuda.taken
    BY <1>2, ReadTipIs
  <2>2. CASE hal.calm
    <3>1. cuda.cue = "none" /\ cuda.does = "offer" /\ ~via.ifr /\ Own(cuda.packet) /\ Obeyed
      BY <2>1, <2>2 DEF CalmInv, CalmAnswer
    <3>2. Got = 0 /\ cuda.pos = 0 /\ lines.treq
      BY <2>1, <3>1 DEF HalInv, CueInv, Idles
    <3>3. Length[cuda.packet] > 0
      BY LengthsAre DEF WireTypes, CudaTypes
    <3>4. Got' = 0 /\ HasRead(cuda.packet)'
      BY <2>1, <3>2 DEF Got, HasRead
    <3>5. CalmReading'
      BY <2>1, <3>1, <3>2, <3>3, <3>4 DEF CalmReading, Own, Obeyed, Pending
    <3> QED
      BY <2>1, <3>5, CalmAt
  <2> QED
    BY <2>1, <2>2, NotCalm
<1>3. CASE Wire!HalpCudaReadNext
  <2>1. /\ hal.at = "byte" /\ via.ifr /\ hal'.at = "more" /\ hal'.call = hal.call /\ hal'.calm = hal.calm
        /\ hal'.reply = Append(hal.reply, via.sr) /\ ~via'.ifr /\ lines' = lines /\ cuda' = cuda
    BY <1>3, ReadNextIs
  <2>2. CASE hal.calm
    <3>1. /\ cuda.does = "offer" /\ (lines.treq <=> cuda.pos < Length[cuda.packet]) /\ Own(cuda.packet) /\ Obeyed
          /\ HasRead(cuda.packet) /\ cuda.cue = "none" /\ cuda.pos = Got + 1 /\ via.sr = Wire!In(cuda.packet, Got + 1)
      BY <2>1, <2>2 DEF CalmInv, CalmReading
    <3>2. Got' = Got + 1
      BY <1>0, <2>1 DEF Got
    <3>3. ASSUME NEW k \in 1 .. Got + 1 PROVE hal'.reply[k] = Wire!In(cuda.packet, k)
      <4>1. CASE k = Got + 1
        BY <1>0, <2>1, <3>1, <4>1 DEF Got
      <4>2. CASE k \in 1 .. Got
        <5>1. hal'.reply[k] = hal.reply[k]
          BY <1>0, <2>1, <4>2 DEF Got
        <5> QED
          BY <3>1, <4>2, <5>1 DEF HasRead
      <4> QED
        BY <1>0, <4>1, <4>2
    <3>4. HasRead(cuda.packet)'
      BY <2>1, <3>2, <3>3 DEF HasRead
    <3>5. CalmReading'
      BY <2>1, <3>1, <3>2, <3>4 DEF CalmReading, Own, Obeyed
    <3> QED
      BY <2>1, <3>5, CalmAt
  <2> QED
    BY <2>1, <2>2, NotCalm
<1>4. CASE Wire!HalpCudaReadPacket
  <2>1. hal.at = "more" /\ via' = via /\ lines.tip
    BY <1>4, ReadPacketIs DEF HalInv, Busy
  <2>2. ASSUME hal.calm
        PROVE  /\ cuda.does = "offer" /\ (lines.treq <=> cuda.pos < Length[cuda.packet]) /\ Own(cuda.packet) /\ Obeyed
               /\ HasRead(cuda.packet) /\ cuda.cue = "none" /\ ~via.ifr /\ cuda.pos = Got
    BY <2>1, <2>2 DEF CalmInv, CalmReading
  <2>3. CASE lines.treq /\ Wire!HalpCudaToggleAck /\ Wire!Goes("byte")
    <3>1. /\ hal'.at = "byte" /\ hal'.call = hal.call /\ hal'.calm = hal.calm /\ hal'.reply = hal.reply
          /\ lines'.treq = lines.treq /\ cuda'.cue = "ack" /\ cuda'.does = cuda.does
          /\ cuda'.packet = cuda.packet /\ cuda'.pos = cuda.pos /\ cuda'.taken = cuda.taken
      BY <2>3, ToggleIs, MovedIs DEF Wire!Goes
    <3>2. CASE hal.calm
      <4>1. HasRead(cuda.packet)'
        BY <2>2, <3>1, <3>2 DEF HasRead, Got
      <4>2. Got' = Got
        BY <3>1 DEF Got
      <4>3. CalmReading'
        BY <2>1, <2>2, <2>3, <3>1, <3>2, <4>1, <4>2 DEF CalmReading, Own, Obeyed, Pending
      <4> QED
        BY <3>1, <4>3, CalmAt
    <3> QED
      BY <3>1, <3>2, NotCalm
  <2>4. CASE ~(Got < MaxReply /\ lines.treq) /\ LinesRest /\ hal' = [hal EXCEPT !.at = "acknowledge"]
    <3>1. /\ hal'.at = "acknowledge" /\ hal'.call = hal.call /\ hal'.calm = hal.calm /\ hal'.reply = hal.reply
          /\ cuda'.taken = cuda.taken
      BY <2>1, <2>4, MovedIs, LinesRestIs
    <3>2. CASE hal.calm
      <4>1. Got = Shown(cuda.packet) /\ cuda.packet \in Wire!Packets
        <5>1. Length[cuda.packet] \in Nat /\ MaxReply \in Nat /\ cuda.packet \in Wire!Packets
          BY LengthsAre DEF WireTypes, CudaTypes
        <5>2. Got <= MaxReply /\ Got <= Length[cuda.packet]
          BY <2>2, <3>2 DEF HalInv, CueInv
        <5> QED
          BY <1>0, <2>2, <2>4, <3>2, <5>1, <5>2 DEF Shown
      <4>2. ReadWhole
        BY <2>2, <3>2, <4>1 DEF ReadWhole
      <4>3. ReadWhole'
        BY <2>2, <3>1, <3>2, <4>2, WholeKept DEF Obeyed
      <4> QED
        BY <3>1, <4>3, CalmAt
    <3> QED
      BY <3>1, <3>2, NotCalm
  <2> QED
    BY <1>4, <2>3, <2>4, IdleLinesIs, Zenon DEF Wire!HalpCudaReadPacket, Wire!WantsMore, Wire!Goes, Got
<1>5. CASE Wire!HalpCudaReadEnd
  <2>1. hal.at = "acknowledge" /\ cuda' = cuda /\ Ended(hal.reply, hal.calm)
    BY <1>5, ReadEndIs, Zenon
  <2>2. hal'.at \in Ends /\ hal'.call = hal.call /\ hal'.calm = hal.calm /\ hal'.reply = hal.reply
    BY <2>1, EndedIs
  <2>3. CASE hal.calm
    <3>1. ReadWhole
      BY <2>1, <2>3 DEF CalmInv, CalmEnd
    <3>2. ReadWhole'
      BY <2>1, <2>2, <3>1, WholeKept DEF ReadWhole, Obeyed
    <3> QED
      BY <2>2, <3>2, CalmAt
  <2> QED
    BY <2>2, <2>3, NotCalm
<1> QED
  BY <1>1, <1>2, <1>3, <1>4, <1>5

\* A call that goes well goes on well, or is not calm any more.
LEMMA NextCalmInv == WireTypes /\ HalInv /\ CueInv /\ CalmInv /\ Wire!Next => CalmInv'
<1> SUFFICES ASSUME WireTypes, HalInv, CueInv, CalmInv, Wire!Next PROVE CalmInv'
  OBVIOUS
<1>1. CASE Wire!Cuda
  BY <1>1, CudaCalm
<1>2. CASE Wire!HalpCudaInitialize
  BY <1>2, InitializeIs, NotCalm DEF HalInv, Moved, HalIs
<1>3. ASSUME NEW c \in Commands, Wire!HalpCudaRequest(c) PROVE CalmInv'
  <2>1. /\ hal'.at = "tip" /\ hal'.call = c /\ (hal'.calm <=> cuda.does = "rest" /\ cuda.cue = "none")
        /\ via'.sr = Wire!Out(c, 1) /\ ~via'.ifr /\ cuda'.cue = cuda.cue /\ cuda'.does = cuda.does
    BY <1>3, RequestIs DEF ViaIs, CudaIs
  <2>2. hal'.calm => CalmSending'
    BY <2>1 DEF CalmSending
  <2> QED
    BY <2>1, <2>2, NotCalm, CalmAt
<1>4. CASE Wire!HalpCudaService
  <2>1. /\ via.ifr /\ hal'.at = "attention" /\ hal'.call = "service" /\ (hal'.calm <=> cuda.does = "offer" /\ cuda.cue = "none")
        /\ via' = via /\ cuda' = cuda
    BY <1>4, ServiceIs
  <2>2. "service" \notin Commands
    BY LengthsAre
  <2>3. hal'.calm => CalmAnswer'
    BY <2>1, <2>2 DEF CalmAnswer, Own, Obeyed
  <2> QED
    BY <2>1, <2>3, NotCalm, CalmAt
<1>5. CASE Wire!HalpCudaWriteFirst \/ Wire!HalpCudaWriteNext \/ Wire!HalpCudaWriteEnd \/ Wire!WriteEnded
  BY <1>5, SendingCalm
<1>6. CASE Wire!ReadGivesUp
  <2>1. ASSUME hal' = [hal EXCEPT !.at = "acknowledge", !.calm = FALSE] PROVE ~hal'.calm
    BY <2>1 DEF WireTypes, HalTypes
  <2>2. ASSUME Ended(<<>>, FALSE) PROVE ~hal'.calm
    BY <2>2, EndedIs DEF HalIs
  <2> QED
    BY <1>6, <2>1, <2>2, ReadGivesUpIs, NotCalm
<1>7. CASE Wire!ReadAttention \/ Wire!ReadTip \/ Wire!HalpCudaReadNext \/ Wire!HalpCudaReadPacket \/ Wire!HalpCudaReadEnd
  BY <1>7, ReadingCalm
<1> QED
  BY <1>1, <1>2, <1>3, <1>4, <1>5, <1>6, <1>7 DEF Wire!Next, Wire!Hal

-----------------------------------------------------------------------------
(* The theorems. *)

\* Every step of the handshake keeps its invariant.
LEMMA NextWireInv == WireInv /\ [Wire!Next]_wireVars => WireInv'
<1>1. WireInv /\ Wire!Next => WireInv'
  BY NextViaTypes, NextCudaTypes, NextHalTypes, NextHalInv, NextCueInv, NextEchoedOn, NextReadingInv, NextCalmInv
     DEF WireInv, WireTypes
<1>2. ASSUME WireInv, UNCHANGED wireVars PROVE WireInv'
  BY <1>2 DEF wireVars, WireInv, WireTypes, ViaTypes, CudaTypes, HalTypes, HalInv, CueInv, EchoedOn, Echoed, ReadingInv,
     CalmInv, CalmSending, CalmAnswer, CalmReading, CalmEnd, ReadWhole, HasRead, Gathered, Obeyed, Own, Shown, Got, Held, Pending
<1> QED
  BY <1>1, <1>2

\* The handshake keeps its invariant beside the ring.
LEMMA WireInvariant == LayersSpec => []WireInv
<1>1. LayersInit => WireInv
  BY InitWireInv DEF LayersInit
<1>2. WireInv /\ [LayersNext]_<<layer, vars, wireVars>> => WireInv'
  BY NextWireInv DEF LayersNext
<1> QED
  BY <1>1, <1>2, PTL DEF LayersSpec

\* The invariant is what the run checks.
LEMMA WireIsSound == WireInv => TransfersAreSound
<1> SUFFICES ASSUME WireInv PROVE Wire!LinesAreIdle /\ Wire!CarriedWhole /\ Wire!AnswersAreOwn
  BY DEF TransfersAreSound
<1>0. Wire!Over <=> hal.at \in Ends
  BY DEF Wire!Over, Ends
<1>1. Wire!LinesAreIdle
  BY <1>0 DEF Wire!LinesAreIdle, WireInv, HalInv, Idles, Ends
<1>2. Wire!CarriedWhole
  <2> SUFFICES ASSUME hal.at \in Ends, hal.calm
      PROVE  /\ hal.call \in Commands => hal.call \in cuda.taken
             /\ \E q \in Wire!Packets : /\ hal.call \in Commands => q = hal.call
                                        /\ hal.reply = SubSeq(Wire!ReplyBytes(q), 1, Shown(q))
    BY <1>0 DEF Wire!CarriedWhole, Shown
  <2>1. ReadWhole
    BY DEF WireInv, CalmInv, CalmEnd
  <2>2. PICK q \in Wire!Packets : Own(q) /\ Got = Shown(q) /\ HasRead(q)
    BY <2>1 DEF ReadWhole
  <2>3. hal.reply \in Seq(Wire!Bytes) /\ Shown(q) \in Nat /\ Shown(q) <= Length[q] /\ Length[q] \in Nat
    BY ShownIs, LengthsAre DEF WireInv, WireTypes, HalTypes
  <2>4. hal.reply = [k \in 1 .. Shown(q) |-> Wire!In(q, k)]
    <3>1. hal.reply = [k \in 1 .. Shown(q) |-> hal.reply[k]]
      BY <2>2, <2>3 DEF Got
    <3> QED
      BY <2>2, <3>1 DEF HasRead
  <2>5. SubSeq(Wire!ReplyBytes(q), 1, Shown(q)) = [k \in 1 .. Shown(q) |-> Wire!In(q, k)]
    BY <2>3 DEF Wire!ReplyBytes
  <2> QED
    BY <2>1, <2>2, <2>4, <2>5 DEF ReadWhole, Obeyed, Own
<1>3. Wire!AnswersAreOwn
  BY DEF Wire!AnswersAreOwn, WireInv, EchoedOn, Echoed, Got
<1> QED
  BY <1>1, <1>2, <1>3

\* The transport can be used again after any timeout or collision: its lines
\* are idle between calls, a transfer that meets Cuda at rest is carried whole,
\* and an echoed answer is the command's own (cuda.c:145-250).
THEOREM TransfersKeepSound == LayersSpec => []TransfersAreSound
<1>1. WireInv => TransfersAreSound
  BY WireIsSound
<1> QED
  BY <1>1, WireInvariant, PTL

\* The types of the invariant are those the run checks.
LEMMA WireTypeCorrect == WireInv => Wire!TypeOK
BY LengthsAre DEF WireInv, WireTypes, ViaTypes, CudaTypes, HalTypes, HalInv, Got, Wire!TypeOK

\* The ring keeps its invariant beside the handshake.
LEMMA RingBeside == LayersSpec => []IInv
<1>1. LayersInit => IInv
  BY InitIInv DEF LayersInit
<1>2. IInv /\ [LayersNext]_<<layer, vars, wireVars>> => IInv'
  BY NextIInv DEF LayersNext
<1> QED
  BY <1>1, <1>2, PTL DEF LayersSpec

\* The registers, lines and packets of both layers are what the code can hold,
\* and a reply never exceeds CUDA_MAX_REPLY (cuda.c:171-210).
THEOREM LayersTypeCorrect == LayersSpec => []LayersTypeOK
<1>1. IInv => TypeOK
  BY DEF IInv
<1>2. WireInv /\ IInv => LayersTypeOK
  BY <1>1, WireTypeCorrect DEF LayersTypeOK
<1> QED
  BY <1>2, WireInvariant, RingBeside, PTL

=============================================================================
