------------------------------- MODULE CudaVia -------------------------------
(***************************************************************************)
(* src/src/cuda.c: how a packet crosses the VIA's shift register, under     *)
(* HalpCudaRequest and HalpCudaService.                                     *)
(*                                                                         *)
(* The HAL runs with interrupts off here and looks at one flag, the         *)
(* register's event in VIA_IFR; each of its steps is one access that Cuda   *)
(* can see or disturb.  Cuda follows the lines TIP and BYTEACK in its own   *)
(* time, and the HAL's waits give up on it: an answer that comes after its  *)
(* wait is over is met by whatever the HAL does next.                       *)
(***************************************************************************)
EXTENDS Integers, Sequences, SequencesExt

CONSTANTS
  Commands,     \* what is asked of Cuda; "reset" is RESET SYSTEM
  Payload,      \* bytes of a request after its type, by command
  Length,       \* bytes of a packet of Cuda's, by command; "poll" is an auto-polled one
  MaxReply,     \* CUDA_MAX_REPLY
  MaxCalls,     \* bound on the transfers
  MaxPolls      \* bound on the auto-polled packets

CudaViaAssumption ==
  /\ Commands \cap {"poll", "service", "none"} = {}
  /\ MaxReply \in Nat \ {0} /\ MaxCalls \in Nat /\ MaxPolls \in Nat
  /\ Payload \in [Commands -> Nat] /\ Length \in [Commands \cup {"poll"} -> Nat \ {0}]

Packets == Commands \cup {"poll"}

\* A byte on the wire is known by where it comes from.
Out(c, i) == <<"out", c, i>>
In(p, i)  == <<"in", p, i>>
Attention == <<"attention", "none", 0>>
Junk      == <<"junk", "none", 0>>

RequestBytes(c) == [i \in 1 .. Payload[c] + 1 |-> Out(c, i)]
ReplyBytes(p)   == [i \in 1 .. Length[p] |-> In(p, i)]

Bytes ==
  {Junk, Attention}
    \cup UNION ({ToSet(RequestBytes(c)) : c \in Commands} \cup {ToSet(ReplyBytes(p)) : p \in Packets})

VARIABLES
  via,    \* VIA_SR, its event in VIA_IFR, the direction in VIA_ACR
  lines,  \* port B: TIP and BYTEACK are the HAL's, TREQ is Cuda's; TRUE is asserted
  cuda,   \* what Cuda does, its packet, bytes of it sent, what it was sent, the last line event
  hal     \* where the HAL is and in which call, bytes of the request sent, the reply so far

viaVars == <<via, lines, cuda, hal>>

Init ==
  /\ via = [sr |-> Junk, ifr |-> FALSE, acr |-> "out"]
  /\ lines \in [tip : {FALSE}, ack : BOOLEAN, treq : {FALSE}]
  /\ cuda = [does |-> "rest", packet |-> "poll", pos |-> 0, got |-> <<>>, cue |-> "none",
             polls |-> 0, taken |-> {}]
  /\ hal = [at |-> "off", call |-> "none", sent |-> 0, ok |-> FALSE, reply |-> <<>>, calls |-> 0,
            calm |-> FALSE]

-----------------------------------------------------------------------------
(* Cuda. *)

\* It holds out a packet: TREQ, and an attention byte.
Offer ==
  /\ cuda.cue = "none" /\ ~lines.tip
  /\ \/ cuda.does = "answer" /\ cuda' = [cuda EXCEPT !.does = "offer"]
     \/ /\ cuda.does = "rest" /\ cuda.polls < MaxPolls
        /\ cuda' = [cuda EXCEPT !.does = "offer", !.polls = @ + 1]
  /\ lines' = [lines EXCEPT !.treq = TRUE]
  /\ via' = [via EXCEPT !.sr = Attention, !.ifr = TRUE]
  /\ UNCHANGED hal

\* It clocks one byte of its own out, and drops TREQ with the last.  The
\* byte is lost if the register shifts the other way.
Send ==
  /\ cuda.cue \in {"tip", "ack"} /\ cuda.does = "offer"
  /\ cuda.pos < Length[cuda.packet]
  /\ cuda' = [cuda EXCEPT !.cue = "none", !.pos = @ + 1]
  /\ lines' = [lines EXCEPT !.treq = cuda.pos + 1 < Length[cuda.packet]]
  /\ via' = [via EXCEPT !.ifr = TRUE, !.sr = IF via.acr = "in" THEN In(cuda.packet, cuda.pos + 1) ELSE @]
  /\ UNCHANGED hal

\* It clocks one byte of the HAL's in; a packet it held out gives way, or it
\* sends that one instead.
Take ==
  /\ \/ cuda.cue = "tip"
     \/ cuda.cue = "ack" /\ cuda.does = "take"
  /\ cuda.does = "offer" => via.acr = "out"
  /\ cuda' = [cuda EXCEPT !.cue = "none", !.does = "take", !.pos = 0, !.packet = "poll",
                          !.got = Append(IF cuda.cue = "tip" THEN <<>> ELSE @,
                                         IF via.acr = "out" THEN via.sr ELSE Junk)]
  /\ lines' = [lines EXCEPT !.treq = FALSE]
  /\ via' = [via EXCEPT !.ifr = TRUE, !.sr = IF via.acr = "in" THEN Junk ELSE @]
  /\ UNCHANGED hal

\* The HAL's lines are idle again.  A whole request is obeyed and will be
\* answered.
FinishTake ==
  /\ cuda.cue = "end" /\ cuda.does = "take"
  /\ \/ \E c \in Commands :
          /\ cuda.got = RequestBytes(c)
          /\ cuda' = [cuda EXCEPT !.cue = "none", !.does = "answer", !.packet = c, !.got = <<>>, !.taken = @ \cup {c}]
     \/ /\ \A c \in Commands : cuda.got # RequestBytes(c)
        /\ cuda' = [cuda EXCEPT !.cue = "none", !.does = "rest", !.got = <<>>]
  /\ UNCHANGED <<via, lines, hal>>

\* A packet is acknowledged; one cut short is given up or offered again.
FinishSend ==
  /\ cuda.cue = "end" /\ cuda.does = "offer"
  /\ \/ cuda' = [cuda EXCEPT !.cue = "none", !.pos = 0, !.packet = "poll", !.does = "rest"]
     \/ lines.treq /\ cuda' = [cuda EXCEPT !.cue = "none", !.pos = 0, !.does = "answer"]
  /\ lines' = [lines EXCEPT !.treq = FALSE]
  /\ via' = [via EXCEPT !.ifr = TRUE]
  /\ UNCHANGED hal

\* TIP came and went unseen.
FinishNothing ==
  /\ cuda.cue = "end" /\ cuda.does \in {"rest", "answer"}
  /\ cuda' = [cuda EXCEPT !.cue = "none"]
  /\ UNCHANGED <<via, lines, hal>>

Cuda == Offer \/ Send \/ Take \/ FinishTake \/ FinishSend \/ FinishNothing

-----------------------------------------------------------------------------
(* The lines and the register, as the HAL drives them. *)

Goes(at) == hal' = [hal EXCEPT !.at = at]
Cue(event) == cuda' = [cuda EXCEPT !.cue = event]

HalpCudaTip       == lines' = [lines EXCEPT !.tip = TRUE, !.ack = FALSE] /\ Cue("tip")
HalpCudaToggleAck == lines' = [lines EXCEPT !.ack = ~@] /\ Cue("ack")
HalpCudaIdleLines ==
  /\ lines' = [lines EXCEPT !.tip = FALSE, !.ack = FALSE]
  /\ IF lines.tip THEN Cue("end") ELSE UNCHANGED cuda

ReadSr     == via' = [via EXCEPT !.ifr = FALSE]
WriteSr(b) == via' = [via EXCEPT !.ifr = FALSE, !.sr = b, !.acr = "out"]

\* Mutant: the wait has no limit.
GivesUpNever == FALSE

\* HalpCudaWait: the event, or ten milliseconds without one.
Comes     == via.ifr
GivesUp   == ~via.ifr

\* A call is over.  HalReturnToFirmware then waits for the reset line, or halts.
Return(reply, calm) ==
  hal' = [hal EXCEPT !.reply = reply, !.calm = calm, !.sent = 0,
                     !.at = CASE hal.call # "reset" -> "idle"
                              [] reply # <<>>       -> "spin"
                              [] OTHER              -> "halted"]

-----------------------------------------------------------------------------
(* Calls. *)

HalpCudaInitialize ==
  /\ hal.at = "off"
  /\ HalpCudaIdleLines
  /\ via' = [via EXCEPT !.ifr = FALSE, !.acr = "in"]
  /\ Goes("idle")

Begin(call, at, calm) ==
  /\ hal.at = "idle" /\ hal.calls < MaxCalls
  /\ hal' = [at |-> at, call |-> call, sent |-> 0, ok |-> TRUE, reply |-> <<>>, calls |-> hal.calls + 1,
             calm |-> calm /\ cuda.cue = "none"]

\* HalpCudaWriteFirst, up to the type byte.
HalpCudaRequest(c) ==
  /\ Begin(c, "tip", cuda.does = "rest")
  /\ WriteSr(Out(c, 1))
  /\ cuda' = [cuda EXCEPT !.taken = {}]
  /\ UNCHANGED lines

\* HalpCudaService finds a byte ready.
HalpCudaService ==
  /\ via.ifr
  /\ Begin("service", "attention", cuda.does = "offer")
  /\ UNCHANGED <<via, lines, cuda>>

-----------------------------------------------------------------------------
(* Sending. *)

HalpCudaWriteFirst ==
  /\ hal.at = "tip"
  /\ HalpCudaTip
  /\ hal' = [hal EXCEPT !.at = "written", !.calm = @ /\ cuda.does = "rest"]
  /\ UNCHANGED via

HalpCudaWriteNext ==
  /\ hal.at = "written" /\ Comes
  /\ hal.sent < Payload[hal.call]
  /\ hal' = [hal EXCEPT !.sent = @ + 1]
  /\ WriteSr(Out(hal.call, hal.sent + 2))
  /\ HalpCudaToggleAck

\* HalpCudaWriteEnd: the direction and the event, then the lines.
HalpCudaWriteEnd ==
  /\ hal.at = "written"
  /\ \/ GivesUp
     \/ Comes /\ hal.sent = Payload[hal.call]
  /\ hal' = [hal EXCEPT !.at = "ending", !.ok = Comes, !.calm = @ /\ Comes]
  /\ via' = [via EXCEPT !.ifr = FALSE, !.acr = "in"]
  /\ UNCHANGED <<lines, cuda>>

WriteEnded ==
  /\ hal.at = "ending"
  /\ HalpCudaIdleLines
  /\ IF hal.ok THEN Goes("attention") ELSE Return(<<>>, FALSE)
  /\ UNCHANGED via

-----------------------------------------------------------------------------
(* Receiving: HalpCudaReadPacket. *)

\* HalpCudaReadFirst: the attention byte, TIP, the packet's type.
ReadAttention ==
  /\ hal.at = "attention" /\ Comes
  /\ ReadSr /\ Goes("answer")
  /\ UNCHANGED <<lines, cuda>>

ReadTip ==
  /\ hal.at = "answer"
  /\ HalpCudaTip /\ Goes("byte")
  /\ UNCHANGED via

\* A byte, the type or one after it.
HalpCudaReadNext ==
  /\ hal.at = "byte" /\ Comes
  /\ ReadSr
  /\ hal' = [hal EXCEPT !.at = "more", !.reply = Append(@, via.sr)]
  /\ UNCHANGED <<lines, cuda>>

\* Nothing came: before the type the packet is none, after it it is cut.
ReadGivesUp ==
  /\ hal.at \in {"attention", "byte"} /\ GivesUp
  /\ HalpCudaIdleLines
  /\ IF hal.reply = <<>>
       THEN Return(<<>>, FALSE)
       ELSE hal' = [hal EXCEPT !.at = "acknowledge", !.calm = FALSE]
  /\ UNCHANGED via

\* Mutant: the last byte that would fit is not asked for.
WantsMoreShort == Len(hal.reply) + 1 < MaxReply /\ lines.treq

WantsMore == Len(hal.reply) < MaxReply /\ lines.treq

HalpCudaReadPacket ==
  /\ hal.at = "more"
  /\ IF WantsMore THEN HalpCudaToggleAck /\ Goes("byte")
                  ELSE HalpCudaIdleLines /\ Goes("acknowledge")
  /\ UNCHANGED via

\* The idle acknowledge, or none in time.
HalpCudaReadEnd ==
  /\ hal.at = "acknowledge"
  /\ IF Comes THEN ReadSr ELSE UNCHANGED via
  /\ Return(hal.reply, hal.calm)
  /\ UNCHANGED <<lines, cuda>>

-----------------------------------------------------------------------------
Hal ==
  \/ HalpCudaWriteFirst \/ HalpCudaWriteNext \/ HalpCudaWriteEnd \/ WriteEnded
  \/ ReadAttention \/ ReadTip \/ HalpCudaReadNext \/ ReadGivesUp
  \/ HalpCudaReadPacket \/ HalpCudaReadEnd

Next ==
  \/ Cuda
  \/ HalpCudaInitialize \/ (\E c \in Commands : HalpCudaRequest(c)) \/ HalpCudaService
  \/ Hal

\* The HAL goes on with what it has begun; Cuda owes nothing.
Fairness == WF_viaVars(Hal)

-----------------------------------------------------------------------------
(* Properties. *)

Over == hal.at \in {"idle", "spin", "halted"}

TypeOK ==
  /\ via \in [sr : Bytes, ifr : BOOLEAN, acr : {"in", "out"}]
  /\ lines \in [tip : BOOLEAN, ack : BOOLEAN, treq : BOOLEAN]
  /\ cuda.cue \in {"none", "tip", "ack", "end"} /\ cuda.does \in {"rest", "answer", "offer", "take"}
  /\ Len(hal.reply) <= MaxReply /\ hal.calls <= MaxCalls

\* Whatever times out and wherever, a call leaves the lines idle and the
\* register listening, so that Cuda can offer its next packet
\* (cuda.c:165-169, 192-209).
LinesAreIdle == Over => ~lines.tip /\ ~lines.ack /\ via.acr = "in"

\* A transfer that meets Cuda at rest and is answered in time is carried
\* whole, whatever became of those before it: a request is obeyed and its own
\* answer read, and a packet held out is read from its first byte.
CarriedWhole ==
  Over /\ hal.calm =>
    /\ hal.call \in Commands => hal.call \in cuda.taken
    /\ \E p \in Packets : /\ hal.call \in Commands => p = hal.call
                          /\ hal.reply = SubSeq(ReplyBytes(p), 1, IF Length[p] < MaxReply THEN Length[p] ELSE MaxReply)

\* A reply whose third byte echoes the command is, from there on, that
\* command's own answer without a gap, after any timeout and any collision:
\* what the clock calls and HalPxiCommandAdb take for granted
\* (cuda.c:339-351, 364, 428).
AnswersAreOwn ==
  LET Echoed(k) == hal.reply[k] = In(hal.call, k)
  IN  Over /\ hal.call \in Commands /\ Len(hal.reply) >= 3 /\ Echoed(3) =>
        \A k \in 3 .. Len(hal.reply) : Echoed(k)

\* "FALSE means Cuda is not up or did not answer": the machine waits for the
\* reset line only if Cuda has taken the command (cuda.c:239-241).
SpinsForAReset == hal.at = "spin" => "reset" \in cuda.taken

\* "A HAL may not hang the machine on a device that stops answering": every
\* call comes to its end, whatever Cuda does or leaves undone (cuda.c:40-42).
CallsEnd == hal.at \notin {"off", "idle"} ~> Over
=============================================================================
