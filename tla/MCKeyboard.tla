----------------------------- MODULE MCKeyboard -----------------------------
(* The Cuda transport in two layers: the handshake over the VIA, and the     *)
(* ring with its DPC.  A behaviour runs one layer, and the other stays where *)
(* it began.                                                                *)
EXTENDS CudaAdb

CONSTANTS Commands, Payload, Length, MaxReply, MaxCalls, MaxPolls

VARIABLES layer, via, lines, cuda, hal

wireVars == <<via, lines, cuda, hal>>

Wire == INSTANCE CudaVia

ASSUME WireAssumption == Wire!CudaViaAssumption

\* Requests of two bytes.  An auto-polled packet is longer than any of
\* Cuda's, so that the bound of the reading loop matters.
TwoBytes == [c \in Commands |-> 1]
Lengths  == [p \in Commands \cup {"poll"} |-> CASE p = "time" -> 4 [] p = "reset" -> 3 [] OTHER -> 5]

LayersInit ==
  /\ layer \in {"wire", "ring"}
  /\ Init /\ Wire!Init
  /\ layer = "wire" \/ ~lines.ack

LayersNext ==
  /\ UNCHANGED layer
  /\ \/ layer = "wire" /\ Wire!Next /\ UNCHANGED vars
     \/ layer = "ring" /\ Next /\ UNCHANGED wireVars

LayersSpec == LayersInit /\ [][LayersNext]_<<layer, vars, wireVars>> /\ Fairness /\ Wire!Fairness

-----------------------------------------------------------------------------
(* The layers' properties. *)

\* Both layers keep their types.
LayersTypeOK == TypeOK /\ Wire!TypeOK

\* The transport can be used again after any timeout or collision: its lines
\* are idle between calls, a transfer that meets Cuda at rest is carried
\* whole, and an echoed answer is the command's own (cuda.c:145-250).
TransfersAreSound == Wire!LinesAreIdle /\ Wire!CarriedWhole /\ Wire!AnswersAreOwn

\* A call into Cuda comes to its end, whatever Cuda does (cuda.c:40-42).
CallsEnd == Wire!CallsEnd

\* The machine waits for the reset line only if Cuda has taken the command
\* (cuda.c:239-241).
SpinsForAReset == Wire!SpinsForAReset
=============================================================================
