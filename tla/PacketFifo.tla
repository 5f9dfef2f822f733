----------------------------- MODULE PacketFifo -----------------------------
(***************************************************************************)
(* What the ring of src/src/cuda.c promises between the VIA interrupt and   *)
(* the DPC: a bounded first-in first-out queue that refuses a packet only   *)
(* when it is full, and whose head stays as it is while it is being handed  *)
(* to the driver.                                                          *)
(***************************************************************************)
EXTENDS Naturals, Sequences

CONSTANTS Packets, Capacity

VARIABLES
  parked,      \* packets not yet handed over, oldest first
  delivering,  \* is the oldest one being handed over?
  refused      \* how many were refused

fifoVars == <<parked, delivering, refused>>

FifoInit == parked = <<>> /\ delivering = FALSE /\ refused = 0

Park(p) ==
  /\ Len(parked) < Capacity
  /\ parked' = Append(parked, p)
  /\ UNCHANGED <<delivering, refused>>

Refuse ==
  /\ Len(parked) = Capacity
  /\ refused' = refused + 1
  /\ UNCHANGED <<parked, delivering>>

StartDelivery ==
  /\ parked # <<>>
  /\ ~delivering
  /\ delivering' = TRUE
  /\ UNCHANGED <<parked, refused>>

FinishDelivery ==
  /\ delivering
  /\ delivering' = FALSE
  /\ parked' = Tail(parked)
  /\ UNCHANGED refused

FifoNext ==
  \/ \E p \in Packets : Park(p)
  \/ Refuse
  \/ StartDelivery
  \/ FinishDelivery

FifoSpec == FifoInit /\ [][FifoNext]_fifoVars
=============================================================================
