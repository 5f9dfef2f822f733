---------------------------- MODULE MCInterrupts ----------------------------
(***************************************************************************)
(* Small instances of Interrupts.  Bits 25 and 26 are the pair whose levels *)
(* run against their numbers (25 is above 26), bit 18 is the HAL's own VIA. *)
(***************************************************************************)
EXTENDS Interrupts

MCSources == {18, 25, 26}
MCRaiseLevels == {DISPATCH_LEVEL, HIGH_LEVEL}
=============================================================================
