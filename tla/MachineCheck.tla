---------------------------- MODULE MachineCheck ----------------------------
(***************************************************************************)
(* src/src/ints.c, HalpMachineCheck: a load or store that no PCI device      *)
(* answers is completed, a load as if it had read all ones, and the kernel  *)
(* resumes behind it.                                                       *)
(***************************************************************************)
EXTENDS Integers

CONSTANTS
  Opcodes,   \* 0 .. 63, primary opcodes
  Extended,  \* 0 .. 1023, extended ones
  Registers  \* 0 .. 31

LastExtended == 1023
MachineCheckAssumption == Opcodes \subseteq 0 .. 63 /\ Extended \subseteq 0 .. LastExtended /\ Registers \subseteq 0 .. 31

VARIABLES
  insn,      \* the instruction that faulted: [op, xo, rt]
  iar,       \* of the trap frame, relative to it
  gpr,       \* the register of the frame that was written and its value, or <<>>
  bugcheck

checkVars == <<insn, iar, gpr, bugcheck>>

\* Values are the number of ones, from the right, in 32 bits.
BitsOf(width) == 8 * width

CheckInit ==
  /\ insn \in [op : Opcodes \ {31}, xo : {0}, rt : Registers] \cup [op : {31}, xo : Extended, rt : Registers]
  /\ iar = 0 /\ gpr = <<>> /\ bugcheck = FALSE

\* Mutant: the algebraic load is taken for the other one.
LoadedUnsigned(op, xo) ==
  CASE op = 32 \/ (op = 31 /\ xo \in {23, 534}) -> 32
    [] op \in {40, 42} \/ (op = 31 /\ xo \in {279, 343, 790}) -> 16
    [] op = 34 \/ (op = 31 /\ xo = 87) -> 8
    [] OTHER -> 0

\* The ones a load leaves in its register, 0 if it is no load known.
Loaded(op, xo) ==
  CASE op \in {32, 42} \/ (op = 31 /\ xo \in {23, 343, 534}) -> 32
    [] op = 40 \/ (op = 31 /\ xo \in {279, 790}) -> 16
    [] op = 34 \/ (op = 31 /\ xo = 87) -> 8
    [] OTHER -> 0

Stores(op, xo) == op \in {36, 38, 44} \/ (op = 31 /\ xo \in {151, 215, 407, 662, 918})

\* Only the volatile registers, up to r12, are in the trap frame.
HalpMachineCheck ==
  /\ iar = 0 /\ ~bugcheck
  /\ LET ones == Loaded(insn.op, insn.xo)
     IN  \/ /\ ones # 0 /\ insn.rt <= 12
            /\ gpr' = <<insn.rt, ones>> /\ iar' = 4 /\ UNCHANGED bugcheck
         \/ /\ Stores(insn.op, insn.xo)
            /\ iar' = 4 /\ UNCHANGED <<gpr, bugcheck>>
         \/ /\ (ones = 0 /\ ~Stores(insn.op, insn.xo)) \/ (ones # 0 /\ insn.rt > 12)
            /\ bugcheck' = TRUE /\ UNCHANGED <<iar, gpr>>
  /\ UNCHANGED insn

-----------------------------------------------------------------------------
(* Properties. *)

\* What the architecture says of the integer loads and stores.  Those with a
\* displacement have opcodes from 32 up, those with an index the same in bits
\* 5 to 8 of the extended opcode, and those that reverse their bytes a row of
\* their own.  An odd one also writes the address back to a register.
Row(i) == IF i.op \in 32 .. 45 THEN i.op
          ELSE IF i.op = 31 /\ i.xo % 32 = 23 /\ i.xo \div 32 <= 13 THEN 32 + i.xo \div 32
          ELSE IF i.op = 31 /\ i.xo \in {534, 790, 662, 918} THEN 32 + 2 * ((i.xo - 534) \div 64)
          ELSE 0

Width(row) == IF row >= 40 THEN 2 ELSE IF row % 4 < 2 THEN 4 ELSE 1
IsStore(row) == row \in {36, 37, 38, 39, 44, 45}
IsAlgebraic(row) == row \in {42, 43}

\* Just those accesses are completed that write no address back and load no
\* register out of reach, and what one leaves behind is what the instruction
\* would have read off an idle bus.
AbortReadsOnes ==
  LET row == Row(insn)
      fit == row # 0 /\ row % 2 = 0 /\ (IsStore(row) \/ insn.rt <= 12)
  IN  /\ iar # 0 => fit
      /\ iar # 0 => gpr = IF IsStore(row) THEN <<>> ELSE <<insn.rt, IF IsAlgebraic(row) THEN 32 ELSE BitsOf(Width(row))>>
      /\ bugcheck => ~fit
=============================================================================
