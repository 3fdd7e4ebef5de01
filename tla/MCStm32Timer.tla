---------------------------- MODULE MCStm32Timer ----------------------------
(***************************************************************************)
(* Stm32Timer with registers of eight values instead of 2^16 and a clock   *)
(* of 3 MHz.  The delays take 6, 9 and 21 cycles: one that fits a register *)
(* as it is, and two that need a prescaler, of which 9 does not divide     *)
(* evenly and 21 does.                                                     *)
(***************************************************************************)
EXTENDS Stm32Timer

MCDelays == {2, 3, 7}
=============================================================================
