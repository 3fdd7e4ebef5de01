----------------------------- MODULE MCAvrTimer -----------------------------
(***************************************************************************)
(* AvrTimer with a counter of eight values, words of 128 values instead of *)
(* 2^32, a clock of 3 MHz and prescalers 1, 2 and 4.  The delays take 6,   *)
(* 15, 27 and 60 cycles, for which the first, the second, the last and no  *)
(* prescaler fits, and 135, whose product wraps to 7.                      *)
(***************************************************************************)
EXTENDS AvrTimer

MCDelays     == {2, 5, 9, 20, 45}
MCPrescalers == <<1, 2, 4>>
=============================================================================
