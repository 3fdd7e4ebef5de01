------------------------------ MODULE MCStm32 ------------------------------
(***************************************************************************)
(* Stm32Device on a small flash: pages of four one-bit bytes (two half     *)
(* words) at 4 (bootloader), 8, 12 and 16, the last of which               *)
(* cnFlashPageWriteable refuses, and addresses of five bits, of which 28   *)
(* is the page whose upper bound wraps to 0.                               *)
(***************************************************************************)
EXTENDS Stm32Device

MCByte == {0, 1}

\* Bootloader page, application pages, last page, wrapping page, offsets that
\* are in the page, at its end, and a payload of another length.
MCWords == {1, 3, 4, 8, 13, 16, 30}

MCChunks == {<<0>>, <<0, 1, 0>>}

\* Stands for cnCRC16: it tells every page of zeros and ones from another.
MCCrc(p) == p[0] + 2 * p[1] + 4 * p[2] + 8 * p[3]

MCImages == {[p \in Pages |-> ErasedPage]}
=============================================================================
