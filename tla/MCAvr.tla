------------------------------- MODULE MCAvr -------------------------------
(***************************************************************************)
(* AvrDevice on a small flash: application pages 0, 4 and 8, the last of   *)
(* which cnFlashPageWriteable refuses, a bootloader page at 12, and        *)
(* addresses of five bits, of which 28 is the page whose upper bound wraps *)
(* to 0 and which the chip takes for page 12.                              *)
(***************************************************************************)
EXTENDS AvrDevice

MCByte == {0, 1}

\* Offsets that are in the page and at its end, application pages, the last
\* one, the bootloader and the wrapping page.
MCWords == {1, 4, 9, 12, 30}

MCChunks == {<<0>>, <<0, 1, 0>>}

\* Stands for cnCRC16: it tells every page of zeros and ones from another.
MCCrc(p) == p[0] + 2 * p[1] + 4 * p[2] + 8 * p[3]

MCImages == {[p \in Pages |-> ErasedPage]}
=============================================================================
