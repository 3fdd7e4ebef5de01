------------------------------- MODULE MCCrc16 -------------------------------
(***************************************************************************)
(* Messages of up to three bytes, each of which is one of sixteen: none,   *)
(* every single bit, and some with several.  The CRC is linear, so that    *)
(* the single bits say most of it.                                         *)
(***************************************************************************)
EXTENDS Crc16

MCBytes == {{i} : i \in 0 .. 7}
           \cup {{}, 0 .. 7, {0, 7}, {1, 3, 5}, {2, 4, 6}, {0, 1}, {6, 7}, {3, 4}}
=============================================================================
