-------------------------------- MODULE Util --------------------------------
(***************************************************************************)
(* common/util.h: little-endian words, and the arithmetic of bits that it, *)
(* the CRC and the identifiers are built from.                             *)
(*                                                                         *)
(* A word, or a byte, is the set of the numbers of its 1 bits, so that |   *)
(* is union, & is intersection, ^ is Xor and a shift moves every bit.      *)
(***************************************************************************)
EXTENDS Integers

Word   == SUBSET (0 .. 31)
Word16 == SUBSET (0 .. 15)
Octet  == SUBSET (0 .. 7)

Shl(w, n) == {b + n : b \in w}
Shr(w, n) == {b - n : b \in w}
Xor(v, w) == (v \ w) \cup (w \ v)

-----------------------------------------------------------------------------
(* Byte order.  The bytes of a payload are numbered from 0. *)

ReadU16LE(bytes) == bytes[0] \cup Shl(bytes[1], 8)

WriteU16LE(w) == [k \in 0 .. 1 |-> Shr(w \cap (8 * k .. 8 * k + 7), 8 * k)]

ReadU32LE(bytes) == bytes[0] \cup Shl(bytes[1], 8) \cup Shl(bytes[2], 16)
                    \cup Shl(bytes[3], 24)

WriteU32LE(w) == [k \in 0 .. 3 |-> Shr(w \cap (8 * k .. 8 * k + 7), 8 * k)]

=============================================================================
