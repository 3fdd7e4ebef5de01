-------------------------------- MODULE Crc16 --------------------------------
(***************************************************************************)
(* cnCRC16 on both targets: the loops of stm32/util.c, one action per turn *)
(* of the outer and of the inner one, and the loop of avr/util.c over      *)
(* _crc_xmodem_update of avr-libc.                                         *)
(*                                                                         *)
(* A polynomial over GF(2) is the set of its exponents.  The message read  *)
(* so far is such a polynomial, the last bit read its coefficient of 1;    *)
(* `message' and `quotient' are ghosts that no code keeps.                 *)
(***************************************************************************)
EXTENDS Util

CONSTANTS
  Bytes,  \* the values a byte of data may have
  Length  \* how many bytes of data there are (len)

ASSUME CrcAssumption == Bytes \subseteq Octet /\ Length \in Nat

VARIABLES
  it,        \* how many bytes have been read
  shifts,    \* i of the inner loop; 8 when it has ended
  crc,       \* crc of stm32/util.c
  avrCrc,    \* crc of avr/util.c after as many bytes
  message,   \* the bytes read, as a polynomial
  quotient   \* of message * x^16, by the divisor

crcVars == <<it, shifts, crc, avrCrc, message, quotient>>

Polynomial == {0, 5, 12}             \* CN_CRC16_POLYNOMIAL, 0x1021
Divisor    == Polynomial \cup {16}

Init ==
  /\ it = 0
  /\ shifts = 8
  /\ crc = {}
  /\ avrCrc = {}
  /\ message = {}
  /\ quotient = {}

\* The shift of the inner loop, with the XOR and mask that a carry calls for.
Unmasked16(c) == IF 16 \in c THEN Xor(c, Polynomial) ELSE c   \* mutant: no mask
Carried(c) == IF 16 \in c THEN Xor(c, Polynomial) \cap (0 .. 15) ELSE c

\* _crc_xmodem_update: the same on a 16-bit variable, testing before shifting.
BeforeShift(c) == IF 15 \in c THEN Xor(Shl(c, 1) \cap (0 .. 15), Polynomial)
                  ELSE Shl(c, 1)
Turns(c) ==
  LET after[n \in 0 .. 8] == IF n = 0 THEN c ELSE BeforeShift(after[n - 1])
  IN  after
XmodemUpdate(c, b) == Turns(Xor(c, Shl(b, 8)))[8]

HighFirst(b) == {7 - i : i \in b}    \* mutant: the least bit is shifted in first
Aligned8(b)  == Shl(b, 8)

NextByte(b) ==
  /\ shifts = 8
  /\ it < Length
  /\ it' = it + 1
  /\ shifts' = 0
  /\ crc' = Xor(crc, Aligned8(b))
  /\ avrCrc' = XmodemUpdate(avrCrc, b)
  /\ message' = Shl(message, 8) \cup b
  /\ UNCHANGED quotient

ShiftOut ==
  /\ shifts < 8
  /\ shifts' = shifts + 1
  /\ crc' = Carried(Shl(crc, 1))
  /\ quotient' = Shl(quotient, 1) \cup (IF 15 \in crc THEN {0} ELSE {})
  /\ UNCHANGED <<it, avrCrc, message>>

Next == (\E b \in Bytes : NextByte(b)) \/ ShiftOut

Spec == Init /\ [][Next]_crcVars

-----------------------------------------------------------------------------
(* Properties *)

\* The product of a polynomial and the divisor.
Times(q) == Xor(Xor(Shl(q, 16), Shl(q, 12)), Xor(Shl(q, 5), q))

\* Types; crc never outgrows 16 bits, though its variable has 32.
TypeOK ==
  /\ it \in 0 .. Length
  /\ shifts \in 0 .. 8
  /\ crc \in Word16
  /\ message \in SUBSET Nat
  /\ quotient \in SUBSET Nat

\* At every turn of either loop crc is congruent to the message, moved up by
\* the 16 places of a CRC as far as the bits of the last byte have been shifted
\* out (stm32/util.c:20-31).
Congruent ==
  /\ TypeOK
  /\ Shl(message, 8 + shifts) = Xor(Times(quotient), crc)

\* The CRC of XMODEM by its definition, the remainder of a long division that
\* knows nothing of bytes: degree after degree, from the highest.
Reduce(p, degree) ==
  IF degree \in p THEN Xor(p, Shl(Divisor, degree - 16)) ELSE p
Division(m) ==
  LET rest[n \in 16 .. 8 * Length + 16] ==
        IF n = 8 * Length + 16 THEN Shl(m, 16) ELSE Reduce(rest[n + 1], n)
  IN  rest
Remainder(m) == Division(m)[16]

\* What the STM32 loop would return after each byte is that remainder, and the
\* AVR loop returns the same: a master need not know which target it talks to
\* (common/util.h:75, avr/util.c:13-20).
TargetsAgree == shifts = 8 => crc = Remainder(message) /\ avrCrc = crc

-----------------------------------------------------------------------------
(* Why the targets agree *)

\* Message and quotient are polynomials, of no more bits than have been read
\* and shifted out: a remainder by a power series would be any.
Bounded ==
  /\ \A b \in message : b < 8 * it
  /\ \A b \in quotient : b < 8 * (it - 1) + shifts
  /\ it = 0 => shifts = 8

\* While the STM32 loop works on a byte, the AVR loop is the turns ahead that
\* are left.
Ahead == avrCrc = Turns(crc)[8 - shifts]

\* The inductive invariant.
IInv == Congruent /\ Bounded /\ Ahead
=============================================================================
