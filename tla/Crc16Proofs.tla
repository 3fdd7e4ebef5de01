----------------------------- MODULE Crc16Proofs -----------------------------
(***************************************************************************)
(* cnCRC16 of either target returns the remainder of its message, however  *)
(* long; and the words of util.h survive being written and read again.     *)
(***************************************************************************)
EXTENDS Crc16, WellFoundedInduction, TLAPS

(* Little-endian words *)

\* Bits that are moved down and up again are where they were.
LEMMA ShlShr ==
  ASSUME NEW S \in SUBSET Int, NEW n \in Int
  PROVE  Shl(Shr(S, n), n) = S
<1>1. ASSUME NEW x \in S PROVE x \in Shl(Shr(S, n), n)
  <2>1. x - n \in Shr(S, n)
    BY <1>1 DEF Shr
  <2>2. x = (x - n) + n
    OBVIOUS
  <2> QED  BY <2>1, <2>2 DEF Shl
<1>2. ASSUME NEW x \in Shl(Shr(S, n), n) PROVE x \in S
  <2>1. PICK b \in Shr(S, n) : x = b + n
    BY <1>2 DEF Shl
  <2>2. PICK c \in S : b = c - n
    BY <2>1 DEF Shr
  <2>3. x = c
    BY <2>1, <2>2
  <2> QED  BY <2>2, <2>3
<1> QED  BY <1>1, <1>2

\* A byte that is not moved at all.
LEMMA ShrNothing ==
  ASSUME NEW S \in SUBSET Int
  PROVE  Shr(S, 0) = S
<1>1. \A b \in S : b - 0 = b
  OBVIOUS
<1> QED  BY <1>1 DEF Shr

\* cnReadU32LE undoes cnWriteU32LE (common/util.h:30-45).
THEOREM ReadsWrittenU32 ==
  ASSUME NEW w \in Word
  PROVE  ReadU32LE(WriteU32LE(w)) = w
<1> DEFINE Part(k) == w \cap (8 * k .. 8 * k + 7)
<1>1. \A k \in 0 .. 3 : WriteU32LE(w)[k] = Shr(Part(k), 8 * k)
  BY DEF WriteU32LE
<1>2. \A k \in 0 .. 3 : Part(k) \in SUBSET Int
  BY DEF Word
<1>3. WriteU32LE(w)[0] = Part(0)
  <2>1. WriteU32LE(w)[0] = Shr(Part(0), 0)
    BY <1>1
  <2> QED  BY <1>2, <2>1, ShrNothing
<1>4. \A k \in 1 .. 3 : Shl(WriteU32LE(w)[k], 8 * k) = Part(k)
  <2> TAKE k \in 1 .. 3
  <2>1. Part(k) \in SUBSET Int /\ 8 * k \in Int
    BY <1>2
  <2> HIDE DEF Part
  <2>2. Shl(Shr(Part(k), 8 * k), 8 * k) = Part(k)
    BY <2>1, ShlShr
  <2> QED  BY <1>1, <2>2
<1>5. w = Part(0) \cup Part(1) \cup Part(2) \cup Part(3)
  <2>1. ASSUME NEW b \in w
        PROVE  b \in Part(0) \/ b \in Part(1) \/ b \in Part(2) \/ b \in Part(3)
    <3>1. b \in 0 .. 31
      BY <2>1 DEF Word
    <3> QED  BY <2>1, <3>1
  <2> QED  BY <2>1
<1>6. /\ Shl(WriteU32LE(w)[1], 8) = Part(1)
      /\ Shl(WriteU32LE(w)[2], 16) = Part(2)
      /\ Shl(WriteU32LE(w)[3], 24) = Part(3)
  <2> HIDE DEF Part
  <2>1. 8 * 1 = 8 /\ 8 * 2 = 16 /\ 8 * 3 = 24
    OBVIOUS
  <2> QED  BY <1>4, <2>1
<1> HIDE DEF Part
<1> QED  BY <1>3, <1>5, <1>6 DEF ReadU32LE

\* cnReadU16LE undoes cnWriteU16LE (common/util.h:14-28).
THEOREM ReadsWrittenU16 ==
  ASSUME NEW w \in Word16
  PROVE  ReadU16LE(WriteU16LE(w)) = w
<1> DEFINE Part(k) == w \cap (8 * k .. 8 * k + 7)
<1>1. WriteU16LE(w)[0] = Shr(Part(0), 0) /\ WriteU16LE(w)[1] = Shr(Part(1), 8)
  BY DEF WriteU16LE
<1>2. Part(0) \in SUBSET Int /\ Part(1) \in SUBSET Int
  BY DEF Word16
<1>3. w = Part(0) \cup Part(1)
  <2>1. ASSUME NEW b \in w PROVE b \in Part(0) \/ b \in Part(1)
    <3>1. b \in 0 .. 15
      BY <2>1 DEF Word16
    <3> QED  BY <2>1, <3>1
  <2> QED  BY <2>1
<1> HIDE DEF Part
<1>4. Shl(WriteU16LE(w)[1], 8) = Part(1)
  BY <1>1, <1>2, ShlShr
<1>5. WriteU16LE(w)[0] = Part(0)
  BY <1>1, <1>2, ShrNothing
<1> QED  BY <1>3, <1>4, <1>5 DEF ReadU16LE

-----------------------------------------------------------------------------
(* The arithmetic of polynomials over GF(2) *)

\* Addition of polynomials is associative.
LEMMA XorAssoc ==
  ASSUME NEW u, NEW v, NEW w
  PROVE  Xor(Xor(u, v), w) = Xor(u, Xor(v, w))
BY DEF Xor

\* What is added twice is gone.
LEMMA XorTwice ==
  ASSUME NEW u, NEW v, NEW w
  PROVE  Xor(Xor(u, w), Xor(v, w)) = Xor(u, v)
BY DEF Xor

\* Of four pairs, the first members may be added first.
LEMMA XorPairs ==
  ASSUME NEW a, NEW b, NEW c, NEW d, NEW p, NEW q, NEW r, NEW s
  PROVE  Xor(Xor(Xor(a, p), Xor(b, q)), Xor(Xor(c, r), Xor(d, s)))
           = Xor(Xor(Xor(a, b), Xor(c, d)), Xor(Xor(p, q), Xor(r, s)))
<1>1. \A x, y, z, t : Xor(Xor(x, y), Xor(z, t)) = Xor(Xor(x, z), Xor(y, t))
  BY DEF Xor
<1> QED  BY ONLY <1>1

\* A shift moves a sum term by term, because it moves no two bits to one place.
LEMMA ShlXor ==
  ASSUME NEW v \in SUBSET Int, NEW w \in SUBSET Int, NEW n \in Int
  PROVE  Shl(Xor(v, w), n) = Xor(Shl(v, n), Shl(w, n))
BY DEF Shl, Xor

\* Two shifts are one.
LEMMA ShlShl ==
  ASSUME NEW v \in SUBSET Int, NEW m \in Int, NEW n \in Int
  PROVE  Shl(Shl(v, m), n) = Shl(v, m + n)
<1>1. ASSUME NEW x \in Shl(Shl(v, m), n) PROVE x \in Shl(v, m + n)
  <2>1. PICK b \in Shl(v, m) : x = b + n
    BY <1>1 DEF Shl
  <2>2. PICK c \in v : b = c + m
    BY <2>1 DEF Shl
  <2>3. x = c + (m + n)
    BY <2>1, <2>2
  <2> QED  BY <2>2, <2>3 DEF Shl
<1>2. ASSUME NEW x \in Shl(v, m + n) PROVE x \in Shl(Shl(v, m), n)
  <2>1. PICK c \in v : x = c + (m + n)
    BY <1>2 DEF Shl
  <2>2. c + m \in Shl(v, m) /\ x = (c + m) + n
    BY <2>1 DEF Shl
  <2> QED  BY <2>2 DEF Shl
<1> QED  BY <1>1, <1>2

\* Shifted polynomials are polynomials.
LEMMA ShlType ==
  ASSUME NEW v \in SUBSET Nat, NEW n \in Nat
  PROVE  Shl(v, n) \in SUBSET Nat /\ \A b \in Shl(v, n) : b >= n
BY DEF Shl

\* The product with the divisor moves as its factor does.
LEMMA TimesShl ==
  ASSUME NEW q \in SUBSET Nat
  PROVE  Times(Shl(q, 1)) = Shl(Times(q), 1)
<1> DEFINE X(n) == Shl(q, n)
<1>1. \A n \in Nat : X(n) \in SUBSET Int
  BY ShlType
<1>2. q \in SUBSET Int
  OBVIOUS
<1>3. \A n \in {5, 12, 16} : Shl(Shl(q, 1), n) = Shl(X(n), 1)
  BY <1>2, ShlShl
<1>4. Times(q) = Xor(Xor(X(16), X(12)), Xor(X(5), q))
  BY DEF Times
<1>5. Xor(X(16), X(12)) \in SUBSET Int /\ Xor(X(5), q) \in SUBSET Int
  BY <1>1, <1>2 DEF Xor
<1>6. Shl(Times(q), 1) = Xor(Shl(Xor(X(16), X(12)), 1), Shl(Xor(X(5), q), 1))
  BY <1>4, <1>5, ShlXor
<1>7. Shl(Xor(X(16), X(12)), 1) = Xor(Shl(X(16), 1), Shl(X(12), 1))
  BY <1>1, ShlXor
<1>8. Shl(Xor(X(5), q), 1) = Xor(Shl(X(5), 1), Shl(q, 1))
  BY <1>1, <1>2, ShlXor
<1>9. Times(Shl(q, 1)) = Xor(Xor(Shl(X(16), 1), Shl(X(12), 1)),
                             Xor(Shl(X(5), 1), Shl(q, 1)))
  BY <1>3 DEF Times
<1> QED  BY <1>6, <1>7, <1>8, <1>9

\* One more in the quotient is one divisor more in the product.
LEMMA TimesPlusOne ==
  ASSUME NEW q \in SUBSET Nat
  PROVE  Times(Xor(q, {0})) = Xor(Times(q), Divisor)
<1> DEFINE One(n) == Shl({0}, n)
<1>1. q \in SUBSET Int /\ {0} \in SUBSET Int
  OBVIOUS
<1>2. \A n \in {5, 12, 16} : Shl(Xor(q, {0}), n) = Xor(Shl(q, n), One(n))
  BY <1>1, ShlXor
<1>3. Times(Xor(q, {0})) = Xor(Xor(Xor(Shl(q, 16), One(16)), Xor(Shl(q, 12), One(12))),
                               Xor(Xor(Shl(q, 5), One(5)), Xor(q, {0})))
  BY <1>2 DEF Times
<1>4. One(16) = {16} /\ One(12) = {12} /\ One(5) = {5}
  BY DEF Shl
<1>5. Xor(Xor(One(16), One(12)), Xor(One(5), {0})) = Divisor
  BY <1>4 DEF Xor, Divisor, Polynomial
<1>6. Times(Xor(q, {0})) = Xor(Times(q), Xor(Xor(One(16), One(12)), Xor(One(5), {0})))
  BY <1>3, XorPairs DEF Times
<1> QED  BY <1>5, <1>6

-----------------------------------------------------------------------------
(* The loops *)

\* A byte is added to what has been read: the message grows by eight places.
LEMMA ByteStep ==
  ASSUME Congruent, NEW b \in Bytes, NextByte(b)
  PROVE  Congruent'
<1> USE CrcAssumption
<1>1. /\ message \in SUBSET Nat /\ quotient \in SUBSET Nat
      /\ crc \in Word16 /\ b \in Octet /\ shifts = 8
      /\ Shl(message, 16) = Xor(Times(quotient), crc)
  BY DEF Congruent, TypeOK, NextByte
<1>2. crc' = Xor(crc, Shl(b, 8)) /\ shifts' = 0 /\ quotient' = quotient
      /\ message' = Shl(message, 8) \cup b
  BY DEF NextByte, Aligned8
<1>3. Shl(b, 8) \in Word16 /\ b \in SUBSET Nat
  BY <1>1 DEF Shl, Octet, Word16
<1>4. crc' \in Word16
  BY <1>1, <1>2, <1>3 DEF Word16, Xor
<1>5. message' \in SUBSET Nat
  BY <1>1, <1>2, <1>3, ShlType
<1>6. TypeOK'
  <2>1. it' \in 0 .. Length
    BY DEF NextByte, Congruent, TypeOK
  <2> QED  BY <1>1, <1>2, <1>4, <1>5, <2>1 DEF TypeOK
<1>7. Shl(message', 8) = Shl(message, 16) \cup Shl(b, 8)
  <2>1. Shl(message', 8) = Shl(Shl(message, 8), 8) \cup Shl(b, 8)
    BY <1>2 DEF Shl
  <2>2. Shl(Shl(message, 8), 8) = Shl(message, 16)
    BY <1>1, ShlShl
  <2> QED  BY <2>1, <2>2
<1>8. Shl(message, 16) \cup Shl(b, 8) = Xor(Shl(message, 16), Shl(b, 8))
  <2>1. \A n \in Shl(message, 16) : n >= 16 /\ n \in Nat
    BY <1>1, ShlType
  <2>2. \A n \in Shl(b, 8) : n \in 0 .. 15
    BY <1>3 DEF Word16
  <2>3. Shl(message, 16) \cap Shl(b, 8) = {}
    BY <2>1, <2>2
  <2> QED  BY <2>3 DEF Xor
<1>9. Shl(message', 8) = Xor(Times(quotient), crc')
  <2>1. Shl(message', 8) = Xor(Xor(Times(quotient), crc), Shl(b, 8))
    BY <1>1, <1>7, <1>8
  <2> QED  BY <1>2, <2>1, XorAssoc
<1>10. Shl(message', 8 + shifts') = Shl(message', 8) /\ Times(quotient') = Times(quotient)
  BY <1>2
<1> QED  BY <1>6, <1>9, <1>10 DEF Congruent

\* One turn of the inner loop: everything moves up by one place, and a carry
\* takes one divisor away.
LEMMA ShiftStep ==
  ASSUME Congruent, ShiftOut
  PROVE  Congruent'
<1> DEFINE c == Shl(crc, 1)
           q == Shl(quotient, 1)
<1>1. /\ message \in SUBSET Nat /\ quotient \in SUBSET Nat
      /\ crc \in Word16 /\ shifts \in 0 .. 7
      /\ Shl(message, 8 + shifts) = Xor(Times(quotient), crc)
  BY DEF Congruent, TypeOK, ShiftOut
<1>2. crc' = Carried(c) /\ shifts' = shifts + 1 /\ message' = message
      /\ quotient' = q \cup (IF 15 \in crc THEN {0} ELSE {})
  BY DEF ShiftOut
<1>3. c \in SUBSET (0 .. 16) /\ (16 \in c <=> 15 \in crc)
  BY <1>1 DEF Shl, Word16
<1>4. q \in SUBSET Nat /\ 0 \notin q
  BY <1>1, ShlType
<1>5. Times(quotient) \in SUBSET Int /\ crc \in SUBSET Int
  <2>1. \A n \in Nat : Shl(quotient, n) \in SUBSET Nat
    BY <1>1, ShlType
  <2>2. Times(quotient) \in SUBSET Nat
    BY <1>1, <2>1 DEF Times, Xor
  <2> QED  BY <1>1, <2>2 DEF Word16
<1>6. Shl(message', 8 + shifts') = Xor(Times(q), c)
  <2>1. Shl(message', 8 + shifts') = Shl(Shl(message, 8 + shifts), 1)
    BY <1>1, <1>2, ShlShl
  <2>2. Shl(Xor(Times(quotient), crc), 1) = Xor(Shl(Times(quotient), 1), c)
    BY <1>5, ShlXor
  <2> QED  BY <1>1, <2>1, <2>2, TimesShl
<1>7. crc' \in Word16 /\ quotient' \in SUBSET Nat
      /\ Xor(Times(quotient'), crc') = Xor(Times(q), c)
  <2>1. CASE 15 \in crc
    <3>1. quotient' = Xor(q, {0})
      BY <1>2, <1>4, <2>1 DEF Xor
    <3>2. crc' = Xor(c, Polynomial) \cap (0 .. 15)
      BY <1>2, <1>3, <2>1 DEF Carried
    <3>3. Xor(c, Polynomial) \cap (0 .. 15) = Xor(c, Divisor)
      BY <1>3, <2>1 DEF Xor, Divisor, Polynomial
    <3>4. Times(quotient') = Xor(Times(q), Divisor)
      BY <1>4, <3>1, TimesPlusOne
    <3>5. Xor(Times(quotient'), crc') = Xor(Times(q), c)
      <4>1. Xor(Xor(Times(q), Divisor), Xor(c, Divisor)) = Xor(Times(q), c)
        BY XorTwice
      <4> QED  BY <3>2, <3>3, <3>4, <4>1
    <3>6. quotient' \in SUBSET Nat
      BY <1>4, <3>1 DEF Xor
    <3> QED  BY <3>2, <3>5, <3>6 DEF Word16
  <2>2. CASE 15 \notin crc
    <3>1. crc' = c /\ quotient' = q
      BY <1>2, <1>3, <2>2 DEF Carried
    <3>2. c \in Word16
      BY <1>3, <2>2 DEF Word16
    <3> QED  BY <1>4, <3>1, <3>2
  <2> QED  BY <2>1, <2>2
<1>8. TypeOK'
  <2>1. it' = it /\ it \in 0 .. Length
    BY DEF ShiftOut, Congruent, TypeOK
  <2> QED  BY <1>1, <1>2, <1>7, <2>1 DEF TypeOK
<1> QED  BY <1>6, <1>7, <1>8 DEF Congruent

\* Nothing is congruent to nothing.
LEMMA InitCongruent == Init => Congruent
<1> SUFFICES ASSUME Init PROVE Congruent
  OBVIOUS
<1>1. \A n : Shl({}, n) = {}
  BY DEF Shl
<1>2. Times({}) = {} /\ Xor({}, {}) = {}
  BY <1>1 DEF Times, Xor
<1>3. TypeOK
  BY CrcAssumption DEF Init, TypeOK, Word16
<1> QED  BY <1>1, <1>2, <1>3 DEF Init, Congruent

\* However many bytes are read, crc is congruent to them: when the loops end,
\* cnCRC16 of stm32/util.c returns a remainder by the polynomial of XMODEM.
THEOREM CrcIsRemainder == Spec => []Congruent
<1>1. Init => Congruent
  BY InitCongruent
<1>2. Congruent /\ [Next]_crcVars => Congruent'
  <2> SUFFICES ASSUME Congruent, [Next]_crcVars PROVE Congruent'
    OBVIOUS
  <2>1. ASSUME NEW b \in Bytes, NextByte(b) PROVE Congruent'
    BY <2>1, ByteStep
  <2>2. CASE ShiftOut
    BY <2>2, ShiftStep
  <2>3. CASE UNCHANGED crcVars
    BY <2>3 DEF crcVars, Congruent, TypeOK
  <2> QED  BY <2>1, <2>2, <2>3 DEF Next
<1> QED  BY <1>1, <1>2, PTL DEF Spec

-----------------------------------------------------------------------------
(* The turns of the AVR loop *)

\* The eight turns, one after another.
LEMMA TurnsDef ==
  ASSUME NEW c
  PROVE  Turns(c) = [n \in 0 .. 8 |-> IF n = 0 THEN c ELSE BeforeShift(Turns(c)[n - 1])]
<1> DEFINE c1 == BeforeShift(c)
           c2 == BeforeShift(c1)
           c3 == BeforeShift(c2)
           c4 == BeforeShift(c3)
           c5 == BeforeShift(c4)
           c6 == BeforeShift(c5)
           c7 == BeforeShift(c6)
           c8 == BeforeShift(c7)
           f == [n \in 0 .. 8 |-> CASE n = 0 -> c  [] n = 1 -> c1 [] n = 2 -> c2
                                    [] n = 3 -> c3 [] n = 4 -> c4 [] n = 5 -> c5
                                    [] n = 6 -> c6 [] n = 7 -> c7 [] n = 8 -> c8]
<1>1. f = [n \in 0 .. 8 |-> IF n = 0 THEN c ELSE BeforeShift(f[n - 1])]
  OBVIOUS
<1> HIDE DEF f
<1>2. \E g : g = [n \in 0 .. 8 |-> IF n = 0 THEN c ELSE BeforeShift(g[n - 1])]
  BY <1>1
<1> QED
  BY <1>2 DEF Turns

\* A turn first, and the others after it.
LEMMA TurnFirst ==
  ASSUME NEW c, NEW n \in 0 .. 7
  PROVE  Turns(c)[n + 1] = Turns(BeforeShift(c))[n]
<1> DEFINE t == Turns(c)
           u == Turns(BeforeShift(c))
<1>1. t[0] = c /\ u[0] = BeforeShift(c)
  BY TurnsDef
<1>2. \A k \in 0 .. 7 : t[k + 1] = BeforeShift(t[k]) /\ u[k + 1] = BeforeShift(u[k])
  <2> TAKE k \in 0 .. 7
  <2>1. k + 1 \in 0 .. 8 /\ k + 1 # 0 /\ (k + 1) - 1 = k
    OBVIOUS
  <2> QED
    BY <2>1, TurnsDef
<1> HIDE DEF t, u
<1>3. t[1] = u[0]
  BY <1>1, <1>2
<1>4. t[2] = u[1]
  BY <1>2, <1>3
<1>5. t[3] = u[2]
  BY <1>2, <1>4
<1>6. t[4] = u[3]
  BY <1>2, <1>5
<1>7. t[5] = u[4]
  BY <1>2, <1>6
<1>8. t[6] = u[5]
  BY <1>2, <1>7
<1>9. t[7] = u[6]
  BY <1>2, <1>8
<1>10. t[8] = u[7]
  BY <1>2, <1>9
<1> QED
  BY <1>3, <1>4, <1>5, <1>6, <1>7, <1>8, <1>9, <1>10 DEF t, u

\* A turn of the STM32 loop is one of the AVR loop: testing before the shift
\* in 16 bits, and after it in 32, are the same.
LEMMA SameTurn ==
  ASSUME NEW c \in Word16
  PROVE  Carried(Shl(c, 1)) = BeforeShift(c)
<1>1. Shl(c, 1) \in SUBSET (0 .. 16) /\ (16 \in Shl(c, 1) <=> 15 \in c)
  BY DEF Shl, Word16
<1>2. CASE 15 \in c
  <2>1. Xor(Shl(c, 1), Polynomial) \cap (0 .. 15) = Xor(Shl(c, 1) \cap (0 .. 15), Polynomial)
    BY DEF Xor, Polynomial
  <2> QED
    BY <1>1, <1>2, <2>1 DEF Carried, BeforeShift
<1>3. CASE 15 \notin c
  BY <1>1, <1>3 DEF Carried, BeforeShift
<1> QED
  BY <1>2, <1>3

-----------------------------------------------------------------------------
(* The invariant *)

\* A byte is read.
LEMMA ByteInv ==
  ASSUME IInv, NEW b \in Bytes, NextByte(b)
  PROVE  IInv'
<1>1. Congruent'
  BY ByteStep DEF IInv
<1>2. /\ it \in Nat /\ message \in SUBSET Nat /\ quotient \in SUBSET Nat
      /\ b \in SUBSET (0 .. 7)
      /\ shifts = 8 /\ it' = it + 1 /\ shifts' = 0
      /\ message' = Shl(message, 8) \cup b /\ quotient' = quotient
      /\ \A n \in message : n < 8 * it
      /\ \A n \in quotient : n < 8 * (it - 1) + shifts
  BY CrcAssumption DEF IInv, Congruent, TypeOK, Bounded, NextByte, Octet
<1>3. Bounded'
  <2>1. \A n \in Shl(message, 8) : n < 8 * (it + 1)
    BY <1>2 DEF Shl
  <2>2. \A n \in b : n < 8 * (it + 1)
    BY <1>2
  <2>3. \A n \in quotient : n < 8 * ((it + 1) - 1) + 0
    BY <1>2
  <2>4. it + 1 # 0
    BY <1>2
  <2> QED
    BY <1>2, <2>1, <2>2, <2>3, <2>4 DEF Bounded
<1>4. Ahead'
  <2>1. avrCrc = crc
    <3>1. Turns(crc)[0] = crc
      BY TurnsDef
    <3>2. 8 - shifts = 0
      BY <1>2
    <3> QED
      BY <3>1, <3>2 DEF IInv, Ahead
  <2>2. avrCrc' = Turns(crc')[8] /\ 8 - shifts' = 8
    BY <1>2, <2>1 DEF NextByte, XmodemUpdate, Aligned8
  <2> QED
    BY <2>2 DEF Ahead
<1> QED
  BY <1>1, <1>3, <1>4 DEF IInv

\* A bit is shifted out.
LEMMA ShiftInv ==
  ASSUME IInv, ShiftOut
  PROVE  IInv'
<1>1. Congruent'
  BY ShiftStep DEF IInv
<1>2. /\ it \in Nat /\ shifts \in 0 .. 7 /\ shifts' = shifts + 1 /\ it' = it
      /\ crc \in Word16 /\ crc' = Carried(Shl(crc, 1))
      /\ quotient \in SUBSET Nat /\ message' = message
      /\ quotient' = Shl(quotient, 1) \cup (IF 15 \in crc THEN {0} ELSE {})
      /\ \A n \in message : n < 8 * it
      /\ \A n \in quotient : n < 8 * (it - 1) + shifts
      /\ it # 0
  BY CrcAssumption DEF IInv, Congruent, TypeOK, Bounded, ShiftOut
<1>3. Bounded'
  <2>1. \A n \in Shl(quotient, 1) : n < 8 * (it - 1) + (shifts + 1)
    BY <1>2 DEF Shl
  <2>2. 0 < 8 * (it - 1) + (shifts + 1)
    BY <1>2
  <2> QED
    BY <1>2, <2>1, <2>2 DEF Bounded
<1>4. Ahead'
  <2>1. 7 - shifts \in 0 .. 7 /\ 8 - shifts = (7 - shifts) + 1 /\ 8 - shifts' = 7 - shifts
    BY <1>2
  <2>2. Turns(crc)[8 - shifts] = Turns(BeforeShift(crc))[7 - shifts]
    BY <2>1, TurnFirst
  <2>3. Turns(crc)[8 - shifts] = Turns(crc')[8 - shifts']
    BY <1>2, <2>1, <2>2, SameTurn
  <2> QED
    BY <2>3 DEF IInv, Ahead, ShiftOut
<1> QED
  BY <1>1, <1>3, <1>4 DEF IInv

\* The two loops, side by side, for messages of any length.
THEOREM Invariance == Spec => []IInv
<1>1. Init => IInv
  <2> SUFFICES ASSUME Init PROVE IInv
    OBVIOUS
  <2>1. Congruent
    BY InitCongruent
  <2>2. Ahead
    <3>1. Turns({})[0] = {}
      BY TurnsDef
    <3> QED
      BY <3>1 DEF Ahead, Init
  <2> QED
    BY <2>1, <2>2 DEF IInv, Bounded, Init
<1>2. IInv /\ [Next]_crcVars => IInv'
  <2> SUFFICES ASSUME IInv, [Next]_crcVars PROVE IInv'
    OBVIOUS
  <2>1. ASSUME NEW b \in Bytes, NextByte(b) PROVE IInv'
    BY <2>1, ByteInv
  <2>2. CASE ShiftOut
    BY <2>2, ShiftInv
  <2>3. CASE UNCHANGED crcVars
    BY <2>3 DEF crcVars, IInv, Congruent, TypeOK, Bounded, Ahead
  <2> QED
    BY <2>1, <2>2, <2>3 DEF Next
<1> QED
  BY <1>1, <1>2, PTL DEF Spec

-----------------------------------------------------------------------------
(* The remainder is unique *)

\* A set of natural numbers that is not empty has a least member; it is how
\* the proofs below go by induction.
LEMMA Least ==
  ASSUME NEW T \in SUBSET Nat, T # {}
  PROVE  \E x \in T : \A y \in T : x <= y
<1> DEFINE R == {ss \in Nat \X Nat : ss[1] < ss[2]}
<1>1. IsWellFoundedOn(R, Nat)
  BY NatLessThanWellFounded DEF OpToRel
<1>2. PICK x \in T : \A y \in T : <<y, x>> \notin R
  BY <1>1, WFMin
<1>3. \A y \in T : ~(y < x)
  BY <1>2
<1> QED
  BY <1>3

\* A polynomial of degree below n.
Below(p, n) == p \in SUBSET Nat /\ \A b \in p : b < n

\* Products with the divisor add up as their factors do.
LEMMA TimesXor ==
  ASSUME NEW p \in SUBSET Nat, NEW q \in SUBSET Nat
  PROVE  Times(Xor(p, q)) = Xor(Times(p), Times(q))
<1>1. \A n \in {5, 12, 16} : Shl(Xor(p, q), n) = Xor(Shl(p, n), Shl(q, n))
  BY ShlXor
<1>2. Times(Xor(p, q)) = Xor(Xor(Xor(Shl(p, 16), Shl(q, 16)), Xor(Shl(p, 12), Shl(q, 12))),
                             Xor(Xor(Shl(p, 5), Shl(q, 5)), Xor(p, q)))
  BY <1>1 DEF Times
<1> QED
  BY <1>2, XorPairs DEF Times

\* No multiple of the divisor but 0 is of a degree below 16.
LEMMA MultipleIsLarge ==
  ASSUME NEW q, NEW n \in Nat, Below(q, n), Times(q) \in SUBSET (0 .. 15)
  PROVE  q = {}
<1> SUFFICES ASSUME q # {} PROVE FALSE
  OBVIOUS
<1>1. q \in SUBSET Nat /\ \A b \in q : b < n
  BY DEF Below
<1> DEFINE bounds == {k \in Nat : \A b \in q : b <= k}
<1>2. n \in bounds /\ bounds \in SUBSET Nat
  BY <1>1
<1>3. PICK d \in bounds : \A k \in bounds : d <= k
  BY <1>2, Least
<1>4. d \in q
  <2> SUFFICES ASSUME d \notin q PROVE FALSE
    OBVIOUS
  <2>1. \A b \in q : b <= d /\ b # d /\ b \in Nat /\ d \in Nat
    BY <1>1, <1>3
  <2>2. \A b \in q : b <= d - 1
    BY <2>1
  <2>3. PICK b \in q : TRUE
    OBVIOUS
  <2>4. d - 1 \in Nat
    BY <2>1, <2>3
  <2>5. d - 1 \in bounds
    BY <2>2, <2>4
  <2> QED
    BY <1>3, <2>1, <2>5
<1>5. \A b \in q : b <= d /\ b \in Nat /\ d \in Nat
  BY <1>1, <1>3
<1>6. d + 16 \in Shl(q, 16)
  BY <1>4 DEF Shl
<1>7. d + 16 \notin Shl(q, 12) /\ d + 16 \notin Shl(q, 5) /\ d + 16 \notin q
  BY <1>5 DEF Shl
<1>8. d + 16 \in Times(q)
  BY <1>6, <1>7 DEF Times, Xor
<1> QED
  BY <1>5, <1>4, <1>8

\* Two remainders of a polynomial are one.
LEMMA RemainderUnique ==
  ASSUME NEW p, NEW q, NEW n \in Nat, Below(p, n), Below(q, n),
         NEW r \in Word16, NEW s \in Word16,
         Xor(Times(p), r) = Xor(Times(q), s)
  PROVE  r = s
<1>1. p \in SUBSET Nat /\ q \in SUBSET Nat /\ Below(Xor(p, q), n)
  BY DEF Below, Xor
<1>2. Times(Xor(p, q)) = Xor(r, s)
  <2>1. Times(Xor(p, q)) = Xor(Times(p), Times(q))
    BY <1>1, TimesXor
  <2>2. \A a, b : Xor(a, r) = Xor(b, s) => Xor(a, b) = Xor(r, s)
    BY DEF Xor
  <2> QED
    BY <2>1, <2>2
<1>3. Xor(r, s) \in SUBSET (0 .. 15)
  BY DEF Xor, Word16
<1>4. Xor(p, q) = {}
  BY <1>1, <1>2, <1>3, MultipleIsLarge
<1>5. p = q
  BY <1>4 DEF Xor
<1>6. \A a : Xor(a, r) = Xor(a, s) => r = s
  BY DEF Xor
<1> QED
  BY <1>5, <1>6

-----------------------------------------------------------------------------
(* The long division *)

\* The degree at which the division begins.
Top == 8 * Length + 16

\* Function d holds the rests of m by the division down to degree `low'.
Divides(d, m, low) ==
  d = [n \in low .. Top |-> IF n = Top THEN Shl(m, 16) ELSE Reduce(d[n + 1], n)]

\* There is such a function, down to any degree.
LEMMA DivisionExists ==
  ASSUME NEW m
  PROVE  \A k \in 0 .. 8 * Length : \E d : Divides(d, m, Top - k)
<1> DEFINE without == {k \in 0 .. 8 * Length : ~ \E d : Divides(d, m, Top - k)}
<1>1. Length \in Nat /\ Top \in Nat /\ 8 * Length \in Nat
  BY CrcAssumption DEF Top
<1> SUFFICES ASSUME without # {} PROVE FALSE
  OBVIOUS
<1>2. PICK k \in without : \A j \in without : k <= j
  <2>1. without \in SUBSET Nat
    BY <1>1
  <2> HIDE DEF without
  <2> QED
    BY <2>1, Least
<1>3. k # 0
  <2>1. Divides([n \in Top .. Top |-> Shl(m, 16)], m, Top)
    BY <1>1 DEF Divides
  <2>2. Top - 0 = Top
    BY <1>1
  <2> QED
    BY <2>1, <2>2
<1>4. k \in Nat /\ k - 1 \in 0 .. 8 * Length /\ k - 1 \notin without
  BY <1>1, <1>2, <1>3
<1>5. PICK d : Divides(d, m, Top - (k - 1))
  BY <1>4
<1> DEFINE low == Top - k
           e == [n \in low .. Top |-> IF n = low THEN Reduce(d[low + 1], low) ELSE d[n]]
<1>6. /\ low \in Int /\ low < Top /\ Top - (k - 1) = low + 1
      /\ \A n \in low + 1 .. Top : n \in low .. Top /\ n # low
      /\ \A n \in low .. Top : n # Top => n + 1 \in low + 1 .. Top
      /\ \A n \in low .. Top : n # low => n \in low + 1 .. Top
      /\ low \in low .. Top
  BY <1>1, <1>3, <1>4
<1>7. Divides(d, m, low + 1)
  BY <1>5, <1>6
<1> HIDE DEF low
<1>8. \A n \in low + 1 .. Top : d[n] = IF n = Top THEN Shl(m, 16) ELSE Reduce(d[n + 1], n)
  BY <1>7 DEF Divides
<1>9. \A n \in low .. Top : e[n] = IF n = Top THEN Shl(m, 16) ELSE Reduce(e[n + 1], n)
  <2> TAKE n \in low .. Top
  <2>1. CASE n = low
    BY <1>6, <2>1
  <2>2. CASE n # low
    <3>1. e[n] = d[n] /\ d[n] = IF n = Top THEN Shl(m, 16) ELSE Reduce(d[n + 1], n)
      BY <1>6, <1>8, <2>2
    <3>2. n # Top => e[n + 1] = d[n + 1]
      BY <1>6
    <3> QED
      BY <3>1, <3>2
  <2> QED
    BY <2>1, <2>2
<1>10. Divides(e, m, low)
  <2>1. e = [n \in low .. Top |-> e[n]]
    OBVIOUS
  <2> HIDE DEF e
  <2> QED
    BY <1>9, <2>1 DEF Divides
<1> HIDE DEF e
<1> QED
  BY <1>2, <1>10 DEF low

\* So Division is the function it is defined by.
LEMMA DivisionDef ==
  ASSUME NEW m
  PROVE  Divides(Division(m), m, 16)
<1>1. 8 * Length \in 0 .. 8 * Length /\ Top - 8 * Length = 16
  BY CrcAssumption DEF Top
<1>2. \E d : Divides(d, m, 16)
  BY <1>1, DivisionExists
<1>3. \E d : d = [n \in 16 .. 8 * Length + 16 |->
                    IF n = 8 * Length + 16 THEN Shl(m, 16) ELSE Reduce(d[n + 1], n)]
  BY <1>2 DEF Divides, Top
<1> QED
  BY <1>3 DEF Division, Divides, Top

\* A polynomial p of degree below n is a rest of m.
Rest(p, m, n) ==
  /\ Below(p, n)
  /\ \E q : Below(q, 8 * Length) /\ Shl(m, 16) = Xor(Times(q), p)

\* A step of the division takes a multiple of the divisor away, and a degree.
LEMMA ReduceStep ==
  ASSUME NEW m, NEW p, NEW n \in 16 .. Top - 1, Rest(p, m, n + 1)
  PROVE  Rest(Reduce(p, n), m, n)
<1>1. Length \in Nat /\ n \in Nat /\ n - 16 \in Nat /\ n - 16 < 8 * Length
  BY CrcAssumption DEF Top
<1>2. p \in SUBSET Nat /\ \A b \in p : b < n + 1
  BY DEF Rest, Below
<1>3. PICK q : Below(q, 8 * Length) /\ Shl(m, 16) = Xor(Times(q), p)
  BY DEF Rest
<1>4. CASE n \notin p
  <2>1. Below(p, n)
    BY <1>1, <1>2, <1>4 DEF Below
  <2> QED
    BY <1>3, <1>4, <2>1 DEF Reduce, Rest
<1>5. CASE n \in p
  <2> DEFINE k == n - 16
             D == {k, k + 5, k + 12, k + 16}
  <2>1. Shl(Divisor, k) = D
    BY <1>1 DEF Shl, Divisor, Polynomial
  <2>2. Times({k}) = D
    BY <1>1 DEF Times, Shl, Xor
  <2>3. n = k + 16 /\ k \in Nat /\ k < 8 * Length
    BY <1>1
  <2> HIDE DEF k
  <2>4. Below(Xor(p, D), n)
    BY <1>1, <1>2, <1>5, <2>3 DEF Below, Xor
  <2>5. Below(Xor(q, {k}), 8 * Length) /\ q \in SUBSET Nat
    BY <1>3, <2>3 DEF Below, Xor
  <2>6. Times(Xor(q, {k})) = Xor(Times(q), D)
    BY <2>2, <2>3, <2>5, TimesXor
  <2>7. Xor(Times(Xor(q, {k})), Xor(p, D)) = Shl(m, 16)
    BY <1>3, <2>6, XorTwice
  <2>8. Reduce(p, n) = Xor(p, D)
    BY <1>5, <2>1 DEF Reduce, k
  <2> QED
    BY <2>4, <2>5, <2>7, <2>8 DEF Rest
<1> QED
  BY <1>4, <1>5

\* What the division leaves is a rest of degree below 16.
LEMMA RemainderIsRest ==
  ASSUME NEW m \in SUBSET Nat, Below(m, 8 * Length)
  PROVE  Rest(Remainder(m), m, 16)
<1> DEFINE d == Division(m)
           bad == {k \in 0 .. 8 * Length : ~Rest(d[Top - k], m, Top - k)}
<1>1. Length \in Nat /\ Top \in Nat /\ 8 * Length \in Nat /\ 16 <= Top /\ Top - 8 * Length = 16
  BY CrcAssumption DEF Top
<1>2. \A n \in 16 .. Top : d[n] = IF n = Top THEN Shl(m, 16) ELSE Reduce(d[n + 1], n)
  BY DivisionDef DEF Divides
<1> HIDE DEF d
<1>3. bad = {}
  <2> SUFFICES ASSUME bad # {} PROVE FALSE
    OBVIOUS
  <2>1. PICK k \in bad : \A j \in bad : k <= j
    <3>1. bad \in SUBSET Nat
      BY <1>1
    <3> HIDE DEF bad
    <3> QED
      BY <3>1, Least
  <2>2. k \in 0 .. 8 * Length /\ ~Rest(d[Top - k], m, Top - k)
    BY <2>1
  <2>3. k # 0
    <3>1. Rest(Shl(m, 16), m, Top)
      <4>1. Below(Shl(m, 16), Top)
        BY <1>1 DEF Below, Shl, Top
      <4>2. Below({}, 8 * Length)
        BY DEF Below
      <4>3. Times({}) = {}
        BY DEF Times, Shl, Xor
      <4>4. Xor({}, Shl(m, 16)) = Shl(m, 16)
        BY DEF Xor
      <4> QED
        BY <4>1, <4>2, <4>3, <4>4 DEF Rest
    <3>2. Top - 0 = Top /\ d[Top] = Shl(m, 16)
      BY <1>1, <1>2
    <3> QED
      BY <2>2, <3>1, <3>2
  <2>4. k - 1 \in 0 .. 8 * Length /\ k - 1 \notin bad
    BY <1>1, <2>1, <2>2, <2>3
  <2>5. /\ Top - k \in 16 .. Top - 1 /\ Top - k \in 16 .. Top /\ Top - k # Top
        /\ (Top - k) + 1 = Top - (k - 1)
    BY <1>1, <2>2, <2>3 DEF Top
  <2>6. Rest(d[(Top - k) + 1], m, (Top - k) + 1)
    BY <2>4, <2>5
  <2>7. Rest(Reduce(d[(Top - k) + 1], Top - k), m, Top - k)
    BY <2>5, <2>6, ReduceStep
  <2> QED
    BY <1>2, <2>2, <2>5, <2>7
<1>4. Rest(d[Top - 8 * Length], m, Top - 8 * Length)
  <2>1. 8 * Length \in 0 .. 8 * Length
    BY <1>1
  <2>2. \A k \in 0 .. 8 * Length : Rest(d[Top - k], m, Top - k)
    BY <1>3
  <2> QED
    BY <2>1, <2>2
<1> QED
  BY <1>1, <1>4 DEF d, Remainder

-----------------------------------------------------------------------------
(* The theorem *)

\* Both targets compute the CRC-16 of XMODEM, so a master need not know which
\* it talks to, whatever the data and however long (common/util.h:75).
THEOREM TargetsCompute == Spec => []TargetsAgree
<1>1. IInv => TargetsAgree
  <2> SUFFICES ASSUME IInv, shifts = 8
               PROVE  crc = Remainder(message) /\ avrCrc = crc
    BY DEF TargetsAgree
  <2>1. /\ it \in 0 .. Length /\ Length \in Nat /\ crc \in Word16
        /\ message \in SUBSET Nat /\ quotient \in SUBSET Nat
        /\ Shl(message, 16) = Xor(Times(quotient), crc)
        /\ \A b \in message : b < 8 * it
        /\ \A b \in quotient : b < 8 * (it - 1) + 8
    BY CrcAssumption DEF IInv, Congruent, TypeOK, Bounded
  <2>2. Below(message, 8 * Length) /\ Below(quotient, 8 * Length)
    BY <2>1 DEF Below
  <2>3. Rest(Remainder(message), message, 16)
    BY <2>1, <2>2, RemainderIsRest
  <2>4. PICK q : Below(q, 8 * Length)
                 /\ Shl(message, 16) = Xor(Times(q), Remainder(message))
    BY <2>3 DEF Rest
  <2>5. Remainder(message) \in Word16
    BY <2>3 DEF Rest, Below, Word16
  <2>6. 8 * Length \in Nat
    BY <2>1
  <2>7. crc = Remainder(message)
    BY <2>1, <2>2, <2>4, <2>5, <2>6, RemainderUnique
  <2>8. Turns(crc)[0] = crc /\ 8 - shifts = 0
    BY TurnsDef
  <2> QED
    BY <2>7, <2>8 DEF IInv, Ahead
<1> QED
  BY <1>1, Invariance, PTL
=============================================================================
