---------------------------- MODULE AvrCanProofs ----------------------------
(***************************************************************************)
(* For every set of devices, commands and replies, and whatever is in the  *)
(* filters that are never written: filter 0 of an AVR device is exact,     *)
(* though the identifiers are taken apart into four registers.             *)
(***************************************************************************)
EXTENDS AvrCan, SequenceTheorems, TLAPS

-----------------------------------------------------------------------------
(* Identifiers, bit by bit *)

\* The numbers of the commands and replies fit in the four bits above 12, and
\* the bits of a device id take the places 4 to 11.
LEMMA FieldBits ==
  /\ \A n \in Nat : Shl(Bits(n), 12) \subseteq 12 .. 15
  /\ \A d \in DevId : Shl(d, 4) \subseteq 4 .. 11
BY DEF Shl, Bits, DevId, Octet

\* Different device ids have different identifier bits.
LEMMA DevicesApart ==
  ASSUME NEW d \in DevId, NEW e \in DevId, Shl(d, 4) = Shl(e, 4)
  PROVE  d = e
<1>1. \A a, b \in DevId : Shl(a, 4) = Shl(b, 4) => a \subseteq b
  <2> SUFFICES ASSUME NEW a \in DevId, NEW b \in DevId, Shl(a, 4) = Shl(b, 4),
                      NEW i \in a
               PROVE  i \in b
    OBVIOUS
  <2>1. i + 4 \in Shl(b, 4)
    BY DEF Shl
  <2>2. PICK j \in b : i + 4 = j + 4
    BY <2>1 DEF Shl
  <2> QED
    BY <2>2 DEF DevId, Octet
<1> QED
  BY <1>1

\* An identifier of a message: a top byte, a number and a device.
MessageId(top, number, d) == top \cup number \cup Shl(d, 4) \cup {2}

\* Identifiers of commands and replies have this shape.
LEMMA IdShapes ==
  ASSUME NEW d \in DevId
  PROVE  /\ \A id \in CommandIds(d) : \E n \in SUBSET (12 .. 15) : id = MessageId(Tx, n, d)
         /\ \A id \in ReplyIds(d) : \E n \in SUBSET (12 .. 15) : id = MessageId(Rx, n, d)
<1>1. ASSUME NEW type \in DOMAIN CommandNo
      PROVE  /\ Shl(Bits(CommandNo[type]), 12) \in SUBSET (12 .. 15)
             /\ CommandId(type, d) = MessageId(Tx, Shl(Bits(CommandNo[type]), 12), d)
  <2>1. CommandNo[type] \in Nat
    BY DEF CommandNo
  <2> QED
    BY <2>1, FieldBits DEF CommandId, DevMask, MessageId, IDE
<1>2. ASSUME NEW type \in DOMAIN ReplyNo
      PROVE  /\ Shl(Bits(ReplyNo[type]), 12) \in SUBSET (12 .. 15)
             /\ ReplyId(type, d) = MessageId(Rx, Shl(Bits(ReplyNo[type]), 12), d)
  <2>1. ReplyNo[type] \in Nat
    BY DEF ReplyNo
  <2> QED
    BY <2>1, FieldBits DEF ReplyId, DevMask, MessageId, IDE
<1> QED
  BY <1>1, <1>2 DEF CommandIds, ReplyIds

\* The bits of the registers are bits of the identifier (avr/can.c:155-165).
LEMMA RegisterBits ==
  ASSUME NEW id \in Word
  PROVE  /\ PutEID(id) \in Regs
         /\ \A b \in 0 .. 7 : b \in PutEID(id).sidh <=> b + 6 \in id
         /\ \A b \in 0 .. 7 : b \in PutEID(id).sidl
                                <=> \/ b = 3
                                    \/ b \in 0 .. 1 /\ b + 30 \in id
                                    \/ b \in 5 .. 7 /\ b - 2 \in id
         /\ \A b \in 0 .. 7 : b \in PutEID(id).eid8 <=> b + 14 \in id
         /\ \A b \in 0 .. 7 : b \in PutEID(id).eid0 <=> b + 22 \in id
<1>1. ASSUME NEW k \in 0 .. 31
      PROVE  /\ Shr(id \cap (k .. k + 7), k) \subseteq 0 .. 7
             /\ \A b \in 0 .. 7 : b \in Shr(id \cap (k .. k + 7), k) <=> b + k \in id
  <2>1. Shr(id \cap (k .. k + 7), k) \subseteq 0 .. 7
    BY DEF Shr, Word
  <2>2. ASSUME NEW b \in 0 .. 7
        PROVE  b \in Shr(id \cap (k .. k + 7), k) <=> b + k \in id
    <3>1. b + k \in id => b \in Shr(id \cap (k .. k + 7), k)
      <4> SUFFICES ASSUME b + k \in id
                   PROVE  b \in Shr(id \cap (k .. k + 7), k)
        OBVIOUS
      <4>1. b + k \in id \cap (k .. k + 7) /\ b = (b + k) - k
        OBVIOUS
      <4> QED
        BY <4>1 DEF Shr
    <3>2. b \in Shr(id \cap (k .. k + 7), k) => b + k \in id
      <4> SUFFICES ASSUME b \in Shr(id \cap (k .. k + 7), k)
                   PROVE  b + k \in id
        OBVIOUS
      <4>1. PICK c \in id \cap (k .. k + 7) : b = c - k
        BY DEF Shr
      <4>2. c = b + k
        BY <4>1
      <4> QED
        BY <4>2
    <3> QED
      BY <3>1, <3>2
  <2> QED
    BY <2>1, <2>2
<1>2. /\ 6 .. 13 = 6 .. 6 + 7 /\ 14 .. 21 = 14 .. 14 + 7 /\ 22 .. 29 = 22 .. 22 + 7
      /\ 6 \in 0 .. 31 /\ 14 \in 0 .. 31 /\ 22 \in 0 .. 31
  OBVIOUS
<1>3. /\ PutEID(id).sidh \subseteq 0 .. 7
      /\ \A b \in 0 .. 7 : b \in PutEID(id).sidh <=> b + 6 \in id
  BY <1>1, <1>2 DEF PutEID
<1>4. /\ PutEID(id).eid8 \subseteq 0 .. 7
      /\ \A b \in 0 .. 7 : b \in PutEID(id).eid8 <=> b + 14 \in id
  BY <1>1, <1>2 DEF PutEID
<1>5. /\ PutEID(id).eid0 \subseteq 0 .. 7
      /\ \A b \in 0 .. 7 : b \in PutEID(id).eid0 <=> b + 22 \in id
  BY <1>1, <1>2 DEF PutEID
<1> DEFINE high == Shr(id \cap {30, 31}, 30)
           low == Shl(id \cap (3 .. 5), 2)
<1>6. PutEID(id).sidl = {3} \cup high \cup low
  BY DEF PutEID, EXIDE
<1>7. \A b \in 0 .. 7 : b \in high <=> b \in 0 .. 1 /\ b + 30 \in id
  <2> SUFFICES ASSUME NEW b \in 0 .. 7
               PROVE  b \in high <=> b \in 0 .. 1 /\ b + 30 \in id
    OBVIOUS
  <2>1. b \in high <=> \E c \in id \cap {30, 31} : b = c - 30
    BY DEF Shr
  <2> QED
    BY <2>1
<1>8. \A b \in 0 .. 7 : b \in low <=> b \in 5 .. 7 /\ b - 2 \in id
  <2> SUFFICES ASSUME NEW b \in 0 .. 7
               PROVE  b \in low <=> b \in 5 .. 7 /\ b - 2 \in id
    OBVIOUS
  <2>1. b \in low <=> \E c \in id \cap (3 .. 5) : b = c + 2
    BY DEF Shl
  <2>2. \A c \in 3 .. 5 : b = c + 2 <=> c = b - 2
    OBVIOUS
  <2>3. b \in low <=> \E c \in 3 .. 5 : c \in id /\ c = b - 2
    BY <2>1, <2>2
  <2>4. b - 2 \in 3 .. 5 <=> b \in 5 .. 7
    OBVIOUS
  <2> QED
    BY <2>3, <2>4
<1>9. high \subseteq 0 .. 7 /\ low \subseteq 0 .. 7
  BY DEF Shr, Shl
<1> HIDE DEF high, low
<1>10. /\ PutEID(id).sidl \subseteq 0 .. 7
       /\ \A b \in 0 .. 7 : b \in PutEID(id).sidl
                              <=> \/ b = 3
                                  \/ b \in 0 .. 1 /\ b + 30 \in id
                                  \/ b \in 5 .. 7 /\ b - 2 \in id
  BY <1>6, <1>7, <1>8, <1>9
<1>11. PutEID(id) \in Regs
  <2>1. PutEID(id) = [sidh |-> PutEID(id).sidh, sidl |-> PutEID(id).sidl,
                      eid8 |-> PutEID(id).eid8, eid0 |-> PutEID(id).eid0]
    BY DEF PutEID
  <2> QED
    BY <1>3, <1>4, <1>5, <1>10, <2>1 DEF Regs
<1> QED
  BY <1>3, <1>4, <1>5, <1>10, <1>11

-----------------------------------------------------------------------------
(* Filter 0 *)

\* What filter 0 lets through (avr/can.c:190-197).
PassesFilter0(d, regs) ==
  RegsMatch(regs, PutEID(DevMask(FilterId, d)), PutEID(FilterMask))

\* Buffer 0 gets what passes one of its two filters, and both share the mask.
LEMMA FiltersOfRXB0 ==
  ASSUME NEW d \in Devices, NEW regs
  PROVE  Accepts(d, regs) <=> PassesFilter0(d, regs) \/ PassesFilter1(d, regs)
BY DEF Accepts, RXF0, RXM0, PassesFilter0, PassesFilter1

\* The bits of an identifier that filter 0 compares, in the registers.
Compared == [sidh |-> 0 .. 5, sidl |-> {0, 1, 3, 5, 6, 7}, eid8 |-> {}, eid0 |-> 2 .. 7]

\* What mcpSetFilter0 writes into the mask registers (avr/can.c:190-197).
LEMMA MaskRegisters == PutEID(FilterMask) = Compared
<1> DEFINE regs == PutEID(FilterMask)
<1>1. FilterMask \in Word
  BY DEF FilterMask, Word
<1>2. /\ regs \in Regs
      /\ \A b \in 0 .. 7 : b \in regs.sidh <=> b + 6 \in FilterMask
      /\ \A b \in 0 .. 7 : b \in regs.sidl <=> \/ b = 3
                                               \/ b \in 0 .. 1 /\ b + 30 \in FilterMask
                                               \/ b \in 5 .. 7 /\ b - 2 \in FilterMask
      /\ \A b \in 0 .. 7 : b \in regs.eid8 <=> b + 14 \in FilterMask
      /\ \A b \in 0 .. 7 : b \in regs.eid0 <=> b + 22 \in FilterMask
  BY <1>1, RegisterBits
<1>3. regs = [sidh |-> regs.sidh, sidl |-> regs.sidl, eid8 |-> regs.eid8,
              eid0 |-> regs.eid0]
  BY DEF PutEID
<1> HIDE DEF regs
<1>4. /\ \A b \in 0 .. 7 : b \in regs.sidh <=> b \in 0 .. 5
      /\ \A b \in 0 .. 7 : b \in regs.sidl <=> b \in {0, 1, 3, 5, 6, 7}
      /\ \A b \in 0 .. 7 : b \notin regs.eid8
      /\ \A b \in 0 .. 7 : b \in regs.eid0 <=> b \in 2 .. 7
  BY <1>2 DEF FilterMask
<1>5. /\ regs.sidh \subseteq 0 .. 7 /\ regs.sidl \subseteq 0 .. 7
      /\ regs.eid8 \subseteq 0 .. 7 /\ regs.eid0 \subseteq 0 .. 7
  BY <1>2 DEF Regs
<1>6. /\ regs.sidh = 0 .. 5
      /\ regs.sidl = {0, 1, 3, 5, 6, 7}
      /\ regs.eid8 = {}
      /\ regs.eid0 = 2 .. 7
  BY <1>4, <1>5
<1> QED
  BY <1>3, <1>6 DEF Compared, regs

\* A message's identifier passes filter 0 of device d if and only if it is a
\* master's, for d.
LEMMA FilterExact ==
  ASSUME NEW d \in DevId, NEW e \in DevId,
         NEW top \in {Tx, Rx}, NEW number \in SUBSET (12 .. 15)
  PROVE  /\ MessageId(top, number, e) \in Word
         /\ PassesFilter0(d, PutEID(MessageId(top, number, e))) <=> top = Tx /\ e = d
<1> DEFINE id == MessageId(top, number, e)
           own == DevMask(FilterId, d)
<1>1. Shl(d, 4) \subseteq 4 .. 11 /\ Shl(e, 4) \subseteq 4 .. 11
  BY FieldBits
<1>2. own = MessageId(Tx, {}, d)
  BY DEF DevMask, FilterId, MessageId, IDE
<1>3. id \in Word /\ own \in Word
  <2>1. /\ 4 .. 11 \subseteq 0 .. 31 /\ 12 .. 15 \subseteq 0 .. 31
        /\ Tx \subseteq 0 .. 31 /\ Rx \subseteq 0 .. 31 /\ {2} \subseteq 0 .. 31
    BY DEF Tx, Rx
  <2> QED
    BY <1>1, <1>2, <2>1 DEF MessageId, Word
<1>4. \A b \in 4 .. 11 : /\ b \in id <=> b \in Shl(e, 4)
                         /\ b \in own <=> b \in Shl(d, 4)
  BY <1>2 DEF MessageId, Tx, Rx
<1>5. \A b \in 24 .. 31 : (b \in id <=> b \in top) /\ (b \in own <=> b \in Tx)
  BY <1>1, <1>2 DEF MessageId
<1>6. 3 \notin id /\ 3 \notin own
  BY <1>1, <1>2 DEF MessageId, Tx, Rx
<1> DEFINE r == PutEID(id)
           f == PutEID(own)
<1>7. PassesFilter0(d, r) <=> /\ r.sidh \cap (0 .. 5) = f.sidh \cap (0 .. 5)
                        /\ r.sidl \cap {0, 1, 3, 5, 6, 7} = f.sidl \cap {0, 1, 3, 5, 6, 7}
                        /\ r.eid0 \cap (2 .. 7) = f.eid0 \cap (2 .. 7)
  <2>1. ({0, 1, 3, 5, 6, 7} \ {4}) \cup {3} = {0, 1, 3, 5, 6, 7}
    OBVIOUS
  <2> QED
    BY <2>1, MaskRegisters DEF PassesFilter0, RegsMatch, Matches, Compared, EXIDE
<1>8. /\ \A b \in 0 .. 7 : b \in r.sidh <=> b + 6 \in id
      /\ \A b \in 0 .. 7 : b \in r.sidl <=> \/ b = 3
                                            \/ b \in 0 .. 1 /\ b + 30 \in id
                                            \/ b \in 5 .. 7 /\ b - 2 \in id
      /\ \A b \in 0 .. 7 : b \in r.eid0 <=> b + 22 \in id
  BY <1>3, RegisterBits
<1>9. /\ \A b \in 0 .. 7 : b \in f.sidh <=> b + 6 \in own
      /\ \A b \in 0 .. 7 : b \in f.sidl <=> \/ b = 3
                                            \/ b \in 0 .. 1 /\ b + 30 \in own
                                            \/ b \in 5 .. 7 /\ b - 2 \in own
      /\ \A b \in 0 .. 7 : b \in f.eid0 <=> b + 22 \in own
  BY <1>3, RegisterBits
<1> HIDE DEF r, f, id, own
<1>10. ASSUME top = Tx, e = d
       PROVE  PassesFilter0(d, r)
  <2>1. \A b \in (4 .. 11) \cup (24 .. 31) : b \in id <=> b \in own
    BY <1>4, <1>5, <1>10
  <2>2. \A b \in 0 .. 5 : b \in r.sidh <=> b \in f.sidh
    BY <1>8, <1>9, <2>1
  <2>3. \A b \in {0, 1, 3, 5, 6, 7} : b \in r.sidl <=> b \in f.sidl
    <3>1. \A b \in {0, 1} : b \in r.sidl <=> b \in f.sidl
      BY <1>8, <1>9, <2>1
    <3>2. \A b \in {3, 5} : b \in r.sidl <=> b \in f.sidl
      BY <1>6, <1>8, <1>9
    <3>3. \A b \in {6, 7} : b \in r.sidl <=> b \in f.sidl
      BY <1>8, <1>9, <2>1
    <3> QED
      BY <3>1, <3>2, <3>3
  <2>4. \A b \in 2 .. 7 : b \in r.eid0 <=> b \in f.eid0
    BY <1>8, <1>9, <2>1
  <2> QED
    BY <1>7, <2>2, <2>3, <2>4
<1>11. ASSUME PassesFilter0(d, r)
       PROVE  top = Tx /\ e = d
  <2>1. \A b \in 0 .. 5 : b \in r.sidh <=> b \in f.sidh
    BY <1>7, <1>11
  <2>2. \A b \in {6, 7} : b \in r.sidl <=> b \in f.sidl
    BY <1>7, <1>11
  <2>3. 2 \in r.eid0 <=> 2 \in f.eid0
    BY <1>7, <1>11
  <2>4. \A b \in 6 .. 11 : b \in id <=> b \in own
    <3> TAKE b \in 6 .. 11
    <3>1. b - 6 \in 0 .. 5 /\ b - 6 \in 0 .. 7 /\ (b - 6) + 6 = b
      OBVIOUS
    <3> QED
      BY <1>8, <1>9, <2>1, <3>1
  <2>5. \A b \in {4, 5} : b \in id <=> b \in own
    <3> TAKE b \in {4, 5}
    <3>1. b + 2 \in {6, 7} /\ b + 2 \in 5 .. 7 /\ b + 2 \in 0 .. 7 /\ (b + 2) - 2 = b
      OBVIOUS
    <3> QED
      BY <1>8, <1>9, <2>2, <3>1
  <2>6. \A b \in 4 .. 11 : b \in Shl(e, 4) <=> b \in Shl(d, 4)
    BY <1>4, <2>4, <2>5
  <2>7. e = d
    BY <1>1, <2>6, DevicesApart
  <2>8. 24 \in id <=> 24 \in own
    BY <1>8, <1>9, <2>3
  <2>9. 24 \notin top
    BY <1>5, <2>8 DEF Tx
  <2> QED
    BY <2>7, <2>9 DEF Rx
<1> QED
  BY <1>3, <1>10, <1>11 DEF r, id

\* What passes filter 0 of a device are its commands, and these all do.
LEMMA FilterRegisters ==
  ASSUME NEW d \in Devices, NEW e \in Devices
  PROVE  /\ \A regs \in CommandRegs[e] : /\ regs \in Regs
                                        /\ PassesFilter0(d, regs) <=> e = d
         /\ \A regs \in ReplyRegs[e] : regs \in Regs /\ ~PassesFilter0(d, regs)
<1> d \in DevId /\ e \in DevId
  BY CanAssumption
<1>1. ASSUME NEW id \in CommandIds(e)
      PROVE  PutEID(id) \in Regs /\ (PassesFilter0(d, PutEID(id)) <=> e = d)
  <2>1. PICK number \in SUBSET (12 .. 15) : id = MessageId(Tx, number, e)
    BY IdShapes
  <2> QED
    BY <2>1, FilterExact, RegisterBits
<1>2. ASSUME NEW id \in ReplyIds(e)
      PROVE  PutEID(id) \in Regs /\ ~PassesFilter0(d, PutEID(id))
  <2>1. PICK number \in SUBSET (12 .. 15) : id = MessageId(Rx, number, e)
    BY IdShapes
  <2>2. Rx # Tx
    BY DEF Rx, Tx
  <2> QED
    BY <2>1, <2>2, FilterExact, RegisterBits
<1> QED
  BY <1>1, <1>2 DEF CommandRegs, ReplyRegs

-----------------------------------------------------------------------------
(* What the buffers and mailboxes hold *)

\* Four registers are read as an identifier of 32 bits (avr/can.c:167-179).
LEMMA ReadIdentifier == ASSUME NEW regs \in Regs PROVE GetEID(regs) \in Word
<1>1. /\ regs.sidh \subseteq 0 .. 7 /\ regs.sidl \subseteq 0 .. 7
      /\ regs.eid8 \subseteq 0 .. 7 /\ regs.eid0 \subseteq 0 .. 7
  BY DEF Regs
<1>2. Shl(regs.sidh, 3) \subseteq 0 .. 31
  BY <1>1 DEF Shl
<1>3. Shr(regs.sidl \cap (5 .. 7), 5) \subseteq 0 .. 31
  BY DEF Shr
<1>4. Shl(regs.eid8, 14) \subseteq 0 .. 31
  BY <1>1 DEF Shl
<1>5. Shl(regs.eid0, 22) \subseteq 0 .. 31
  BY <1>1 DEF Shl
<1> QED
  BY <1>2, <1>3, <1>4, <1>5 DEF GetEID, Word

\* cnCANSend sends all that its buffer takes, and no more: its payloads are
\* no longer than a frame (avr/can.c:259, 300-304).
LEMMA PayloadFits ==
  ASSUME NEW data \in Payloads
  PROVE  /\ Payload(data) \in Seq(Nat \cup {Stale})
         /\ Len(Payload(data)) = MaxLen
<1>1. data \in Seq(Nat) /\ Len(data) \in Nat /\ Len(data) <= MaxLen /\ MaxLen \in Nat
  BY CanAssumption
<1>2. SentLen(Len(data)) = MaxLen
  BY <1>1 DEF SentLen
<1>3. Payload(data) \in [1 .. MaxLen -> Nat \cup {Stale}]
  <2> SUFFICES ASSUME NEW i \in 1 .. MaxLen, i <= Len(data)
               PROVE  data[i] \in Nat
    BY <1>2 DEF Payload
  <2> QED
    BY <1>1
<1> QED
  BY <1>1, <1>3

\* A frame that is on the bus: the master's command for a device of the bus,
\* or the reply of one.
OnBus(f) ==
  /\ f \in Frame
  /\ \E e \in Devices : f.regs \in CommandRegs[e] \cup ReplyRegs[e]

\* Of the frames on the bus, RXB0 of a device gets its commands and what passes
\* filter 1.
LEMMA BusFilter ==
  ASSUME NEW f, OnBus(f), NEW d \in Devices
  PROVE  Accepts(d, f.regs) <=> f.regs \in CommandRegs[d] \/ PassesFilter1(d, f.regs)
<1>1. PICK e \in Devices : f.regs \in CommandRegs[e] \cup ReplyRegs[e]
  BY DEF OnBus
<1>2. PassesFilter0(d, f.regs) <=> f.regs \in CommandRegs[d]
  BY <1>1, FilterRegisters
<1> QED
  BY <1>2, FiltersOfRXB0

\* What the master puts on the bus.
LEMMA CommandOnBus ==
  ASSUME NEW type \in Commands, NEW e \in Devices, NEW data \in Payloads
  PROVE  OnBus([regs |-> PutEID(CommandId(type, e)), data |-> data])
<1>1. PutEID(CommandId(type, e)) \in CommandRegs[e]
  BY CanAssumption DEF CommandRegs, CommandIds
<1>2. PutEID(CommandId(type, e)) \in Regs
  BY <1>1, CanAssumption, FilterRegisters
<1>3. data \in Seq(Nat \cup {Stale})
  <2>1. data \in Seq(Nat)
    BY CanAssumption
  <2> QED
    BY <2>1, SeqMonotonic
<1> QED
  BY <1>1, <1>2, <1>3 DEF OnBus, Frame

\* What a device puts into a mailbox.
LEMMA ReplyInMailbox ==
  ASSUME NEW type \in Replies, NEW d \in Devices, NEW data \in Payloads
  PROVE  LET f == [regs |-> PutEID(ReplyId(type, d)), data |-> Payload(data)]
         IN  f \in Frame /\ f.regs \in ReplyRegs[d] /\ Len(f.data) <= MaxLen
<1>1. PutEID(ReplyId(type, d)) \in ReplyRegs[d]
  BY CanAssumption DEF ReplyRegs, ReplyIds
<1>2. PutEID(ReplyId(type, d)) \in Regs
  BY <1>1, CanAssumption, FilterRegisters
<1> QED
  BY <1>1, <1>2, PayloadFits, CanAssumption DEF Frame

-----------------------------------------------------------------------------
(* The invariant *)

\* What device d may be handed.
Mine(d, regs) == regs \in CommandRegs[d] \/ PassesFilter1(d, regs)

\* RXB0 holds nothing else, and is not empty while it waits to be read.
FirstInv ==
  \A d \in Devices : /\ rxb0[d] # Free => Mine(d, rxb0[d].regs)
                     /\ chosen[d] = "RXB0" => rxb0[d] # Free

CanInv == TypeOK /\ OnlyForMe /\ NotInSecond /\ FirstInv

\* Initially.
LEMMA CanInvInit == Init => CanInv
BY DEF Init, CanInv, TypeOK, OnlyForMe, NotInSecond, FirstInv, Mailboxes

\* A frame on the bus changes nothing but the receive buffers; it gets into
\* the first of a device if that may have it, and into the second only if not.
LEMMA BroadcastKeeps ==
  ASSUME CanInv, NEW f, OnBus(f), NEW listeners \in SUBSET Devices,
         Broadcast(f, listeners), UNCHANGED <<chosen, got>>
  PROVE  /\ rxb0' \in [Devices -> Frame \cup {Free}]
         /\ rxb1' \in [Devices -> Frame \cup {Free}]
         /\ OnlyForMe'
         /\ NotInSecond'
         /\ FirstInv'
<1> DEFINE first == {d \in listeners : Accepts(d, f.regs)}
           second == {d \in listeners \ first : f.regs \in Second[d]}
<1>1. /\ rxb0' = [d \in Devices |-> IF d \in first THEN Kept(rxb0[d], f) ELSE rxb0[d]]
      /\ rxb1' = [d \in Devices |-> IF d \in second THEN Kept(rxb1[d], f) ELSE rxb1[d]]
  BY DEF Broadcast
<1>2. \A d \in first : Mine(d, f.regs)
  BY BusFilter DEF Mine
<1>3. \A d \in second : f.regs \notin CommandRegs[d]
  BY BusFilter
<1>4. f \in Frame
  BY DEF OnBus
<1> HIDE DEF first, second
<1>5. \A d \in Devices : /\ rxb0[d] \in Frame \cup {Free}
                         /\ rxb1[d] \in Frame \cup {Free}
                         /\ rxb0[d] # Free => Mine(d, rxb0[d].regs)
                         /\ rxb1[d] # Free => rxb1[d].regs \notin CommandRegs[d]
                         /\ chosen[d] = "RXB0" => rxb0[d] # Free
  BY DEF CanInv, TypeOK, FirstInv, NotInSecond
<1>6. rxb0' \in [Devices -> Frame \cup {Free}]
  BY <1>1, <1>4, <1>5 DEF Kept
<1>7. rxb1' \in [Devices -> Frame \cup {Free}]
  BY <1>1, <1>4, <1>5 DEF Kept
<1>8. OnlyForMe'
  BY DEF CanInv, OnlyForMe, PassesFilter1
<1>9. NotInSecond'
  BY <1>1, <1>3, <1>5 DEF NotInSecond, Kept
<1>10. FirstInv'
  <2>1. \A d \in Devices : rxb0'[d] # Free => Mine(d, rxb0'[d].regs)
    BY <1>1, <1>2, <1>5 DEF Kept
  <2>2. \A d \in Devices : chosen'[d] = "RXB0" => rxb0'[d] # Free
    BY <1>1, <1>5 DEF Kept
  <2> QED
    BY <2>1, <2>2 DEF FirstInv, Mine, PassesFilter1
<1> QED
  BY <1>6, <1>7, <1>8, <1>9, <1>10

\* The end of cnCANRecv keeps the invariant, if what it returns is a command,
\* passed filter 1, or is no frame at all.
LEMMA DeliverKeeps ==
  ASSUME CanInv, NEW d \in Devices, NEW r \in Message, Deliver(d, r),
         r.sent # Free => Mine(d, r.sent)
  PROVE  CanInv'
<1> USE DEF CanInv
<1>1. /\ got' \in [Devices -> Message \cup {Free}]
      /\ rxb0' \in [Devices -> Frame \cup {Free}]
      /\ chosen' \in [Devices -> {"none", "RXB0", "RXB1"}]
      /\ rxb1' = rxb1 /\ txb' = txb
  BY DEF Deliver, TypeOK
<1>2. \A e \in Devices : /\ got'[e] = IF e = d THEN r ELSE got[e]
                         /\ rxb0'[e] = IF e = d THEN Free ELSE rxb0[e]
                         /\ chosen'[e] = IF e = d THEN "none" ELSE chosen[e]
  BY DEF Deliver, TypeOK
<1>3. TypeOK'
  BY <1>1 DEF TypeOK
<1>4. OnlyForMe'
  BY <1>2 DEF OnlyForMe, Mine, PassesFilter1
<1>5. NotInSecond'
  BY <1>1 DEF NotInSecond
<1>6. FirstInv'
  BY <1>2 DEF FirstInv, Mine, PassesFilter1
<1> QED
  BY <1>3, <1>4, <1>5, <1>6

\* Every step keeps it.
LEMMA CanInvNext == CanInv /\ [Next]_canVars => CanInv'
<1> SUFFICES ASSUME CanInv, [Next]_canVars PROVE CanInv'
  OBVIOUS
<1> USE DEF CanInv
<1>1. CASE UNCHANGED canVars
  BY <1>1 DEF canVars, TypeOK, OnlyForMe, NotInSecond, FirstInv, Mine, PassesFilter1
<1>2. ASSUME NEW type \in Commands, NEW e \in Devices, NEW data \in Payloads,
             MasterSends(type, e, data)
      PROVE  CanInv'
  <2>1. OnBus([regs |-> PutEID(CommandId(type, e)), data |-> data])
    BY CommandOnBus
  <2>2. /\ rxb0' \in [Devices -> Frame \cup {Free}]
        /\ rxb1' \in [Devices -> Frame \cup {Free}]
        /\ OnlyForMe'
        /\ NotInSecond'
        /\ FirstInv'
    BY <1>2, <2>1, BroadcastKeeps DEF MasterSends
  <2> QED
    BY <1>2, <2>2 DEF MasterSends, TypeOK
<1>3. ASSUME NEW d \in Devices, NEW type \in Replies, NEW data \in Payloads,
             CanSend(d, type, data)
      PROVE  CanInv'
  <2>1. CASE UNCHANGED txb
    BY <1>3, <2>1
       DEF CanSend, TypeOK, OnlyForMe, NotInSecond, FirstInv, Mine, PassesFilter1
  <2> DEFINE f == [regs |-> PutEID(ReplyId(type, d)), data |-> Payload(data)]
  <2>2. f \in Frame /\ f.regs \in ReplyRegs[d] /\ Len(f.data) <= MaxLen
    BY ReplyInMailbox
  <2>3. ASSUME NEW m \in Mailboxes, txb' = [txb EXCEPT ![d][m] = f]
        PROVE  CanInv'
    <3> HIDE DEF f
    <3>1. UNCHANGED <<rxb0, rxb1, chosen, got>>
      BY <1>3 DEF CanSend
    <3>2. \A e \in Devices, n \in Mailboxes :
            txb'[e][n] = IF e = d /\ n = m THEN f ELSE txb[e][n]
      BY <2>3 DEF TypeOK
    <3>3. txb' \in [Devices -> [Mailboxes -> Frame \cup {Free}]]
      BY <2>2, <2>3 DEF TypeOK
    <3>4. \A e \in Devices, n \in Mailboxes :
            txb'[e][n] # Free =>
              txb'[e][n].regs \in ReplyRegs[e] /\ Len(txb'[e][n].data) <= MaxLen
      BY <2>2, <3>2 DEF TypeOK
    <3> QED
      BY <3>1, <3>3, <3>4
         DEF TypeOK, OnlyForMe, NotInSecond, FirstInv, Mine, PassesFilter1
  <2> QED
    BY <1>3, <2>1, <2>3 DEF CanSend, IsFirst, FreeMailboxes
<1>4. ASSUME NEW d \in Devices, NEW m \in Mailboxes, Transmit(d, m)
      PROVE  CanInv'
  <2>1. txb[d][m] \in Frame /\ txb[d][m].regs \in ReplyRegs[d]
    BY <1>4 DEF TypeOK, Transmit
  <2>2. OnBus(txb[d][m])
    BY <2>1 DEF OnBus
  <2>3. /\ Broadcast(txb[d][m], Devices \ {d})
        /\ Devices \ {d} \in SUBSET Devices
        /\ UNCHANGED <<chosen, got>>
    BY <1>4 DEF Transmit
  <2>4. /\ rxb0' \in [Devices -> Frame \cup {Free}]
        /\ rxb1' \in [Devices -> Frame \cup {Free}]
        /\ OnlyForMe'
        /\ NotInSecond'
        /\ FirstInv'
    BY <2>2, <2>3, BroadcastKeeps
  <2>5. /\ txb' \in [Devices -> [Mailboxes -> Frame \cup {Free}]]
        /\ \A e \in Devices, n \in Mailboxes : txb'[e][n] # Free => txb'[e][n] = txb[e][n]
    BY <1>4 DEF Transmit, TypeOK
  <2> QED
    BY <2>3, <2>4, <2>5 DEF TypeOK
<1>5. ASSUME NEW d \in Devices, CanChoose(d)
      PROVE  CanInv'
  <2>1. /\ got' \in [Devices -> Message \cup {Free}]
        /\ chosen' \in [Devices -> {"none", "RXB0", "RXB1"}]
        /\ UNCHANGED <<rxb0, rxb1, txb>>
    BY <1>5 DEF CanChoose, TypeOK
  <2>2. \A e \in Devices : /\ got'[e] # Free => got'[e] = got[e]
                           /\ chosen'[e] = "RXB0" => chosen[e] = "RXB0" \/ rxb0[e] # Free
    BY <1>5 DEF CanChoose, TypeOK
  <2>3. TypeOK'
    BY <2>1 DEF TypeOK
  <2>4. OnlyForMe'
    BY <2>2 DEF OnlyForMe, PassesFilter1
  <2>5. NotInSecond' /\ FirstInv'
    BY <2>1, <2>2 DEF NotInSecond, FirstInv, Mine, PassesFilter1
  <2> QED
    BY <2>3, <2>4, <2>5
<1>6. ASSUME NEW d \in Devices, CanReadFirst(d)
      PROVE  CanInv'
  <2>1. rxb0[d] # Free /\ rxb0[d] \in Frame /\ Mine(d, rxb0[d].regs)
    BY <1>6 DEF CanReadFirst, FirstInv, TypeOK
  <2>2. Received(rxb0[d]) \in Message /\ Received(rxb0[d]).sent = rxb0[d].regs
    BY <2>1, ReadIdentifier DEF Received, Frame, Message
  <2> QED
    BY <1>6, <2>1, <2>2, DeliverKeeps DEF CanReadFirst
<1>7. ASSUME NEW d \in Devices, CanReadSecond(d)
      PROVE  CanInv'
  <2>1. PICK id \in Misread, len \in 0 .. MaxLen :
          Deliver(d, [id |-> id, sent |-> Free, data |-> [i \in 1 .. len |-> Stale]])
    BY <1>7 DEF CanReadSecond
  <2> DEFINE r == [id |-> id, sent |-> Free, data |-> [i \in 1 .. len |-> Stale]]
  <2>2. id \in Word /\ len \in Nat
    BY CanAssumption
  <2>3. [i \in 1 .. len |-> Stale] \in Seq(Nat \cup {Stale})
    BY <2>2
  <2>4. r \in Message /\ r.sent = Free
    BY <2>2, <2>3 DEF Message
  <2> QED
    BY <2>1, <2>4, DeliverKeeps
<1> QED
  BY <1>1, <1>2, <1>3, <1>4, <1>5, <1>6, <1>7 DEF Next

\* The filters, the receive buffers and the mailboxes of every device.
LEMMA CanInvariance == Spec => []CanInv
BY CanInvInit, CanInvNext, PTL DEF Spec

-----------------------------------------------------------------------------
(* The theorems *)

\* Type correctness; a mailbox holds a reply of its device that fits the
\* buffer cnCANSend put it together in (avr/can.c:288-304).
THEOREM TypeCorrect == Spec => []TypeOK
<1>1. CanInv => TypeOK
  BY DEF CanInv
<1> QED
  BY <1>1, CanInvariance, PTL

\* Whatever the filters that are never written hold: of the frames on the bus,
\* the pump is handed no other device's command and no reply, but for what the
\* neighbour of filter 0 lets through (avr/can.c:155-165, 190-197, 331-358).
THEOREM PumpHearsOnlyMine == Spec => []OnlyForMe
<1>1. CanInv => OnlyForMe
  BY DEF CanInv
<1> QED
  BY <1>1, CanInvariance, PTL

\* The filters nobody has written never get a command for the device, whatever
\* they let through (avr/can.c:190-197, 223-224).
THEOREM CommandsPassFilter == Spec => []NotInSecond
<1>1. CanInv => NotInSecond
  BY DEF CanInv
<1> QED
  BY <1>1, CanInvariance, PTL

\* No step overwrites a reply that waits in a mailbox (avr/can.c:269-286).
THEOREM RepliesAreKept == Spec => RepliesKept
<1>1. CanInv /\ [Next]_canVars =>
        [\A d \in Devices, m \in Mailboxes :
           txb[d][m] # Free => txb'[d][m] \in {txb[d][m], Free}]_canVars
  <2> SUFFICES ASSUME TypeOK, Next, NEW d \in Devices, NEW m \in Mailboxes,
                      txb[d][m] # Free
               PROVE  txb'[d][m] \in {txb[d][m], Free}
    BY DEF CanInv
  <2>1. ASSUME NEW type \in Commands, NEW e \in Devices, NEW data \in Payloads,
               MasterSends(type, e, data)
        PROVE  UNCHANGED txb
    BY <2>1 DEF MasterSends
  <2>2. ASSUME NEW e \in Devices, NEW type \in Replies, NEW data \in Payloads,
               CanSend(e, type, data)
        PROVE  txb'[d][m] = txb[d][m]
    <3>1. CASE UNCHANGED txb
      BY <3>1
    <3>2. ASSUME NEW n \in Mailboxes, NEW f, n \in FreeMailboxes(e),
                 txb' = [txb EXCEPT ![e][n] = f]
          PROVE  txb'[d][m] = txb[d][m]
      BY <3>2 DEF TypeOK, FreeMailboxes
    <3> QED
      BY <2>2, <3>1, <3>2 DEF CanSend, IsFirst
  <2>3. ASSUME NEW e \in Devices, NEW n \in Mailboxes, Transmit(e, n)
        PROVE  txb'[d][m] \in {txb[d][m], Free}
    BY <2>3 DEF TypeOK, Transmit
  <2>4. ASSUME NEW e \in Devices, CanChoose(e) \/ CanReadFirst(e) \/ CanReadSecond(e)
        PROVE  UNCHANGED txb
    BY <2>4 DEF CanChoose, CanReadFirst, CanReadSecond, Deliver
  <2> QED
    BY <2>1, <2>2, <2>3, <2>4 DEF Next
<1> QED
  BY <1>1, CanInvariance, PTL DEF Spec, RepliesKept

-----------------------------------------------------------------------------
(* What becomes of the commands *)

\* Of the bits above 12, those from 14 come back from the registers, and the
\* two below do not.
LEMMA ReadBack ==
  ASSUME NEW id \in Word
  PROVE  GetEID(PutEID(id)) \cap (12 .. 31) = id \cap (14 .. 31)
<1> DEFINE r == PutEID(id)
<1>1. /\ r.sidh \subseteq 0 .. 7 /\ r.sidl \subseteq 0 .. 7
      /\ r.eid8 \subseteq 0 .. 7 /\ r.eid0 \subseteq 0 .. 7
      /\ 0 \in r.sidl <=> 30 \in id
      /\ 1 \in r.sidl <=> 31 \in id
      /\ \A b \in 0 .. 7 : b \in r.eid8 <=> b + 14 \in id
      /\ \A b \in 0 .. 7 : b \in r.eid0 <=> b + 22 \in id
  <2>1. r \in Regs
    BY RegisterBits
  <2>2. /\ 0 \in r.sidl <=> 0 + 30 \in id
        /\ 1 \in r.sidl <=> 1 + 30 \in id
    <3>1. /\ 0 \in 0 .. 7 /\ 0 \in 0 .. 1 /\ 0 \notin 5 .. 7 /\ 0 # 3
          /\ 1 \in 0 .. 7 /\ 1 \in 0 .. 1 /\ 1 \notin 5 .. 7 /\ 1 # 3
      OBVIOUS
    <3>2. \A b \in 0 .. 7 : b \in r.sidl <=> \/ b = 3
                                             \/ b \in 0 .. 1 /\ b + 30 \in id
                                             \/ b \in 5 .. 7 /\ b - 2 \in id
      BY RegisterBits
    <3> HIDE DEF r
    <3> QED
      BY <3>1, <3>2
  <2>3. /\ \A b \in 0 .. 7 : b \in r.eid8 <=> b + 14 \in id
        /\ \A b \in 0 .. 7 : b \in r.eid0 <=> b + 22 \in id
    BY RegisterBits
  <2> HIDE DEF r
  <2>4. 0 + 30 = 30 /\ 1 + 30 = 31
    OBVIOUS
  <2> QED
    BY <2>1, <2>2, <2>3, <2>4 DEF Regs
<1> HIDE DEF r
<1>2. \A s \in SUBSET (0 .. 7), k \in Nat, b \in Nat :
        b \in Shl(s, k) <=> b - k \in s
  <2> SUFFICES ASSUME NEW s \in SUBSET (0 .. 7), NEW k \in Nat, NEW b \in Nat
               PROVE  b \in Shl(s, k) <=> b - k \in s
    OBVIOUS
  <2>1. \A c \in s : b = c + k <=> c = b - k
    OBVIOUS
  <2> QED
    BY <2>1 DEF Shl
<1>3. \A b \in 12 .. 31 : b \notin Shl(r.sidh, 3)
  BY <1>1 DEF Shl
<1>4. \A b \in 12 .. 31 : b \notin Shr(r.sidl \cap (5 .. 7), 5)
  BY DEF Shr
<1>5. \A b \in 12 .. 31 : b \in Shl(r.sidl, 30) <=> b \in {30, 31} /\ b \in id
  <2> SUFFICES ASSUME NEW b \in 12 .. 31
               PROVE  b \in Shl(r.sidl, 30) <=> b \in {30, 31} /\ b \in id
    OBVIOUS
  <2>1. b \in Shl(r.sidl, 30) <=> b - 30 \in r.sidl
    BY <1>1, <1>2
  <2>2. CASE b = 30
    BY <1>1, <2>1, <2>2
  <2>3. CASE b = 31
    BY <1>1, <2>1, <2>3
  <2>4. CASE b \notin {30, 31}
    BY <1>1, <2>1, <2>4
  <2> QED
    BY <2>2, <2>3, <2>4
<1>6. \A b \in 12 .. 31 : b \in Shl(r.eid8, 14) <=> b \in 14 .. 21 /\ b \in id
  <2> SUFFICES ASSUME NEW b \in 12 .. 31
               PROVE  b \in Shl(r.eid8, 14) <=> b \in 14 .. 21 /\ b \in id
    OBVIOUS
  <2>1. b \in Shl(r.eid8, 14) <=> b - 14 \in r.eid8
    BY <1>1, <1>2
  <2>2. b - 14 \in 0 .. 7 <=> b \in 14 .. 21
    OBVIOUS
  <2>3. (b - 14) + 14 = b
    OBVIOUS
  <2> QED
    BY <1>1, <2>1, <2>2, <2>3
<1>7. \A b \in 12 .. 31 : b \in Shl(r.eid0, 22) <=> b \in 22 .. 29 /\ b \in id
  <2> SUFFICES ASSUME NEW b \in 12 .. 31
               PROVE  b \in Shl(r.eid0, 22) <=> b \in 22 .. 29 /\ b \in id
    OBVIOUS
  <2>1. b \in Shl(r.eid0, 22) <=> b - 22 \in r.eid0
    BY <1>1, <1>2
  <2>2. b - 22 \in 0 .. 7 <=> b \in 22 .. 29
    OBVIOUS
  <2>3. (b - 22) + 22 = b
    OBVIOUS
  <2> QED
    BY <1>1, <2>1, <2>2, <2>3
<1>8. \A b \in 12 .. 31 : b \in GetEID(r) <=> b \in 14 .. 31 /\ b \in id
  <2> SUFFICES ASSUME NEW b \in 12 .. 31
               PROVE  b \in GetEID(r) <=> b \in 14 .. 31 /\ b \in id
    OBVIOUS
  <2>1. b \in GetEID(r) <=> \/ b \in {30, 31} /\ b \in id
                            \/ b \in 14 .. 21 /\ b \in id
                            \/ b \in 22 .. 29 /\ b \in id
    BY <1>3, <1>4, <1>5, <1>6, <1>7 DEF GetEID
  <2>2. b \in 14 .. 31 <=> b \in {30, 31} \/ b \in 14 .. 21 \/ b \in 22 .. 29
    OBVIOUS
  <2> QED
    BY <2>1, <2>2
<1> QED
  BY <1>8 DEF r

\* Clearing the two low bits of a number makes it a multiple of four.
LEMMA MultipleOfFour ==
  ASSUME NEW k \in 0 .. 15, NEW n \in 0 .. 15
  PROVE  Bits(k) = Bits(n) \cap {2, 3} <=> k = 4 * (n \div 4)
<1>1. \A m \in Nat : /\ Bits(m) \subseteq 0 .. 3
                     /\ 0 \in Bits(m) <=> m % 2 = 1
                     /\ 1 \in Bits(m) <=> (m \div 2) % 2 = 1
                     /\ 2 \in Bits(m) <=> (m \div 4) % 2 = 1
                     /\ 3 \in Bits(m) <=> (m \div 8) % 2 = 1
  <2> SUFFICES ASSUME NEW m \in Nat
               PROVE  /\ Bits(m) \subseteq 0 .. 3
                      /\ 0 \in Bits(m) <=> m % 2 = 1
                      /\ 1 \in Bits(m) <=> (m \div 2) % 2 = 1
                      /\ 2 \in Bits(m) <=> (m \div 4) % 2 = 1
                      /\ 3 \in Bits(m) <=> (m \div 8) % 2 = 1
    OBVIOUS
  <2>1. 2^0 = 1 /\ 2^1 = 2 /\ 2^2 = 4 /\ 2^3 = 8 /\ m \div 1 = m
    OBVIOUS
  <2>2. /\ 0 \in Bits(m) <=> (m \div 2^0) % 2 = 1
        /\ 1 \in Bits(m) <=> (m \div 2^1) % 2 = 1
        /\ 2 \in Bits(m) <=> (m \div 2^2) % 2 = 1
        /\ 3 \in Bits(m) <=> (m \div 2^3) % 2 = 1
    <3>1. \A b \in 0 .. 3 : b \in Bits(m) <=> (m \div 2^b) % 2 = 1
      BY DEF Bits
    <3> QED
      BY <3>1
  <2>3. Bits(m) \subseteq 0 .. 3
    BY DEF Bits
  <2> QED
    BY <2>1, <2>2, <2>3
<1>2. Bits(k) = Bits(n) \cap {2, 3} <=> /\ 0 \notin Bits(k)
                                        /\ 1 \notin Bits(k)
                                        /\ 2 \in Bits(k) <=> 2 \in Bits(n)
                                        /\ 3 \in Bits(k) <=> 3 \in Bits(n)
  <2>1. \A b \in 0 .. 3 : b \in {0, 1, 2, 3}
    OBVIOUS
  <2>2. \A b \in Bits(k) \cup Bits(n) : b \in {0, 1, 2, 3}
    BY <1>1, <2>1
  <2> QED
    BY <2>2
<1>3. (/\ ~(k % 2 = 1)
       /\ ~((k \div 2) % 2 = 1)
       /\ (k \div 4) % 2 = 1 <=> (n \div 4) % 2 = 1
       /\ (k \div 8) % 2 = 1 <=> (n \div 8) % 2 = 1)
      <=> k = 4 * (n \div 4)
  OBVIOUS
<1> QED
  BY <1>1, <1>2, <1>3

\* How main.c dispatches what cnCANRecv reads of a command.
LEMMA DispatchOfRead ==
  ASSUME NEW type \in DOMAIN CommandNo, NEW d \in DevId
  PROVE  Dispatch(GetEID(PutEID(CommandId(type, d)))) = ReadAs(type)
<1> DEFINE n(t) == Shl(Bits(CommandNo[t]), 12)
           id == CommandId(type, d)
<1>1. \A t \in DOMAIN CommandNo : CommandNo[t] \in 0 .. 15 /\ n(t) \subseteq 12 .. 15
  <2>1. \A t \in DOMAIN CommandNo : CommandNo[t] \in 0 .. 15
    BY DEF CommandNo
  <2> QED
    BY <2>1, FieldBits
<1>2. id = Tx \cup n(type) \cup Shl(d, 4) \cup {2} /\ Shl(d, 4) \subseteq 4 .. 11
  BY FieldBits DEF CommandId, DevMask, IDE
<1>3. id \in Word
  <2>1. id \in CommandIds(d)
    BY DEF CommandIds
  <2>2. PICK number \in SUBSET (12 .. 15) : id = MessageId(Tx, number, d)
    BY <2>1, IdShapes
  <2> QED
    BY <2>2, FilterExact
<1>4. GetEID(PutEID(id)) \cap MsgIdMask = id \cap (14 .. 31)
  BY <1>3, ReadBack DEF MsgIdMask
<1> HIDE DEF n, id
<1>5. id \cap (14 .. 31) = Tx \cup (n(type) \cap {14, 15})
  <2>1. Tx \subseteq 14 .. 31
    BY DEF Tx
  <2>2. \A b \in 12 .. 15 : b \in 14 .. 31 <=> b \in {14, 15}
    OBVIOUS
  <2>3. \A b \in 4 .. 11 : b \notin 14 .. 31
    OBVIOUS
  <2>4. 2 \notin 14 .. 31
    OBVIOUS
  <2>5. \A b \in n(type) : b \in 14 .. 31 <=> b \in {14, 15}
    BY <1>1, <2>2
  <2>6. \A b \in Shl(d, 4) : b \notin 14 .. 31
    BY <1>2, <2>3
  <2> QED
    BY <1>2, <2>1, <2>4, <2>5, <2>6
<1>6. \A t \in DOMAIN CommandNo :
        Tx \cup (n(type) \cap {14, 15}) = Tx \cup n(t) <=> n(t) = n(type) \cap {14, 15}
  <2>1. \A b \in 12 .. 15 : b \notin Tx
    BY DEF Tx
  <2> QED
    BY <1>1, <2>1
<1>7. \A t \in DOMAIN CommandNo :
        n(t) = n(type) \cap {14, 15}
          <=> Bits(CommandNo[t]) = Bits(CommandNo[type]) \cap {2, 3}
  <2> SUFFICES ASSUME NEW t \in DOMAIN CommandNo
               PROVE  n(t) = n(type) \cap {14, 15}
                        <=> Bits(CommandNo[t]) = Bits(CommandNo[type]) \cap {2, 3}
    OBVIOUS
  <2>1. \A s \in DOMAIN CommandNo, b \in 0 .. 3 :
          b \in Bits(CommandNo[s]) <=> b + 12 \in n(s)
    <3> SUFFICES ASSUME NEW s \in DOMAIN CommandNo, NEW b \in 0 .. 3
                 PROVE  b \in Bits(CommandNo[s]) <=> b + 12 \in n(s)
      OBVIOUS
    <3>1. \A c \in Bits(CommandNo[s]) : c \in Int
      BY DEF Bits
    <3>2. \A c \in Bits(CommandNo[s]) : b + 12 = c + 12 <=> b = c
      BY <3>1
    <3> QED
      BY <3>2 DEF n, Shl
  <2>2. \A b \in 0 .. 3 : b \in {2, 3} <=> b + 12 \in {14, 15}
    OBVIOUS
  <2>3. \A s \in DOMAIN CommandNo : Bits(CommandNo[s]) \subseteq 0 .. 3
    BY DEF Bits
  <2>4. \A c \in 12 .. 15 : c - 12 \in 0 .. 3 /\ (c - 12) + 12 = c
    OBVIOUS
  <2>5. ASSUME Bits(CommandNo[t]) = Bits(CommandNo[type]) \cap {2, 3}
        PROVE  n(t) = n(type) \cap {14, 15}
    <3>1. \A c \in 12 .. 15 : c \in n(t) <=> c \in n(type) /\ c \in {14, 15}
      <4> TAKE c \in 12 .. 15
      <4>1. c \in n(t) <=> c - 12 \in Bits(CommandNo[t])
        BY <2>1, <2>4
      <4>2. c \in n(type) <=> c - 12 \in Bits(CommandNo[type])
        BY <2>1, <2>4
      <4>3. c - 12 \in {2, 3} <=> c \in {14, 15}
        OBVIOUS
      <4> QED
        BY <2>5, <4>1, <4>2, <4>3
    <3> QED
      BY <1>1, <3>1
  <2>6. ASSUME n(t) = n(type) \cap {14, 15}
        PROVE  Bits(CommandNo[t]) = Bits(CommandNo[type]) \cap {2, 3}
    <3>1. \A b \in 0 .. 3 : b \in Bits(CommandNo[t])
                              <=> b \in Bits(CommandNo[type]) /\ b \in {2, 3}
      BY <2>1, <2>2, <2>6
    <3> QED
      BY <2>3, <3>1
  <2> QED
    BY <2>5, <2>6
<1>8. \A t \in DOMAIN CommandNo :
        Bits(CommandNo[t]) = Bits(CommandNo[type]) \cap {2, 3}
          <=> CommandNo[t] = 4 * (CommandNo[type] \div 4)
  BY <1>1, MultipleOfFour
<1>9. Dispatch(GetEID(PutEID(id)))
        = {t \in DOMAIN CommandNo : Tx \cup (n(type) \cap {14, 15}) = Tx \cup n(t)}
  BY <1>4, <1>5 DEF Dispatch, n
<1> QED
  BY <1>6, <1>7, <1>8, <1>9 DEF ReadAs, id

\* Every command that an AVR device gets is read as the one whose number is the
\* multiple of four below its own: an UNLOCK or a PROG_REQ as none, a SEEK, a
\* WRITE or a CHECK_WRITES as SELECT_PAGE (avr/can.c:157-178).
THEOREM CommandsAreMisread == Spec => []DispatchedByFours
<1> DEFINE Read == \A d \in Devices :
             got[d] # Free /\ got[d].sent # Free => got[d].id = GetEID(got[d].sent)
<1>1. Init => Read
  BY DEF Init
<1>2. CanInv /\ Read /\ [Next]_canVars => Read'
  <2> SUFFICES ASSUME TypeOK, Read, [Next]_canVars PROVE Read'
    BY DEF CanInv
  <2>1. CASE UNCHANGED got
    BY <2>1
  <2>2. ASSUME NEW d \in Devices, CanChoose(d)
        PROVE  Read'
    <3>1. \A e \in Devices : got'[e] # Free => got'[e] = got[e]
      BY <2>2 DEF CanChoose, TypeOK
    <3> QED
      BY <3>1
  <2>3. ASSUME NEW d \in Devices, NEW r, Deliver(d, r),
               r.sent # Free => r.id = GetEID(r.sent)
        PROVE  Read'
    <3>1. \A e \in Devices : got'[e] = IF e = d THEN r ELSE got[e]
      BY <2>3 DEF Deliver, TypeOK
    <3> QED
      BY <2>3, <3>1
  <2>4. ASSUME NEW d \in Devices, CanReadFirst(d)
        PROVE  Read'
    <3>1. Received(rxb0[d]).id = GetEID(Received(rxb0[d]).sent)
      BY DEF Received
    <3> QED
      BY <2>3, <2>4, <3>1 DEF CanReadFirst
  <2>5. ASSUME NEW d \in Devices, CanReadSecond(d)
        PROVE  Read'
    <3>1. PICK id \in Misread, len \in 0 .. MaxLen :
            Deliver(d, [id |-> id, sent |-> Free, data |-> [i \in 1 .. len |-> Stale]])
      BY <2>5 DEF CanReadSecond
    <3> QED
      BY <2>3, <3>1
  <2> QED
    BY <2>1, <2>2, <2>4, <2>5 DEF Next, canVars, MasterSends, CanSend, Transmit
<1>3. Read => DispatchedByFours
  <2> SUFFICES ASSUME Read, NEW d \in Devices, got[d] # Free,
                      NEW type \in DOMAIN CommandNo,
                      got[d].sent = PutEID(CommandId(type, d))
               PROVE  Dispatch(got[d].id) = ReadAs(type)
    BY DEF DispatchedByFours
  <2>1. PutEID(CommandId(type, d)) \in Regs
    BY FilterRegisters DEF CommandRegs, CommandIds
  <2>2. got[d].sent # Free
    BY <2>1, CanAssumption
  <2> QED
    BY <2>2, DispatchOfRead, CanAssumption
<1> QED
  BY <1>1, <1>2, <1>3, CanInvariance, PTL DEF Spec
=============================================================================
