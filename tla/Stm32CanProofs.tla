--------------------------- MODULE Stm32CanProofs ---------------------------
(***************************************************************************)
(* For every set of devices, commands, replies and other traffic: an STM32 *)
(* device hands its pump only what the master sent to it.                  *)
(***************************************************************************)
EXTENDS Stm32Can, TLAPS

\* The numbers of the commands and replies fit in the four bits above 12.
LEMMA Numbers == ASSUME NEW n \in Nat
                 PROVE  Shl(Bits(n), 12) \subseteq 12 .. 15
  BY DEF Shl, Bits

\* The bits of a device id take the places 4 to 11.
LEMMA DeviceBits == ASSUME NEW d \in DevId
                    PROVE  Shl(d, 4) \subseteq 4 .. 11
  BY DEF Shl, DevId, Octet

\* Different device ids have different identifier bits.
LEMMA ShlInjective == ASSUME NEW d \in DevId, NEW e \in DevId, Shl(d, 4) = Shl(e, 4)
                      PROVE  d = e
<1>1. d \subseteq e
  <2> SUFFICES ASSUME NEW b \in d PROVE b \in e
    OBVIOUS
  <2>1. b + 4 \in Shl(e, 4)
    BY DEF Shl
  <2>2. PICK c \in e : b + 4 = c + 4
    BY <2>1 DEF Shl
  <2> QED BY <2>2 DEF DevId, Octet
<1>2. e \subseteq d
  <2> SUFFICES ASSUME NEW b \in e PROVE b \in d
    OBVIOUS
  <2>1. b + 4 \in Shl(d, 4)
    BY DEF Shl
  <2>2. PICK c \in d : b + 4 = c + 4
    BY <2>1 DEF Shl
  <2> QED BY <2>2 DEF DevId, Octet
<1> QED BY <1>1, <1>2

\* The filter of device d lets an identifier pass whose top byte is `top' and
\* whose device bits are e's only if it is a master's, for d.
LEMMA FilterExact ==
  ASSUME NEW d \in DevId, NEW e \in DevId,
         NEW top \in {Tx, Rx}, NEW number \in SUBSET (12 .. 15),
         Accepts(d, DevMask(top \cup number, e))
  PROVE  d = e /\ top = Tx
<1> DEFINE id == top \cup number \cup Shl(e, 4) \cup {2}
           own == Tx \cup {2} \cup Shl(d, 4) \cup {2}
<1>1. id \cap FilterMask = own \cap FilterMask
  BY DEF Accepts, Matches, DevMask, FilterId, IDE
<1>2. Shl(d, 4) \subseteq 4 .. 11 /\ Shl(e, 4) \subseteq 4 .. 11
  BY DeviceBits
<1>3. 4 .. 11 \subseteq FilterMask /\ 24 \in FilterMask
  BY DEF FilterMask
<1>4. \A b \in 4 .. 11 : b \notin Tx /\ b \notin Rx /\ b # 2 /\ b \notin 12 .. 15
  BY DEF Tx, Rx
<1>5. \A b \in 4 .. 11 : b \in id <=> b \in own
  BY <1>1, <1>3
<1>6. \A b \in 4 .. 11 : b \in Shl(e, 4) <=> b \in Shl(d, 4)
  BY <1>4, <1>5
<1>7. d = e
  BY <1>2, <1>6, ShlInjective
<1>8. 24 \notin own
  BY <1>2 DEF Tx
<1>9. 24 \notin top
  BY <1>1, <1>3, <1>8
<1> QED BY <1>7, <1>9 DEF Rx

\* A command identifier is a top byte, a number and a device.
LEMMA CommandShape ==
  ASSUME NEW e \in DevId, NEW id \in CommandIds(e)
  PROVE  \E number \in SUBSET (12 .. 15) : id = DevMask(Tx \cup number, e)
<1>1. PICK type \in DOMAIN CommandNo :
        id = DevMask(Tx \cup Shl(Bits(CommandNo[type]), 12), e)
  BY DEF CommandIds, CommandId
<1>2. CommandNo[type] \in Nat
  BY DEF CommandNo
<1> QED BY <1>1, <1>2, Numbers

\* A reply identifier is a top byte, a number and a device.
LEMMA ReplyShape ==
  ASSUME NEW e \in DevId, NEW id \in ReplyIds(e)
  PROVE  \E number \in SUBSET (12 .. 15) : id = DevMask(Rx \cup number, e)
<1>1. PICK type \in DOMAIN ReplyNo :
        id = DevMask(Rx \cup Shl(Bits(ReplyNo[type]), 12), e)
  BY DEF ReplyIds, ReplyId
<1>2. ReplyNo[type] \in Nat
  BY DEF ReplyNo
<1> QED BY <1>1, <1>2, Numbers

\* What passes the filter of d is proper for d.
LEMMA AcceptedIsProper ==
  ASSUME NEW d \in Devices, NEW id, Accepts(d, id)
  PROVE  Proper(id, d)
<1> USE CanAssumption
<1>1. \A e \in Devices : id \notin ReplyIds(e)
  <2> SUFFICES ASSUME NEW e \in Devices, id \in ReplyIds(e) PROVE FALSE
    OBVIOUS
  <2>1. PICK number \in SUBSET (12 .. 15) : id = DevMask(Rx \cup number, e)
    BY ReplyShape
  <2>2. Accepts(d, DevMask(Rx \cup number, e))
    BY <2>1
  <2>3. d \in DevId /\ e \in DevId /\ Rx \in {Tx, Rx}
    OBVIOUS
  <2>4. Rx = Tx
    BY <2>2, <2>3, FilterExact
  <2>5. 24 \in Rx /\ 24 \notin Tx
    BY DEF Rx, Tx
  <2> QED BY <2>4, <2>5
<1>2. \A e \in Devices \ {d} : id \notin CommandIds(e)
  <2> SUFFICES ASSUME NEW e \in Devices, id \in CommandIds(e) PROVE d = e
    OBVIOUS
  <2>1. PICK number \in SUBSET (12 .. 15) : id = DevMask(Tx \cup number, e)
    BY CommandShape
  <2>2. Accepts(d, DevMask(Tx \cup number, e))
    BY <2>1
  <2>3. d \in DevId /\ e \in DevId /\ Tx \in {Tx, Rx}
    OBVIOUS
  <2> QED BY <2>2, <2>3, FilterExact
<1> QED BY <1>1, <1>2 DEF Proper

-----------------------------------------------------------------------------
(* The frames that are on the bus, and what becomes of them *)

\* Command identifiers fit in a word.
LEMMA CommandIsWord ==
  ASSUME NEW type \in DOMAIN CommandNo, NEW d \in DevId
  PROVE  CommandId(type, d) \in Word
<1>1. CommandNo[type] \in Nat
  BY DEF CommandNo
<1>2. Shl(Bits(CommandNo[type]), 12) \subseteq 12 .. 15 /\ Shl(d, 4) \subseteq 4 .. 11
  BY <1>1, Numbers, DeviceBits
<1> QED BY <1>2 DEF CommandId, DevMask, Tx, IDE, Word

\* Reply identifiers fit in a word, and have no TXRQ bit to clear.
LEMMA ReplyIsWord ==
  ASSUME NEW type \in DOMAIN ReplyNo, NEW d \in DevId
  PROVE  /\ ReplyId(type, d) \in Word
         /\ ReplyId(type, d) \ {0} = ReplyId(type, d)
         /\ ReplyId(type, d) \in ReplyIds(d)
<1>1. ReplyNo[type] \in Nat
  BY DEF ReplyNo
<1>2. Shl(Bits(ReplyNo[type]), 12) \subseteq 12 .. 15 /\ Shl(d, 4) \subseteq 4 .. 11
  BY <1>1, Numbers, DeviceBits
<1>3. ReplyId(type, d) \in SUBSET (1 .. 31)
  BY <1>2 DEF ReplyId, DevMask, Tx, Rx, IDE
<1> QED BY <1>3 DEF Word, ReplyIds

\* What a FIFO may hold: frames that pass the filter, at most FifoDepth.
FifoOK(q, d) ==
  /\ q \in Seq(Frame)
  /\ Len(q) <= FifoDepth
  /\ \A i \in DOMAIN q : Accepts(d, q[i].id)

\* Replacing an element of a sequence.
LEMMA Replaced ==
  ASSUME NEW S, NEW q \in Seq(S), NEW i \in 1 .. Len(q), NEW f \in S
  PROVE  /\ [q EXCEPT ![i] = f] \in Seq(S)
         /\ Len([q EXCEPT ![i] = f]) = Len(q)
         /\ \A j \in 1 .. Len(q) : [q EXCEPT ![i] = f][j] = IF j = i THEN f ELSE q[j]
  OBVIOUS

\* Overwriting the newest frame of a full FIFO keeps it proper.
LEMMA QueuedOK ==
  ASSUME NEW d, NEW q, FifoOK(q, d), NEW f \in Frame, Accepts(d, f.id)
  PROVE  FifoOK(Queued(q, f), d)
<1>1. CASE Len(q) < FifoDepth
  BY <1>1 DEF FifoOK, Queued, FifoDepth
<1>2. CASE ~(Len(q) < FifoDepth)
  <2>1. q \in Seq(Frame) /\ Len(q) <= 3 /\ ~(Len(q) < 3)
    BY <1>2 DEF FifoOK, FifoDepth
  <2>2. Len(q) \in Nat /\ DOMAIN q = 1 .. Len(q)
    BY <2>1
  <2>3. Len(q) = 3
    BY <2>1, <2>2
  <2> DEFINE new == [q EXCEPT ![3] = f]
  <2>4. Queued(q, f) = new
    BY <1>2 DEF Queued, FifoDepth
  <2>5. 3 \in 1 .. Len(q)
    BY <2>3
  <2>6. /\ new \in Seq(Frame)
        /\ Len(new) = Len(q)
        /\ \A i \in 1 .. Len(q) : new[i] = IF i = 3 THEN f ELSE q[i]
    BY <2>1, <2>5, Replaced
  <2>7. \A i \in 1 .. 3 : Accepts(d, new[i].id)
    BY <2>2, <2>3, <2>6 DEF FifoOK
  <2> HIDE DEF new
  <2>8. DOMAIN new = 1 .. 3
    BY <2>3, <2>6
  <2> QED BY <2>3, <2>4, <2>6, <2>7, <2>8 DEF FifoOK, FifoDepth
<1> QED BY <1>1, <1>2

FifosOK(fs) == /\ fs \in [Devices -> Seq(Frame)]
               /\ \A d \in Devices : FifoOK(fs[d], d)

\* A frame on the bus keeps every FIFO proper.
LEMMA BroadcastOK ==
  ASSUME FifosOK(fifo), NEW f \in Frame, NEW listeners, Broadcast(f, listeners)
  PROVE  FifosOK(fifo')
<1>1. \A d \in Devices : FifoOK(fifo'[d], d)
  <2> TAKE d \in Devices
  <2>1. CASE d \in listeners /\ Accepts(d, f.id)
    BY <2>1, QueuedOK DEF Broadcast, FifosOK
  <2>2. CASE ~(d \in listeners /\ Accepts(d, f.id))
    BY <2>2 DEF Broadcast, FifosOK
  <2> QED BY <2>1, <2>2
<1> QED BY <1>1 DEF Broadcast, FifosOK, FifoOK

\* The other two conjuncts of the invariant.
OutboxOK ==
  /\ outbox \in [Devices -> [Mailboxes -> Frame \cup {Free}]]
  /\ \A d \in Devices, m \in Mailboxes :
       outbox[d][m] # Free => outbox[d][m].id \in ReplyIds(d)
GotOK ==
  /\ got \in [Devices -> Message \cup {Free}]
  /\ \A d \in Devices : got[d] # Free =>
       /\ Accepts(d, got[d].sent)
       /\ got[d].id \ {TXRQ} = got[d].sent \ {TXRQ}

\* The invariant is one statement for each variable.
LEMMA InvariantParts == CanInv <=> FifosOK(fifo) /\ OutboxOK /\ GotOK
  BY DEF CanInv, Types, FifosOK, FifoOK, OutboxOK, GotOK

\* The invariant holds of the initial states and every step preserves it.
THEOREM CanInvariance == Spec => []CanInv
<1> USE CanAssumption
<1>1. Init => CanInv
  BY DEF Init, CanInv, Types, FifoDepth
<1>2. CanInv /\ [Next]_canVars => CanInv'
  <2> SUFFICES ASSUME FifosOK(fifo), OutboxOK, GotOK, [Next]_canVars
               PROVE  FifosOK(fifo') /\ OutboxOK' /\ GotOK'
    BY InvariantParts DEF CanInv, Types, FifosOK, FifoOK, OutboxOK, GotOK
  <2>1. CASE \E type \in Commands, d \in Devices, data \in Payloads :
               MasterSends(type, d, data)
    <3> PICK type \in Commands, d \in Devices, data \in Payloads :
               MasterSends(type, d, data)
      BY <2>1
    <3>1. [id |-> CommandId(type, d), data |-> data] \in Frame
      BY CommandIsWord DEF Frame
    <3>2. FifosOK(fifo')
      BY <3>1, BroadcastOK DEF MasterSends
    <3> QED BY <3>2 DEF MasterSends, OutboxOK, GotOK
  <2>2. CASE \E id \in Others, data \in Payloads : OtherSends(id, data)
    <3> PICK id \in Others, data \in Payloads : OtherSends(id, data)
      BY <2>2
    <3>1. [id |-> id, data |-> data] \in Frame
      BY DEF Frame
    <3>2. FifosOK(fifo')
      BY <3>1, BroadcastOK DEF OtherSends
    <3> QED BY <3>2 DEF OtherSends, OutboxOK, GotOK
  <2>3. CASE \E d \in Devices, type \in Replies, data \in Payloads :
               CanSend(d, type, data)
    <3> PICK d \in Devices, type \in Replies, data \in Payloads :
               CanSend(d, type, data)
      BY <2>3
    <3>1. FifosOK(fifo') /\ GotOK'
      BY DEF CanSend, FifosOK, FifoOK, GotOK
    <3>2. CASE UNCHANGED outbox
      BY <3>1, <3>2 DEF OutboxOK
    <3>3. CASE \E m \in FreeMailboxes(d) :
                 outbox' = [outbox EXCEPT ![d][m] =
                              [id |-> OutboxId(ReplyId(type, d)), data |-> data]]
      <4> DEFINE f == [id |-> OutboxId(ReplyId(type, d)), data |-> data]
      <4>1. PICK m \in Mailboxes : outbox' = [outbox EXCEPT ![d][m] = f]
        BY <3>3 DEF FreeMailboxes
      <4>2. type \in DOMAIN ReplyNo /\ d \in DevId
        OBVIOUS
      <4>3. f \in Frame /\ f.id \in ReplyIds(d)
        BY <4>2, ReplyIsWord DEF Frame, OutboxId, TXRQ
      <4> HIDE DEF f
      <4>4. OutboxOK'
        BY <4>1, <4>3 DEF OutboxOK
      <4> QED BY <3>1, <4>4
    <3> QED BY <3>2, <3>3 DEF CanSend
  <2>4. CASE \E d \in Devices, m \in Mailboxes : Transmit(d, m)
    <3> PICK d \in Devices, m \in Mailboxes : Transmit(d, m)
      BY <2>4
    <3>1. outbox[d][m] \in Frame
      BY DEF Transmit, OutboxOK
    <3>2. FifosOK(fifo')
      BY <3>1, BroadcastOK DEF Transmit
    <3>3. OutboxOK'
      BY DEF Transmit, OutboxOK
    <3> QED BY <3>2, <3>3 DEF Transmit, GotOK
  <2>5. CASE \E d \in Devices : CanRecv(d)
    <3> PICK d \in Devices : CanRecv(d)
      BY <2>5
    <3>1. fifo[d] \in Seq(Frame) /\ fifo[d] # <<>> /\ Len(fifo[d]) <= FifoDepth
          /\ \A i \in DOMAIN fifo[d] : Accepts(d, fifo[d][i].id)
      BY DEF CanRecv, FifosOK, FifoOK
    <3>2. Head(fifo[d]) \in Frame /\ Accepts(d, Head(fifo[d]).id)
      BY <3>1
    <3>3. FifoOK(Tail(fifo[d]), d)
      BY <3>1 DEF FifoOK, FifoDepth
    <3>4. FifosOK(fifo')
      BY <3>3 DEF CanRecv, FifosOK, FifoOK
    <3>5. PICK low \in SUBSET {TXRQ} :
            got' = [got EXCEPT ![d] = Received(Head(fifo[d]), low)]
      BY DEF CanRecv
    <3> DEFINE r == Received(Head(fifo[d]), low)
    <3>6. /\ r \in Message
          /\ Accepts(d, r.sent)
          /\ r.id \ {TXRQ} = r.sent \ {TXRQ}
      <4> DEFINE f == Head(fifo[d])
                 id == (f.id \ {TXRQ}) \cup low
      <4>1. f.id \in Word /\ f.data \in Payloads /\ Accepts(d, f.id)
        BY <3>2 DEF Frame
      <4>2. id \in Word /\ id \ {TXRQ} = f.id \ {TXRQ}
        <5> HIDE DEF f
        <5>1. f.id \subseteq 0 .. 31 /\ low \subseteq {TXRQ} /\ TXRQ \in 0 .. 31
          BY <4>1 DEF Word, TXRQ
        <5>2. id \subseteq 0 .. 31 /\ id \ {TXRQ} = f.id \ {TXRQ}
          BY <5>1
        <5> QED
          BY <5>2 DEF Word
      <4>3. r = [id |-> id, sent |-> f.id, data |-> f.data]
        BY DEF Received
      <4> HIDE DEF f, id, r
      <4> QED
        BY <4>1, <4>2, <4>3 DEF Message
    <3> HIDE DEF r
    <3>7. got' = [got EXCEPT ![d] = r]
      BY <3>5 DEF r
    <3>8. GotOK'
      BY <3>6, <3>7 DEF GotOK
    <3> QED BY <3>4, <3>8 DEF CanRecv, OutboxOK
  <2>6. CASE UNCHANGED canVars
    BY <2>6 DEF canVars, FifosOK, FifoOK, OutboxOK, GotOK
  <2> QED BY <2>1, <2>2, <2>3, <2>4, <2>5, <2>6 DEF Next
<1> QED BY <1>1, <1>2, PTL DEF Spec

\* A device only reads what the master sent to it.
THEOREM DevicesAreApart == Spec => []OnlyForMe
<1>1. CanInv => OnlyForMe
  BY AcceptedIsProper DEF CanInv, OnlyForMe
<1> QED BY <1>1, CanInvariance, PTL

-----------------------------------------------------------------------------
(* Dispatch *)

\* Of an identifier the filter compares the device and the top byte, and the
\* `case' labels the type and the top byte: together all but the bits that
\* are no part of it.
LEMMA DispatchExact ==
  ASSUME NEW type \in DOMAIN CommandNo, NEW d \in DevId,
         NEW sent \in Word, Accepts(d, sent),
         NEW id, id \ {TXRQ} = sent \ {TXRQ}
  PROVE  type \in Dispatch(id) <=> sent \ {RTR, TXRQ} = CommandId(type, d)
<1> DEFINE number == Shl(Bits(CommandNo[type]), 12)
           own    == Tx \cup {2} \cup Shl(d, 4) \cup {2}
<1>1. CommandNo[type] \in Nat
  BY DEF CommandNo
<1>2. number \subseteq 12 .. 15 /\ Shl(d, 4) \subseteq 4 .. 11
  BY <1>1, Numbers, DeviceBits
<1>3. CommandId(type, d) = Tx \cup number \cup Shl(d, 4) \cup {2}
  BY DEF CommandId, DevMask, IDE
<1>4. sent \cap FilterMask = own \cap FilterMask
  BY DEF Accepts, Matches, DevMask, FilterId, IDE
<1>5. type \in Dispatch(id) <=> id \cap (12 .. 31) = Tx \cup number
  BY DEF Dispatch, MsgIdMask
<1> HIDE DEF number
<1>6. \A b \in 12 .. 31 : b \in id <=> b \in sent
  BY DEF TXRQ
<1>7. \A b \in 2 .. 11 : b \in FilterMask /\ b \notin Tx /\ b \notin 12 .. 15
  BY DEF FilterMask, Tx
<1>8. \A b \in 2 .. 11 : b \in sent <=> b \in CommandId(type, d)
  BY <1>2, <1>3, <1>4, <1>7
<1>9. \A b \in 12 .. 31 : b \in CommandId(type, d) <=> b \in Tx \cup number
  BY <1>2, <1>3
<1>10. Tx \cup number \subseteq 12 .. 31 /\ CommandId(type, d) \subseteq 2 .. 31
  <2>1. Tx \subseteq 12 .. 31 /\ Tx \subseteq 2 .. 31
    BY DEF Tx
  <2>2. /\ 12 .. 15 \subseteq 12 .. 31 /\ 12 .. 15 \subseteq 2 .. 31
        /\ 4 .. 11 \subseteq 2 .. 31 /\ {2} \subseteq 2 .. 31
    OBVIOUS
  <2> HIDE DEF number
  <2> QED
    BY <1>2, <1>3, <2>1, <2>2
<1>11. id \cap (12 .. 31) = Tx \cup number
         <=> \A b \in 12 .. 31 : b \in sent <=> b \in Tx \cup number
  BY <1>6, <1>10
<1>12. sent \ {RTR, TXRQ} = CommandId(type, d)
         <=> \A b \in 2 .. 31 : b \in sent <=> b \in CommandId(type, d)
  <2>1. sent \ {RTR, TXRQ} \subseteq 2 .. 31
    BY DEF Word, RTR, TXRQ
  <2>2. \A b \in 2 .. 31 : b \in sent \ {RTR, TXRQ} <=> b \in sent
    BY DEF RTR, TXRQ
  <2> QED
    BY <1>10, <2>1, <2>2
<1>13. \A b \in 2 .. 31 : b \in 2 .. 11 \/ b \in 12 .. 31
  OBVIOUS
<1>14. \A b \in 12 .. 31 : b \in 2 .. 31
  OBVIOUS
<1> QED
  BY <1>5, <1>8, <1>9, <1>11, <1>12, <1>13, <1>14

\* A device carries out a command exactly if that command was sent to it: the
\* filter and the `case' labels leave nothing between them (main.c:78-184).
THEOREM CommandsAreDispatched == Spec => []DispatchedAsSent
<1>1. CanInv => DispatchedAsSent
  <2> SUFFICES ASSUME CanInv, NEW d \in Devices, got[d] # Free,
                      NEW type \in DOMAIN CommandNo
               PROVE  type \in Dispatch(got[d].id)
                        <=> got[d].sent \ {RTR, TXRQ} = CommandId(type, d)
    BY DEF DispatchedAsSent
  <2>1. got[d].sent \in Word /\ d \in DevId
    BY CanAssumption DEF CanInv, Types, Message
  <2> QED
    BY <2>1, DispatchExact DEF CanInv
<1> QED
  BY <1>1, CanInvariance, PTL

\* No reply is overwritten while it waits to be sent.
THEOREM RepliesAreKept == Spec => RepliesKept
<1>1. CanInv /\ [Next]_canVars =>
        [\A d \in Devices, m \in Mailboxes :
           outbox[d][m] # Free => outbox'[d][m] \in {outbox[d][m], Free}]_canVars
  <2> SUFFICES ASSUME OutboxOK, Next, NEW d \in Devices, NEW m \in Mailboxes,
                      outbox[d][m] # Free
               PROVE  outbox'[d][m] \in {outbox[d][m], Free}
    BY InvariantParts
  <2>1. CASE UNCHANGED outbox
    BY <2>1
  <2>2. CASE \E e \in Devices, n \in Mailboxes :
               \E f : /\ n \in FreeMailboxes(e)
                     /\ outbox' = [outbox EXCEPT ![e][n] = f]
    BY <2>2 DEF OutboxOK, FreeMailboxes
  <2>3. CASE \E e \in Devices, n \in Mailboxes : Transmit(e, n)
    BY <2>3 DEF OutboxOK, Transmit
  <2> QED BY <2>1, <2>2, <2>3
       DEF Next, MasterSends, OtherSends, CanSend, CanRecv, FreeMailboxes
<1> QED BY <1>1, CanInvariance, PTL DEF Spec, RepliesKept
=============================================================================
