-------------------------------- MODULE CanId --------------------------------
(***************************************************************************)
(* The 32-bit identifier words of can_msgs.h, the acceptance filter they   *)
(* are made for, and the register format avr/can.c translates them to.     *)
(*                                                                         *)
(* Words and byte registers are sets of bit numbers, as in Util.           *)
(***************************************************************************)
EXTENDS Util

DevId == Octet

Bits(n) == {b \in 0 .. 3 : (n \div 2^b) % 2 = 1}

-----------------------------------------------------------------------------
(* can_msgs.h *)

Tx == {25, 27, 30, 31}               \* 0xCA......, master to device
Rx == Tx \cup {24}                   \* 0xCB......, device to master
IDE == 2
RTR == 1
TXRQ == 0

FilterId   == Tx \cup {IDE}
NoDevice   == 24 .. 31               \* mutant: the device's bits are left out
FilterMask == (24 .. 31) \cup (2 .. 11)

DevMask(mask, d) == mask \cup Shl(d, 4) \cup {IDE}

CommandNo == [PROG_REQ |-> 1, PROG_DONE |-> 2, UNLOCK |-> 3,
              SELECT_PAGE |-> 4, SEEK |-> 5, WRITE |-> 6,
              CHECK_WRITES |-> 7, COMMIT_WRITES |-> 8]
ReplyNo   == [PROG_REQ_RESP |-> 1, PROG_DONE_ACK |-> 2, UNLOCKED |-> 3,
              PAGE_SELECTED |-> 4, WRITES_CHECKED |-> 7,
              WRITES_COMMITTED |-> 8]

CommandId(type, d) == DevMask(Tx \cup Shl(Bits(CommandNo[type]), 12), d)
ReplyId(type, d)   == DevMask(Rx \cup Shl(Bits(ReplyNo[type]), 12), d)

CommandIds(d) == {CommandId(type, d) : type \in DOMAIN CommandNo}
ReplyIds(d)   == {ReplyId(type, d) : type \in DOMAIN ReplyNo}

\* The `case' labels of main.c that a received identifier selects.
ShortMask == 16 .. 31                \* mutant: the type's bits are masked out
MsgIdMask == 12 .. 31
Dispatch(id) == {type \in DOMAIN CommandNo :
                   id \cap MsgIdMask = Tx \cup Shl(Bits(CommandNo[type]), 12)}

\* The test of an acceptance filter in mask mode.
Matches(id, filter, mask) == id \cap mask = filter \cap mask

-----------------------------------------------------------------------------
(* The register format of avr/can.c: xSIDH, xSIDL, xEID8 and xEID0 *)

EXIDE == 3

PutEID(id) ==
  [sidh |-> Shr(id \cap (6 .. 13), 6),
   sidl |-> {EXIDE} \cup Shr(id \cap {30, 31}, 30) \cup Shl(id \cap (3 .. 5), 2),
   eid8 |-> Shr(id \cap (14 .. 21), 14),
   eid0 |-> Shr(id \cap (22 .. 29), 22)]

GetEID(regs) ==
  Shl(regs.sidh, 3) \cup (Shl(regs.sidl, 30) \cap (0 .. 31))
  \cup Shr(regs.sidl \cap (5 .. 7), 5)
  \cup Shl(regs.eid8, 14) \cup Shl(regs.eid0, 22)

\* What the controller compares: the identifier bits and IDE of a frame.
RegsMatch(regs, filter, mask) ==
  /\ Matches(regs.sidh, filter.sidh, mask.sidh)
  /\ Matches(regs.sidl, filter.sidl, (mask.sidl \ {4}) \cup {EXIDE})
  /\ Matches(regs.eid8, filter.eid8, mask.eid8)
  /\ Matches(regs.eid0, filter.eid0, mask.eid0)
=============================================================================
