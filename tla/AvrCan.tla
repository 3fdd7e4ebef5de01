------------------------------- MODULE AvrCan -------------------------------
(***************************************************************************)
(* avr/can.c: a bus with a master and several AVR devices, each with an    *)
(* MCP25625 controller whose filter 0 was set by cnCANInit.                *)
(*                                                                         *)
(* The controller is modelled from the way can.c uses it: a frame that     *)
(* passes filter 0 or filter 1, under the one mask they share, goes to     *)
(* RXB0, and is lost if RXB0 is full (no rollover, avr/can.c:223-224); any *)
(* other frame that passes the filters of RXB1 goes there.  Only filter 0  *)
(* and its mask are ever written: what the others hold is unknown, but     *)
(* never changes.  READ_RXBUF clears the flag of the buffer it addresses   *)
(* when the transfer ends; the command that is sent for RXB1 addresses the *)
(* data of RXB0 (CanReadSecond).                                           *)
(* A frame is on the bus as its identifier registers; whoever else is on   *)
(* the bus is taken to use the same register format.  Nothing that is sent *)
(* here is a remote request: the RTR bit of DLC is left out.               *)
(***************************************************************************)
EXTENDS CanId, Sequences

CONSTANTS
  Devices,    \* the device ids on the bus
  RXF1,       \* what filter 1 of each device holds
  Second,     \* the identifiers the filters of its RXB1 let through
  Misread,    \* the identifiers that bytes of data are taken for
  Commands,   \* the types of the commands the master sends
  Replies,    \* the types of the replies the devices send
  Payloads,   \* payloads of commands and replies
  Stale,      \* the contents of memory and registers nobody has written
  MaxLen,     \* the most bytes a frame can carry (8)
  Free        \* an empty mailbox or buffer; also: nothing has been received

Regs  == [sidh : SUBSET (0 .. 7), sidl : SUBSET (0 .. 7),
          eid8 : SUBSET (0 .. 7), eid0 : SUBSET (0 .. 7)]
Frame == [regs : Regs, data : Seq(Nat \cup {Stale})]
\* What cnCANRecv returns; `sent', a history variable, is what the frame was
\* sent under, or Free if there was no such frame.
Message == [id : Word, sent : Regs \cup {Free}, data : Seq(Nat \cup {Stale})]

ASSUME CanAssumption ==
  /\ Devices \subseteq DevId
  /\ RXF1 \in [Devices -> Regs]
  /\ Second \in [Devices -> SUBSET Regs]
  /\ Misread \subseteq Word
  /\ Free \notin Regs
  /\ Commands \subseteq DOMAIN CommandNo
  /\ Replies \subseteq DOMAIN ReplyNo
  /\ MaxLen \in Nat
  /\ Payloads \subseteq Seq(Nat)
  /\ \A p \in Payloads : Len(p) <= MaxLen

VARIABLES
  rxb0,    \* receive buffer 0 of each device
  rxb1,    \* receive buffer 1 of each device
  txb,     \* the transmit mailboxes of each device
  chosen,  \* rxMailboxId while cnCANRecv runs, else "none"
  got      \* the message cnCANRecv returned, until it is called again

canVars == <<rxb0, rxb1, txb, chosen, got>>

Mailboxes == 0 .. 2

Init ==
  /\ rxb0 = [d \in Devices |-> Free]
  /\ rxb1 = [d \in Devices |-> Free]
  /\ txb = [d \in Devices |-> [m \in Mailboxes |-> Free]]
  /\ chosen = [d \in Devices |-> "none"]
  /\ got = [d \in Devices |-> Free]

-----------------------------------------------------------------------------
(* mcpSetFilter0, and the reception of a frame *)

RXF0 == [d \in Devices |-> PutEID(DevMask(FilterId, d))]

FilterTwice == RXF0                                     \* mutant: id for mask
WholeWord   == [d \in Devices |-> PutEID(0 .. 31)]      \* mutant: no mask
RXM0        == [d \in Devices |-> PutEID(FilterMask)]

Accepts(d, regs) ==
  \E filter \in {RXF0[d], RXF1[d]} : RegsMatch(regs, filter, RXM0[d])

Kept(buffer, f) == IF buffer = Free THEN f ELSE buffer

\* Frame f is on the bus; every node but its sender sees it.
Broadcast(f, listeners) ==
  LET first == {d \in listeners : Accepts(d, f.regs)}
      second == {d \in listeners \ first : f.regs \in Second[d]}
  IN  /\ rxb0' = [d \in Devices |-> IF d \in first THEN Kept(rxb0[d], f) ELSE rxb0[d]]
      /\ rxb1' = [d \in Devices |-> IF d \in second THEN Kept(rxb1[d], f) ELSE rxb1[d]]

MasterSends(type, d, data) ==
  /\ Broadcast([regs |-> PutEID(CommandId(type, d)), data |-> data], Devices)
  /\ UNCHANGED <<txb, chosen, got>>

-----------------------------------------------------------------------------
(* cnCANSend *)

OneTooMany(len) == MaxLen + 1        \* mutant: off by one
\* The length cnCANSend goes on with: the larger of len and 8.
SentLen(len) == IF len > MaxLen THEN len ELSE MaxLen

\* The bytes copied into the frame, past the end of data if len is short.
Payload(data) ==
  [i \in 1 .. SentLen(Len(data)) |-> IF i <= Len(data) THEN data[i] ELSE Stale]

\* The lowest mailbox whose TXREQ is clear.
AnyMailbox(d) == {0}                 \* mutant: the status is not tested
FreeMailboxes(d) == {m \in Mailboxes : txb[d][m] = Free}
IsFirst(m, ms) == m \in ms /\ \A n \in ms : m <= n

CanSend(d, type, data) ==
  /\ chosen[d] = "none"
  /\ \/ \E m \in Mailboxes :
          /\ IsFirst(m, FreeMailboxes(d))
          /\ txb' = [txb EXCEPT ![d][m] =
                       [regs |-> PutEID(ReplyId(type, d)), data |-> Payload(data)]]
     \/ FreeMailboxes(d) = {} /\ UNCHANGED txb
  /\ UNCHANGED <<rxb0, rxb1, chosen, got>>

Transmit(d, m) ==
  /\ txb[d][m] # Free
  /\ txb' = [txb EXCEPT ![d][m] = Free]
  /\ Broadcast(txb[d][m], Devices \ {d})
  /\ UNCHANGED <<chosen, got>>

-----------------------------------------------------------------------------
(* cnCANRecv: RX_STATUS, where buffer 0 has precedence, and READ_RXBUF *)

CanChoose(d) ==
  /\ chosen[d] = "none"
  /\ \/ rxb0[d] # Free /\ chosen' = [chosen EXCEPT ![d] = "RXB0"]
     \/ rxb0[d] = Free /\ rxb1[d] # Free /\ chosen' = [chosen EXCEPT ![d] = "RXB1"]
  /\ got' = [got EXCEPT ![d] = Free]
  /\ UNCHANGED <<rxb0, rxb1, txb>>

\* The transfer has ended: the program has r, and RXB0 is free.
Deliver(d, r) ==
  /\ got' = [got EXCEPT ![d] = r]
  /\ rxb0' = [rxb0 EXCEPT ![d] = Free]
  /\ chosen' = [chosen EXCEPT ![d] = "none"]
  /\ UNCHANGED <<rxb1, txb>>

Received(f) == [id |-> GetEID(f.regs), sent |-> f.regs, data |-> f.data]

CanReadFirst(d) ==
  /\ chosen[d] = "RXB0"
  /\ Deliver(d, Received(rxb0[d]))

\* 0x90 | (1 << 1) is READ_RXBUF from RXB0D0, not from RXB1SIDH: bytes of data
\* are taken for an identifier, a length and a payload.  RXB1 stays full, and
\* a frame that has reached RXB0 since RX_STATUS is discarded.
CanReadSecond(d) ==
  /\ chosen[d] = "RXB1"
  /\ \E id \in Misread, len \in 0 .. MaxLen :
       Deliver(d, [id |-> id, sent |-> Free, data |-> [i \in 1 .. len |-> Stale]])

-----------------------------------------------------------------------------
Next ==
  \/ \E type \in Commands, d \in Devices, data \in Payloads :
       MasterSends(type, d, data)
  \/ \E d \in Devices, type \in Replies, data \in Payloads : CanSend(d, type, data)
  \/ \E d \in Devices, m \in Mailboxes : Transmit(d, m)
  \/ \E d \in Devices : CanChoose(d) \/ CanReadFirst(d) \/ CanReadSecond(d)

Spec == Init /\ [][Next]_canVars

-----------------------------------------------------------------------------
(* Properties *)

CommandRegs == [d \in Devices |-> {PutEID(id) : id \in CommandIds(d)}]
ReplyRegs   == [d \in Devices |-> {PutEID(id) : id \in ReplyIds(d)}]

\* Type invariant; a device's mailboxes hold its own replies, none of which
\* is longer than the buffer it was put together in (avr/can.c:288-304).
TypeOK ==
  /\ rxb0 \in [Devices -> Frame \cup {Free}]
  /\ rxb1 \in [Devices -> Frame \cup {Free}]
  /\ txb \in [Devices -> [Mailboxes -> Frame \cup {Free}]]
  /\ chosen \in [Devices -> {"none", "RXB0", "RXB1"}]
  /\ got \in [Devices -> Message \cup {Free}]
  /\ \A d \in Devices, m \in Mailboxes :
       txb[d][m] # Free =>
         txb[d][m].regs \in ReplyRegs[d] /\ Len(txb[d][m].data) <= MaxLen

\* The filter that nobody has set, under the mask that was meant for filter 0.
PassesFilter1(d, regs) == RegsMatch(regs, RXF1[d], PutEID(FilterMask))

\* Filter 0 works through the translation of both the identifier and the mask
\* to registers: of the frames that were sent, though commands and replies of
\* every other device are on the bus and RXB1 may be full of them, the pump is
\* handed none but the commands for this device and what happens to pass
\* filter 1 (avr/can.c:190-197, 331-358).
OnlyForMe ==
  \A d \in Devices : got[d] # Free /\ got[d].sent # Free =>
    got[d].sent \in CommandRegs[d] \/ PassesFilter1(d, got[d].sent)

\* Filter 0 never costs a device one of its commands: what is addressed to it
\* does not end up behind the filters nobody has set.
NotInSecond == \A d \in Devices : rxb1[d] # Free => rxb1[d].regs \notin CommandRegs[d]

\* A reply that has been accepted stays in its mailbox, unchanged, until the
\* controller has sent it (avr/can.c:269-286).
RepliesKept ==
  [][\A d \in Devices, m \in Mailboxes :
       txb[d][m] # Free => txb'[d][m] \in {txb[d][m], Free}]_canVars

-----------------------------------------------------------------------------
(* What the documents say of this driver, and the code does otherwise *)

\* avr/can.c:167-169: the identifier bits that were read are those that the
\* registers hold.  mcpGetEID moves SIDH by three places where mcpPutEID moved
\* it by six, and loses two of the bits that tell the commands apart.
DispatchedAsSent ==
  \A d \in Devices : got[d] # Free =>
    \A type \in DOMAIN CommandNo :
      got[d].sent = PutEID(CommandId(type, d)) => Dispatch(got[d].id) = {type}

\* What the code does instead: it reads every command as the one whose number
\* is the multiple of four below its own, if there is one.  SEEK, WRITE and
\* CHECK_WRITES are read as SELECT_PAGE; PROG_REQ, PROG_DONE and UNLOCK as
\* nothing (avr/can.c:157-165, 170-178).
ReadAs(type) ==
  {t \in DOMAIN CommandNo : CommandNo[t] = 4 * (CommandNo[type] \div 4)}

DispatchedByFours ==
  \A d \in Devices : got[d] # Free =>
    \A type \in DOMAIN CommandNo :
      got[d].sent = PutEID(CommandId(type, d)) => Dispatch(got[d].id) = ReadAs(type)
=============================================================================
