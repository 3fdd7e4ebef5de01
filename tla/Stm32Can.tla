------------------------------ MODULE Stm32Can ------------------------------
(***************************************************************************)
(* stm32/can.c: a bus with a master and several STM32 devices, each with a *)
(* bxCAN controller whose filter 0 was set by cnCANInit.                   *)
(*                                                                         *)
(* The controller is modelled from the way can.c uses it: what passes the  *)
(* filter is queued in FIFO 0 (see Bxcan); TSR.CODE names a free mailbox   *)
(* when there is one; the mailboxes compete for the bus, and which wins is *)
(* left open.                                                              *)
(***************************************************************************)
EXTENDS CanId, Bxcan

CONSTANTS
  Devices,   \* the device ids on the bus
  Commands,  \* the types of the commands the master sends
  Replies,   \* the types of the replies the devices send
  Others,    \* identifiers of frames that are neither commands nor replies
  Payloads,  \* payloads of frames
  Free       \* an empty mailbox; also: nothing has been received

\* A frame on the bus; and what cnCANRecv makes of one: the identifier it
\* reports, and, as a history variable, the one the frame was sent under.
Frame   == [id : Word, data : Payloads]
Message == [id : Word, sent : Word, data : Payloads]

ASSUME CanAssumption ==
  /\ Devices \subseteq DevId
  /\ Commands \subseteq DOMAIN CommandNo
  /\ Replies \subseteq DOMAIN ReplyNo
  /\ Others \subseteq Word
  /\ Payloads \subseteq Seq(Nat)
  /\ Free \notin Frame

VARIABLES
  fifo,    \* FIFO 0 of each device
  outbox,  \* CAN1->OUTBOX of each device
  got      \* the last message cnCANRecv returned

canVars == <<fifo, outbox, got>>

Init ==
  /\ fifo = [d \in Devices |-> <<>>]
  /\ outbox = [d \in Devices |-> [m \in Mailboxes |-> Free]]
  /\ got = [d \in Devices |-> Free]

\* initCANFilter and the identifier cnCANInit is given by main.c.
Accepts(d, id) == Matches(id, DevMask(FilterId, d), FilterMask)

\* Frame f is on the bus; every node but its sender sees it.
Broadcast(f, listeners) ==
  fifo' = [d \in Devices |-> IF d \in listeners /\ Accepts(d, f.id)
                               THEN Queued(fifo[d], f) ELSE fifo[d]]

MasterSends(type, d, data) ==
  /\ Broadcast([id |-> CommandId(type, d), data |-> data], Devices)
  /\ UNCHANGED <<outbox, got>>

OtherSends(id, data) ==
  /\ Broadcast([id |-> id, data |-> data], Devices)
  /\ UNCHANGED <<outbox, got>>

\* cnCANSend: refused if no mailbox is free, else the first free one is filled
\* and its transmission requested.
AnyMailbox(d) == Mailboxes           \* mutant: TSR.TMEx is not tested
FreeMailboxes(d) == {m \in Mailboxes : outbox[d][m] = Free}

\* The mailbox's IR: TXRQ is kept clear until the data is in place.
TooEarly(id) == id \cup {TXRQ}       \* mutant: TXRQ is set with the identifier
OutboxId(id) == id \ {TXRQ}

CanSend(d, type, data) ==
  /\ \/ \E m \in FreeMailboxes(d) :
          outbox' = [outbox EXCEPT ![d][m] =
                       [id |-> OutboxId(ReplyId(type, d)), data |-> data]]
     \/ FreeMailboxes(d) = {} /\ UNCHANGED outbox
  /\ UNCHANGED <<fifo, got>>

Transmit(d, m) ==
  /\ outbox[d][m] # Free
  /\ outbox' = [outbox EXCEPT ![d][m] = Free]
  /\ Broadcast(outbox[d][m], Devices \ {d})
  /\ UNCHANGED got

Shifted(f, low) ==                   \* mutant: the 29 bits at the low end
  [id |-> Shr(f.id \cap (3 .. 31), 3), sent |-> f.id, data |-> f.data]

\* cnCANRecv: the oldest frame is copied out and released.  Its identifier is
\* IR as it is, of which bit 0 is undefined (common/can.h:41-43).
Received(f, low) ==
  [id |-> (f.id \ {TXRQ}) \cup low, sent |-> f.id, data |-> f.data]

CanRecv(d) ==
  /\ fifo[d] # <<>>
  /\ \E low \in SUBSET {TXRQ} :
       got' = [got EXCEPT ![d] = Received(Head(fifo[d]), low)]
  /\ fifo' = [fifo EXCEPT ![d] = Tail(fifo[d])]
  /\ UNCHANGED outbox

Next ==
  \/ \E type \in Commands, d \in Devices, data \in Payloads :
       MasterSends(type, d, data)
  \/ \E id \in Others, data \in Payloads : OtherSends(id, data)
  \/ \E d \in Devices, type \in Replies, data \in Payloads :
       CanSend(d, type, data)
  \/ \E d \in Devices, m \in Mailboxes : Transmit(d, m)
  \/ \E d \in Devices : CanRecv(d)

Spec == Init /\ [][Next]_canVars

-----------------------------------------------------------------------------
(* Properties *)

Types ==
  /\ fifo \in [Devices -> Seq(Frame)]
  /\ \A d \in Devices : Len(fifo[d]) <= FifoDepth
  /\ outbox \in [Devices -> [Mailboxes -> Frame \cup {Free}]]
  /\ got \in [Devices -> Message \cup {Free}]

\* What was sent under an identifier may be handed to the pump of device d: it
\* is nobody's reply and no other device's command.
Proper(id, d) ==
  /\ \A e \in Devices : id \notin ReplyIds(e)
  /\ \A e \in Devices \ {d} : id \notin CommandIds(e)

\* A device only reads what the master sent to it, however many others share
\* the bus, answer on it and are addressed on it (common/can.h:21-22,
\* main.c:52-55).
OnlyForMe == \A d \in Devices : got[d] # Free => Proper(got[d].sent, d)

\* The inductive invariant: the same of every frame in a FIFO, where it has to
\* survive the overwriting of the newest; and mailboxes hold replies only.
CanInv ==
  /\ Types
  /\ \A d \in Devices : \A i \in DOMAIN fifo[d] : Accepts(d, fifo[d][i].id)
  /\ \A d \in Devices : got[d] # Free =>
       /\ Accepts(d, got[d].sent)
       /\ got[d].id \ {TXRQ} = got[d].sent \ {TXRQ}
  /\ \A d \in Devices, m \in Mailboxes :
       outbox[d][m] # Free => outbox[d][m].id \in ReplyIds(d)

\* A device carries out a command exactly if that command was sent to it, by
\* the identifier the frame had on the bus and not the one cnCANRecv reports:
\* the filter, which looks at the device and not at the type, and the `case'
\* labels of main.c:78-184, which look at the type and not at the device, leave
\* nothing between them.  (A remote request counts as the command.)
DispatchedAsSent ==
  \A d \in Devices : got[d] # Free =>
    \A type \in DOMAIN CommandNo :
      type \in Dispatch(got[d].id)
        <=> got[d].sent \ {RTR, TXRQ} = CommandId(type, d)

\* A reply that has been accepted stays in its mailbox, unchanged, until the
\* controller has sent it, whatever cnCANSend is asked to do in the meantime
\* (stm32/can.c:148-155).
RepliesKept ==
  [][\A d \in Devices, m \in Mailboxes :
       outbox[d][m] # Free => outbox'[d][m] \in {outbox[d][m], Free}]_canVars
=============================================================================
