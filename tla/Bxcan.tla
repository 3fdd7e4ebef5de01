------------------------------- MODULE Bxcan -------------------------------
(***************************************************************************)
(* What stm32/can.c relies on of the bxCAN controller: FIFO 0 is three     *)
(* frames deep, and a frame that arrives when it is full overwrites the    *)
(* newest, because MCR.RFLM is left clear; there are three mailboxes.      *)
(***************************************************************************)
EXTENDS Naturals, Sequences

FifoDepth == 3
Mailboxes == 0 .. 2

QueuedLocked(q, f) == IF Len(q) < FifoDepth THEN Append(q, f) ELSE q  \* mutant: RFLM is set
Queued(q, f) == IF Len(q) < FifoDepth THEN Append(q, f)
                ELSE [q EXCEPT ![FifoDepth] = f]
=============================================================================
