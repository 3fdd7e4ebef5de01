---------------------------- MODULE Programming ----------------------------
(***************************************************************************)
(* A master programs an STM32 device over the bus, by the second sheet of  *)
(* docs/CANnuccia.xlsx; composes the device with the queues of its bxCAN   *)
(* controller and with the master.                                         *)
(*                                                                         *)
(* PROG_REQ is repeated until the device responds (sheet 1, D6); no other  *)
(* request is, and after any other than WRITE and SEEK the master waits    *)
(* for the answer.  Frames are lost in two places: in FIFO 0, which        *)
(* overwrites its newest, and in cnCANSend, whose refusal main.c ignores.  *)
(* Answers leave the mailboxes in any order.  A master that is still       *)
(* waiting when the bus has fallen silent may start over.  The master is   *)
(* not in the repository.                                                  *)
(***************************************************************************)
EXTENDS Stm32Device, Bxcan

CONSTANTS
  Image,  \* what each page of the program is to hold
  Plan    \* these pages, in the order in which the master programs them

\* The part of page p that its k-th WRITE carries: half of it.
Half == PageSize \div 2
Part(p, k) == [i \in 1 .. Half |-> p[k * Half + i - 1]]

ASSUME ProgrammingAssumption ==
  /\ DOMAIN Image \subseteq {a \in AppPages : PageWriteable(a) /\ a \in Words}
  /\ \A a \in DOMAIN Image : Image[a] \in Page
  /\ \A a \in DOMAIN Image : {Part(Image[a], 0), Part(Image[a], 1)} \subseteq Chunks
  /\ Plan \in Seq(DOMAIN Image)
  /\ \A a \in DOMAIN Image : \E n \in DOMAIN Plan : Plan[n] = a
  /\ Len(Plan) > 0
  /\ 0 \in Words

VARIABLES
  fifo,     \* FIFO 0 of the device
  outbox,   \* its mailboxes; NoReply in those that are free
  todo,     \* what the master has yet to send before it waits
  expect,   \* the type of the answer it waits for, or "SUCCESS"
  nth,      \* the page it programs, by its number in Plan
  excused   \* the answer to its last request may fail to come

masterVars == <<todo, expect, nth>>
linkVars   == <<fifo, outbox>>
progVars   == <<vars, linkVars, masterVars, excused>>

-----------------------------------------------------------------------------
(* What the master sends *)

WritePage(p) == <<[type |-> "WRITE", data |-> Part(p, 0)],
                  [type |-> "WRITE", data |-> Part(p, 1)],
                  [type |-> "CHECK_WRITES"]>>

Request(type) == <<[type |-> type]>>
Rewind        == <<[type |-> "SEEK", word |-> 0]>>
Select(n)     == <<[type |-> "SELECT_PAGE", word |-> Plan[n]]>>

Opening == todo' = Request("PROG_REQ") /\ expect' = "PROG_REQ_RESP" /\ nth' = 1

ProgInit ==
  /\ Init
  /\ fifo = <<>>
  /\ outbox = [m \in Mailboxes |-> NoReply]
  /\ todo = Request("PROG_REQ")
  /\ expect = "PROG_REQ_RESP"
  /\ nth = 1
  /\ excused = FALSE

Waiting == todo = <<>> /\ expect # "SUCCESS"

MasterSends ==
  /\ todo # <<>>
  /\ fifo' = Queued(fifo, Head(todo))
  /\ todo' = Tail(todo)
  /\ UNCHANGED <<vars, outbox, expect, nth, excused>>

RequestAgain ==
  /\ Waiting
  /\ expect = "PROG_REQ_RESP"
  /\ fifo' = Queued(fifo, Request("PROG_REQ")[1])
  /\ UNCHANGED <<vars, outbox, masterVars, excused>>

Quiet == /\ fifo = <<>>
         /\ outbox = [m \in Mailboxes |-> NoReply]
         /\ pc \in {"poll"} \cup Gone

StartOver ==
  /\ Waiting
  /\ Quiet
  /\ Opening
  /\ excused' = FALSE
  /\ UNCHANGED <<vars, linkVars>>

-----------------------------------------------------------------------------
(* What it does with an answer *)

Ask(messages, answer) == todo' = messages /\ expect' = answer

SelectOrFinish(n) ==
  /\ nth' = n
  /\ IF n <= Len(Plan) THEN Ask(Select(n), "PAGE_SELECTED")
                       ELSE Ask(Request("PROG_DONE"), "PROG_DONE_ACK")

Proceed(r) ==
  LET p == Image[Plan[nth]]
  IN  \/ r.type = "PROG_REQ_RESP" /\ Ask(Request("UNLOCK"), "UNLOCKED") /\ UNCHANGED nth
      \/ r.type = "UNLOCKED" /\ SelectOrFinish(1)
      \/ r.type = "PAGE_SELECTED" /\ Ask(WritePage(p), "WRITES_CHECKED") /\ UNCHANGED nth
      \/ /\ r.type = "WRITES_CHECKED"
         /\ IF r.crc = Crc(p) THEN Ask(Request("COMMIT_WRITES"), "WRITES_COMMITTED")
                              ELSE Ask(Rewind \o WritePage(p), "WRITES_CHECKED")
         /\ UNCHANGED nth
      \/ r.type = "WRITES_COMMITTED" /\ SelectOrFinish(nth + 1)
      \/ r.type = "PROG_DONE_ACK" /\ Ask(<<>>, "SUCCESS") /\ UNCHANGED nth

\* The answer in mailbox m wins the bus; the master ignores one that it does
\* not wait for.
Transmit(m) ==
  LET r == outbox[m]
  IN  /\ r # NoReply
      /\ outbox' = [outbox EXCEPT ![m] = NoReply]
      /\ IF Waiting /\ r.type = expect
           THEN Proceed(r) /\ excused' = (excused /\ r.type # "UNLOCKED")
           ELSE UNCHANGED <<masterVars, excused>>
      /\ UNCHANGED <<vars, fifo>>

-----------------------------------------------------------------------------
(* The device *)

DeviceReceives ==
  /\ fifo # <<>>
  /\ Receive(Head(fifo))
  /\ fifo' = Tail(fifo)
  /\ UNCHANGED <<flashVars, outbox, masterVars, excused>>

FreeMailboxes == {m \in Mailboxes : outbox[m] = NoReply}

\* Between two commands `out' is NoReply: a step that changes it has called
\* cnCANSend.
Sends == out' # out /\ out' # NoReply

DeviceRuns ==
  /\ Main
  /\ \/ ~Sends /\ UNCHANGED outbox /\ excused' = (excused \/ lock' = "jammed")
     \/ /\ Sends
        /\ \E m \in FreeMailboxes : outbox' = [outbox EXCEPT ![m] = out']
        /\ UNCHANGED excused
     \/ Sends /\ FreeMailboxes = {} /\ excused' = TRUE /\ UNCHANGED outbox
  /\ UNCHANGED <<fifo, masterVars>>

DeviceTimesOut == Expire /\ UNCHANGED <<linkVars, masterVars, excused>>

\* cnCANInit, or that of the user program, resets the controller.
DeviceResets ==
  /\ Reset
  /\ fifo' = <<>>
  /\ outbox' = [m \in Mailboxes |-> NoReply]
  /\ excused' = TRUE
  /\ UNCHANGED masterVars

UserResetsCan ==
  /\ pc = "user"
  /\ fifo' = <<>>
  /\ outbox' = [m \in Mailboxes |-> NoReply]
  /\ excused' = TRUE
  /\ UNCHANGED <<vars, masterVars>>

-----------------------------------------------------------------------------
ProgNext ==
  \/ MasterSends \/ RequestAgain \/ StartOver
  \/ \E m \in Mailboxes : Transmit(m)
  \/ DeviceReceives \/ DeviceRuns \/ DeviceTimesOut
  \/ DeviceResets \/ UserResetsCan

\* The processor runs its program, and what is in a mailbox is sent some day.
\* Nothing is assumed of the master, nor that the chip is not reset.
ProgSpec ==
  /\ ProgInit /\ [][ProgNext]_progVars
  /\ WF_progVars(DeviceReceives) /\ WF_progVars(DeviceRuns)
  /\ \A m \in Mailboxes : WF_progVars(Transmit(m))

-----------------------------------------------------------------------------
(* Properties *)

\* Contents p are contents that the master cannot tell from those of its page
\* a: a checksum is all it is ever told of what a page holds.
Checked(p, a) == p \in Page /\ Crc(p) = Crc(Image[a])

\* What the master reports as done is in flash, page by page, and stays there:
\* whatever was overrun, refused, overtaken, torn by a reset or done again in
\* the meantime (main.c:116-188 as a whole).
ReportedIsStored ==
  expect = "SUCCESS" => \A a \in DOMAIN Image : Checked(mem[a], a)

\* Only contents that the master has checked get into flash, and only into the
\* page they are meant for: a WRITE lost to an overrun, or stored at the wrong
\* place because SELECT_PAGE does not move the WRITE head, is found out before
\* the page is erased (main.c:127, 147-163).
OnlyCheckedIsWritten ==
  pc \in CommitLabels => addr \in DOMAIN Image /\ Checked(writes, addr)

\* A master that waits is answered, unless the answer found no free mailbox,
\* the chip was reset, flash could not be unlocked, or the bootloader has ended
\* or timed out: the request itself is never lost to an overrun, being the
\* newest frame, which the FIFO keeps (stm32/can.c:148, 237).
WaitEnds == Waiting ~> (~Waiting \/ excused \/ pc \in Gone \/ timer = "fired")

-----------------------------------------------------------------------------
(* Why the first two hold *)

Busy      == pc \notin {"poll", "exit", "jump"} \cup Gone
Plain(f)  == f.type \in {"PROG_REQ", "SEEK", "WRITE"}
Answer(r) == r.type \notin {NoReply.type, "PROG_REQ_RESP"}

\* The types of what is on its way, and which page is being programmed.
WireTypes ==
  /\ fifo \in Seq(Command)
  /\ Len(fifo) <= FifoDepth
  /\ todo \in Seq(Command)
  /\ outbox \in [Mailboxes -> Reply]
  /\ expect \in {"PROG_REQ_RESP", "UNLOCKED", "PAGE_SELECTED", "WRITES_CHECKED",
                  "WRITES_COMMITTED", "PROG_DONE_ACK", "SUCCESS"}
  /\ nth \in 1 .. Len(Plan) + 1
  /\ expect \in {"PAGE_SELECTED", "WRITES_CHECKED", "WRITES_COMMITTED"}
       => nth \in DOMAIN Plan
  /\ expect \in {"PROG_DONE_ACK", "SUCCESS"} => nth = Len(Plan) + 1

\* The command that is handled at each label of a handler with several.
HandledInv ==
  /\ pc \in {"stopTimer", "setLocked"} => msg.type = "PROG_REQ"
  /\ pc \in {"checkLocked", "setUnlocked"} => msg.type = "UNLOCK"
  /\ pc \in CommitLabels => msg.type = "COMMIT_WRITES"

\* A request the master waits for is the last thing it has sent, so nothing is
\* in flight behind it, nor when its answer is there.
LineInv ==
  /\ \A i \in DOMAIN todo : i < Len(todo) => Plain(todo[i])
  /\ \A i \in DOMAIN fifo : todo # <<>> \/ i < Len(fifo) => Plain(fifo[i])
  /\ Busy /\ (todo # <<>> \/ fifo # <<>>) => Plain(msg)
  /\ \A m \in Mailboxes : Answer(outbox[m]) =>
       /\ todo = <<>> /\ fifo = <<>> /\ ~Busy
       /\ \A n \in Mailboxes : Answer(outbox[n]) => n = m

\* What is sent, besides PROG_REQ, by a master that waits for this answer about
\* the n-th page.
Asked(f, answer, n) ==
  \/ f.type = "PROG_REQ"
  \/ answer = "UNLOCKED" /\ f.type = "UNLOCK"
  \/ answer = "PAGE_SELECTED" /\ f.type = "SELECT_PAGE" /\ f.word = Plan[n]
  \/ answer = "WRITES_CHECKED" /\ f.type \in {"SEEK", "WRITE", "CHECK_WRITES"}
  \/ answer = "WRITES_COMMITTED" /\ f.type = "COMMIT_WRITES"
  \/ answer = "PROG_DONE_ACK" /\ f.type = "PROG_DONE"

\* No command and no answer of an earlier stage is still about.
StageInv ==
  /\ \A i \in DOMAIN todo : Asked(todo[i], expect, nth)
  /\ \A i \in DOMAIN fifo : Asked(fifo[i], expect, nth)
  /\ Busy => Asked(msg, expect, nth)
  /\ \A m \in Mailboxes : Answer(outbox[m]) => outbox[m].type = expect

\* Device and master agree on the page and on what it is to hold, unless the
\* device has been reset, which a state other than UNLOCKED gives away.
AgreeInv ==
  /\ expect \in {"WRITES_CHECKED", "WRITES_COMMITTED"} /\ state = "UNLOCKED"
       => addr = Plan[nth]
  /\ expect = "WRITES_COMMITTED" /\ state = "UNLOCKED" => Checked(writes, Plan[nth])
  /\ \A m \in Mailboxes :
       LET r == outbox[m]
       IN  /\ r.type = "PAGE_SELECTED" => addr = Plan[nth]
           /\ r.type = "WRITES_CHECKED" => r.crc = Crc(writes)
           /\ r.type = "WRITES_COMMITTED" => Checked(mem[Plan[nth]], Plan[nth])

\* The pages that are done hold what they should; a page that Plan names again
\* is not among them while it is programmed anew.
DoneInv ==
  expect \notin {"PROG_REQ_RESP", "UNLOCKED"} =>
    \A n \in DOMAIN Plan :
      n < nth /\ (nth \in DOMAIN Plan => Plan[n] # Plan[nth])
        => Checked(mem[Plan[n]], Plan[n])

\* The inductive invariant, with that of the device.
MasterInv == WireTypes /\ HandledInv /\ LineInv /\ StageInv /\ AgreeInv /\ DoneInv
ProgInv   == IInv /\ MasterInv
=============================================================================
