-------------------------------- MODULE Pump --------------------------------
(***************************************************************************)
(* The message pump of common/main.c and the timeout interrupt it races    *)
(* with.  Everything here is common to both targets; the flash drivers are *)
(* added by Stm32Device and AvrDevice, which extend this module.           *)
(*                                                                         *)
(* The main program is one sequential process.  `pc' stands between two of *)
(* its accesses to the volatile `state', because the timer interrupt may   *)
(* run between any two of them: a handler that reads `state' twice, or     *)
(* reads it and then writes it, is cut in as many actions.  A handler that *)
(* does not touch `state' is one action.                                   *)
(*                                                                         *)
(* The CAN driver is seen through its interface: Receive hands the pump    *)
(* any command the filter lets through, and `out' is the message the last  *)
(* step passed to cnCANSend (whose result main.c ignores).                 *)
(***************************************************************************)
EXTENDS FlashMap, Sequences, FiniteSets

CONSTANTS
  Byte,      \* byte values
  Words,     \* 32-bit words a SELECT_PAGE or SEEK may carry
  NoWord,    \* stands for a payload that is not four bytes long
  Chunks,    \* payloads of a WRITE
  Crc(_)     \* cnCRC16 of the page buffer

VARIABLES
  state,        \* main.c `state'
  pc,           \* where the main program is
  msg,          \* the command being handled
  timer,        \* the timeout timer: "armed", "stopped" or "fired"
  addr,         \* selPage.addr
  writeOffset,  \* selPage.writeOffset
  writes,       \* selPage.writes
  out           \* what the last step handed to cnCANSend

pumpVars == <<state, pc, msg, timer, addr, writeOffset, writes, out>>
selVars  == <<addr, writeOffset, writes>>

Index == 0 .. PageSize - 1
Page  == [Index -> Byte]

ASSUME PumpAssumption ==
  /\ Byte \subseteq Nat
  /\ 0 \in Byte
  /\ Words \subseteq Nat
  /\ NoWord \notin Nat
  /\ Chunks \subseteq Seq(Byte)
  /\ \A p \in Page : Crc(p) \in Nat

-----------------------------------------------------------------------------
(* Messages *)

Bare == {"PROG_REQ", "PROG_DONE", "UNLOCK", "CHECK_WRITES", "COMMIT_WRITES",
         "OTHER"}

Command == [type : Bare]
           \cup [type : {"SELECT_PAGE", "SEEK"}, word : Words \cup {NoWord}]
           \cup [type : {"WRITE"}, data : Chunks]

NoMsg   == [type |-> "NONE"]
NoReply == [type |-> "NONE"]

ProgReqResp         == [type |-> "PROG_REQ_RESP", pages |-> FlashSize \div PageSize]
ProgDoneAck         == [type |-> "PROG_DONE_ACK"]
Unlocked            == [type |-> "UNLOCKED"]
PageSelected(a)     == [type |-> "PAGE_SELECTED", addr |-> a]
WritesChecked(c)    == [type |-> "WRITES_CHECKED", crc |-> c]
WritesCommitted(a)  == [type |-> "WRITES_COMMITTED", addr |-> a]

Reply == {NoReply, ProgReqResp, ProgDoneAck, Unlocked}
         \cup [type : {"PAGE_SELECTED", "WRITES_COMMITTED"}, addr : Nat]
         \cup [type : {"WRITES_CHECKED"}, crc : Nat]

-----------------------------------------------------------------------------
(* Program states *)

States  == {"IDLE", "LOCKED", "UNLOCKED", "DONE"}
Session == {"LOCKED", "UNLOCKED"}

\* Labels of the COMMIT_WRITES handler; the middle ones belong to a driver.
CommitLabels == {"begin", "erasing", "fill", "end", "writing", "committed"}
Labels == {"poll", "dispatch", "stopTimer", "setLocked", "checkLocked",
           "setUnlocked", "exit", "jump", "user", "hcf"} \cup CommitLabels

\* The bootloader no longer runs: the user program does, or the fault handler.
Gone == {"user", "hcf"}

\* `state >= LOCKED' on the enum of main.c.
AnyState == TRUE                    \* mutant: the test is left out
AtLeastLocked == state \in {"LOCKED", "UNLOCKED", "DONE"}

-----------------------------------------------------------------------------
(* Start of main(): the statics hold their initial values, the timer has   *)
(* been started, and the pump is about to poll for the first time.  The    *)
(* start of the timer (main.c:59) and state = IDLE (main.c:68) are one     *)
(* step: a time-out of 3 s does not fit between them.                      *)
Start ==
  [state |-> "IDLE", pc |-> "poll", msg |-> NoMsg, timer |-> "armed",
   addr |-> 0, writeOffset |-> 0, writes |-> [i \in Index |-> 0],
   out |-> NoReply]

PumpInit ==
  /\ state = Start.state
  /\ pc = Start.pc
  /\ msg = Start.msg
  /\ timer = Start.timer
  /\ addr = Start.addr
  /\ writeOffset = Start.writeOffset
  /\ writes = Start.writes
  /\ out = Start.out

\* A chip reset, at any moment: RAM is initialised again and main() restarts.
PumpReset ==
  /\ state' = Start.state
  /\ pc' = Start.pc
  /\ msg' = Start.msg
  /\ timer' = Start.timer
  /\ addr' = Start.addr
  /\ writeOffset' = Start.writeOffset
  /\ writes' = Start.writes
  /\ out' = Start.out

-----------------------------------------------------------------------------
(* The loop *)

\* cnCANRecv returned a command to the loop body.
Receive(m) ==
  /\ pc = "poll"
  /\ state # "DONE"
  /\ pc' = "dispatch"
  /\ msg' = m
  /\ out' = NoReply
  /\ UNCHANGED <<state, timer, selVars>>

Handling(type) == pc = "dispatch" /\ msg.type = type

\* The handler ends, having sent r (or nothing), and the loop goes round.
Finish(r) == pc' = "poll" /\ msg' = NoMsg /\ out' = r

Goto(label) == pc' = label /\ UNCHANGED <<msg, out>>

LeaveLoop ==
  /\ pc = "poll"
  /\ state = "DONE"
  /\ Goto("exit")
  /\ UNCHANGED <<state, timer, selVars>>

\* onTimeout, run by the timer interrupt; the timer is one-shot.
TimeoutIgnored ==                   \* mutant: the callback is not called
  /\ timer = "armed"
  /\ pc \notin Gone
  /\ timer' = "fired"
  /\ UNCHANGED <<state, pc, msg, out, selVars>>

Timeout ==
  /\ timer = "armed"
  /\ pc \notin Gone
  /\ state' = "DONE"
  /\ timer' = "fired"
  /\ UNCHANGED <<pc, msg, out, selVars>>

-----------------------------------------------------------------------------
(* PROG_REQ: test of `state', cnTimerStop, write of `state' *)

ProgReq ==
  /\ Handling("PROG_REQ")
  /\ \/ state = "IDLE" /\ Goto("stopTimer")
     \/ state # "IDLE" /\ Finish(ProgReqResp)
  /\ UNCHANGED <<state, timer, selVars>>

TimerLeftOn == timer                \* mutant: cnTimerStop is not called
TimerOff    == "stopped"

StopTimer ==
  /\ pc = "stopTimer"
  /\ timer' = TimerOff
  /\ Goto("setLocked")
  /\ UNCHANGED <<state, selVars>>

SetLocked ==
  /\ pc = "setLocked"
  /\ state' = "LOCKED"
  /\ Finish(ProgReqResp)
  /\ UNCHANGED <<timer, selVars>>

(* UNLOCK: two tests of `state', cnFlashUnlock if LOCKED, write of `state' *)

UnlockTest ==
  /\ Handling("UNLOCK")
  /\ \/ AtLeastLocked /\ Goto("checkLocked")
     \/ ~AtLeastLocked /\ Finish(NoReply)
  /\ UNCHANGED <<state, timer, selVars>>

UnlockSkipped ==
  /\ pc = "checkLocked"
  /\ state # "LOCKED"
  /\ Goto("setUnlocked")
  /\ UNCHANGED <<state, timer, selVars>>

SetUnlocked ==
  /\ pc = "setUnlocked"
  /\ state' = "UNLOCKED"
  /\ Finish(Unlocked)
  /\ UNCHANGED <<timer, selVars>>

-----------------------------------------------------------------------------
(* The page buffer *)

Acknowledged ==                     \* mutant: selPage.addr is not set
  /\ Handling("SELECT_PAGE")
  /\ Finish(IF msg.word # NoWord THEN PageSelected(PageMask(msg.word)) ELSE NoReply)
  /\ UNCHANGED <<state, timer, selVars>>

SelectPage ==
  /\ Handling("SELECT_PAGE")
  /\ IF msg.word # NoWord /\ PageWriteable(PageMask(msg.word))
       THEN /\ addr' = PageMask(msg.word)
            /\ Finish(PageSelected(PageMask(msg.word)))
       ELSE Finish(NoReply) /\ UNCHANGED addr
  /\ UNCHANGED <<state, timer, writeOffset, writes>>

Seek ==
  /\ Handling("SEEK")
  /\ IF msg.word # NoWord /\ msg.word < PageSize
       THEN writeOffset' = msg.word
       ELSE UNCHANGED writeOffset
  /\ Finish(NoReply)
  /\ UNCHANGED <<state, timer, addr, writes>>

\* How many bytes of d the loop of WRITE stores: it stops at the page's end.
StoredUnbounded(d) == Len(d)        \* mutant: no test of the page's end
Stored(d) == IF Len(d) <= PageSize - writeOffset
               THEN Len(d) ELSE PageSize - writeOffset

Write ==
  /\ Handling("WRITE")
  /\ LET n == Stored(msg.data)
     IN  /\ writes' = [i \in Index |->
                         IF i >= writeOffset /\ i < writeOffset + n
                           THEN msg.data[i - writeOffset + 1] ELSE writes[i]]
         /\ writeOffset' = writeOffset + n
  /\ Finish(NoReply)
  /\ UNCHANGED <<state, timer, addr>>

CheckWrites ==
  /\ Handling("CHECK_WRITES")
  /\ Finish(WritesChecked(Crc(writes)))
  /\ UNCHANGED <<state, timer, selVars>>

-----------------------------------------------------------------------------
(* COMMIT_WRITES (its flash cycle is the driver's), PROG_DONE and the rest *)

CommitTest ==
  /\ Handling("COMMIT_WRITES")
  /\ \/ state = "UNLOCKED" /\ Goto("begin")
     \/ state # "UNLOCKED" /\ Finish(NoReply)
  /\ UNCHANGED <<state, timer, selVars>>

CommitAck ==
  /\ pc = "committed"
  /\ Finish(WritesCommitted(addr))
  /\ UNCHANGED <<state, timer, selVars>>

ProgDoneGoesOn ==                   \* mutant: `state' is not written
  /\ Handling("PROG_DONE")
  /\ Finish(ProgDoneAck)
  /\ UNCHANGED <<state, timer, selVars>>

ProgDone ==
  /\ Handling("PROG_DONE")
  /\ state' = "DONE"
  /\ Finish(ProgDoneAck)
  /\ UNCHANGED <<timer, selVars>>

Unrecognised ==
  /\ Handling("OTHER")
  /\ Finish(NoReply)
  /\ UNCHANGED <<state, timer, selVars>>

\* The steps of the main program that leave the flash driver alone.
PumpStep ==
  \/ LeaveLoop
  \/ ProgReq \/ StopTimer \/ SetLocked
  \/ UnlockTest \/ UnlockSkipped \/ SetUnlocked
  \/ SelectPage \/ Seek \/ Write \/ CheckWrites
  \/ CommitTest \/ CommitAck
  \/ ProgDone \/ Unrecognised

-----------------------------------------------------------------------------
(* Properties of the pump *)

\* Type invariant.  Its interesting part is the page buffer of selPage: the
\* WRITE head never passes the end of `writes' (main.c:147-155).
PumpTypeOK ==
  /\ state \in States
  /\ pc \in Labels
  /\ msg \in Command \cup {NoMsg}
  /\ timer \in {"armed", "stopped", "fired"}
  /\ addr \in Nat
  /\ writeOffset \in 0 .. PageSize
  /\ writes \in Page
  /\ out \in Reply

\* Once PROG_REQ has been accepted, nothing but a PROG_DONE ends the session:
\* no timeout can arrive late and throw the master out (main.c:81-85).
OnlyProgDoneEndsSession ==
  [][(state \in Session /\ state' = "DONE") => Handling("PROG_DONE")]_pumpVars

\* Whatever a master sends, the page to be programmed is an application page
\* other than the last, or one of two addresses that are not: the initial 0,
\* and the page at the end of the address space (main.c:116-134).
SelectedPage ==
  addr \in (AppPages \ {AppEnd - PageSize}) \cup {0, AddrMod - PageSize}

\* Why: the address is 0 until SELECT_PAGE has masked and accepted another.
SelectedInv ==
  addr = 0 \/ (addr < AddrMod /\ Aligned(addr) /\ PageWriteable(addr))

\* What keeps the above inductive: how far a stale reading of `state' can be
\* from its value, at each label where the timer may have fired.
SessionInv ==
  /\ state \in Session => timer # "armed"
  /\ pc \in {"setLocked", "checkLocked", "setUnlocked"} => timer # "armed"
  /\ pc \in CommitLabels => state = "UNLOCKED"
  /\ pc \in {"dispatch", "checkLocked", "setUnlocked"} /\ state = "DONE"
       => timer = "fired"
  /\ pc = "stopTimer" => state \in {"IDLE", "DONE"}
  /\ pc = "setLocked" => state \in {"IDLE", "DONE"}
  /\ pc \in {"checkLocked", "setUnlocked"} => state # "IDLE"
  /\ pc \in {"exit", "jump", "user"} => state = "DONE"
  /\ pc = "dispatch" => msg \in Command

-----------------------------------------------------------------------------
(* What the documents say of the pump, and the code does otherwise *)

\* A PROG_REQ has arrived and is being handled.
ProgReqArrived == Handling("PROG_REQ") \/ pc \in {"stopTimer", "setLocked"}


=============================================================================
