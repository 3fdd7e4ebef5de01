---------------------------- MODULE Stm32Device ----------------------------
(***************************************************************************)
(* The bootloader on STM32F1: the pump of main.c over stm32/flash.c.       *)
(*                                                                         *)
(* The flash controller belongs to the chip; it is modelled from the way   *)
(* flash.c uses it: an erase or a half-word program runs until BSY clears, *)
(* FLASH_CR refuses writes while LOCK is set, an erase whose FLASH_AR is   *)
(* outside flash has no effect, and a program access outside flash is a    *)
(* bus fault, which startup.c answers with hcf().                          *)
(***************************************************************************)
EXTENDS Pump

CONSTANTS
  Erased,  \* the value of an erased byte
  Junk,    \* the value of a byte whose programming was cut short
  Images   \* the contents flash may have when the chip is first powered

VARIABLES
  lock,     \* FLASH_CR.LOCK; "jammed" once a key sequence has failed
  pg,       \* FLASH_CR.PG
  cur,      \* curPageAddr
  fillPos,  \* bytesWritten of the fill loop
  mem       \* the contents of flash, page by page

flashVars == <<lock, pg, cur, fillPos, mem>>
vars == <<pumpVars, flashVars>>

Cell    == Byte \cup {Junk}
Content == [Index -> Cell]

ASSUME Stm32Assumption ==
  /\ Platform = "STM32"
  /\ Erased \in Byte
  /\ Junk \notin Byte
  /\ Images \subseteq [Pages -> Content]

ErasedPage == [i \in Index |-> Erased]
IdleFlash  == lock' = "locked" /\ pg' = FALSE /\ cur' = 0 /\ fillPos' = 0

Init ==
  /\ PumpInit
  /\ lock = "locked"
  /\ pg = FALSE
  /\ cur = 0
  /\ fillPos = 0
  /\ mem \in Images

-----------------------------------------------------------------------------
(* cnFlashUnlock and cnFlashLock *)

UnlockFlash ==
  /\ pc = "checkLocked"
  /\ state = "LOCKED"
  /\ \/ lock # "jammed" /\ lock' = "unlocked" /\ Goto("setUnlocked")
     \/ lock' = "jammed" /\ Finish(NoReply)
  /\ UNCHANGED <<state, timer, selVars, pg, cur, fillPos, mem>>

NoLock == lock                      \* mutant: cnFlashLock is not called
SetLock == IF lock = "unlocked" THEN "locked" ELSE lock

LockFlash ==
  /\ pc = "exit"
  /\ lock' = SetLock
  /\ Goto("jump")
  /\ UNCHANGED <<state, timer, selVars, pg, cur, fillPos, mem>>

-----------------------------------------------------------------------------
(* cnFlashBeginWrite, cnFlashFill and cnFlashEndWrite *)

AnyWay == TRUE                      \* mutant: LOCK is not tested
Inverted == lock # "unlocked"        \* mutant: the test is inverted
CanBegin == lock = "unlocked"

\* The erase is started, or refused because FLASH_CR is locked.
BeginWrite ==
  /\ pc = "begin"
  /\ IF CanBegin THEN Goto("erasing") ELSE Finish(NoReply)
  /\ UNCHANGED <<state, timer, selVars, flashVars>>

EraseDone ==
  /\ pc = "erasing"
  /\ mem' = [p \in Pages |-> IF p = addr THEN ErasedPage ELSE mem[p]]
  /\ pg' = TRUE
  /\ cur' = addr
  /\ fillPos' = 0
  /\ Goto("fill")
  /\ UNCHANGED <<state, timer, selVars, lock>>

HalfWord(n) == {n, n + 1}

\* The page of flash with cells f at the half word being programmed.
Programmed(f) ==
  [p \in Pages |->
     IF p = cur THEN [i \in Index |-> IF i \in HalfWord(fillPos)
                                        THEN f[i] ELSE mem[p][i]]
     ELSE mem[p]]

TooShort == fillPos + 2 < PageSize   \* mutant: the last half word is left out
MoreToFill == fillPos < PageSize

FillHalfWord ==
  /\ pc = "fill"
  /\ cur # 0
  /\ MoreToFill
  /\ IF cur \in Pages
       THEN /\ mem' = Programmed(writes)
            /\ fillPos' = fillPos + 2
            /\ UNCHANGED <<pc, msg, out>>
       ELSE Goto("hcf") /\ UNCHANGED <<mem, fillPos>>
  /\ UNCHANGED <<state, timer, selVars, lock, pg, cur>>

FillDoneWhenFull ==                 \* mutant: no test of curPageAddr
  /\ pc = "fill"
  /\ ~MoreToFill
  /\ Goto("end")
  /\ UNCHANGED <<state, timer, selVars, flashVars>>

FillDone ==
  /\ pc = "fill"
  /\ cur = 0 \/ ~MoreToFill
  /\ Goto("end")
  /\ UNCHANGED <<state, timer, selVars, flashVars>>

EndWrite ==
  /\ pc = "end"
  /\ IF cur = 0
       THEN Finish(NoReply) /\ UNCHANGED <<pg, cur>>
       ELSE Goto("committed") /\ pg' = FALSE /\ cur' = 0
  /\ UNCHANGED <<state, timer, selVars, lock, fillPos, mem>>

-----------------------------------------------------------------------------
(* cnJumpToProgram, and a reset of the chip at any moment *)

JumpToProgram ==
  /\ pc = "jump"
  /\ Goto("user")
  /\ UNCHANGED <<state, timer, selVars, flashVars>>

\* A reset while the controller is busy leaves what it was changing undefined.
JunkPage == [i \in Index |-> Junk]
Torn ==
  CASE pc = "erasing" -> {mem, [p \in Pages |-> IF p = addr THEN JunkPage ELSE mem[p]]}
    [] pc = "fill"    -> {mem, Programmed(JunkPage)}
    [] OTHER          -> {mem}

Reset ==
  /\ PumpReset
  /\ IdleFlash
  /\ mem' \in Torn

-----------------------------------------------------------------------------
Drivers == UnlockFlash \/ LockFlash \/ BeginWrite \/ EraseDone
           \/ FillHalfWord \/ FillDone \/ EndWrite \/ JumpToProgram

Main    == (PumpStep /\ UNCHANGED flashVars) \/ Drivers
Listen  == \E m \in Command : Receive(m) /\ UNCHANGED flashVars
Expire  == Timeout /\ UNCHANGED flashVars
Run     == Main \/ Listen \/ Expire

Next == Run \/ Reset

Spec == Init /\ [][Next]_vars

\* Between two resets: the processor runs the program, and the timer counts.
LiveSpec == Init /\ [][Run]_vars /\ WF_vars(Main) /\ WF_vars(Expire)

-----------------------------------------------------------------------------
(* Properties *)

\* Type invariant of the pump and of the flash driver (stm32/flash.c:76).
TypeOK ==
  /\ PumpTypeOK
  /\ lock \in {"locked", "unlocked", "jammed"}
  /\ pg \in BOOLEAN
  /\ cur \in Nat
  /\ fillPos \in Nat
  /\ mem \in [Pages -> Content]

\* A WRITES_COMMITTED answer names a page whose flash contents are, at that
\* moment, the WRITEs the master issued (main.c:168-180).
CommitAckFaithful ==
  out.type = "WRITES_COMMITTED" => out.addr \in Pages /\ mem[out.addr] = writes

\* Why the above holds.  A state that says UNLOCKED can be trusted unless the
\* time-out has fired, and past its first test a commit can be trusted always.
OpenInv ==
  /\ state = "UNLOCKED" \/ pc = "setUnlocked" => lock = "unlocked" \/ timer = "fired"
  /\ pc \in CommitLabels \ {"begin"} => lock = "unlocked"
  /\ pc \in {"jump", "user"} => lock # "unlocked"

\* How much of the selected page holds the WRITEs at each label of a commit.
CycleInv ==
  /\ pc \in {"fill", "end"} => cur = addr
  /\ pc = "fill" /\ cur # 0 /\ fillPos > 0 =>
       cur \in Pages /\ \A i \in Index : i < fillPos => mem[cur][i] = writes[i]
  /\ (pc = "end" /\ cur # 0) \/ pc = "committed" =>
       addr \in Pages /\ mem[addr] = writes

\* The last answer stands until the next command is taken.
AnswerInv ==
  /\ pc \notin {"poll", "exit", "jump", "user"} => out = NoReply
  /\ CommitAckFaithful

\* The inductive invariant: the properties above and what they rest on, at
\* every label of main() and of the flash driver.
IInv == TypeOK /\ SessionInv /\ SelectedInv /\ OpenInv /\ CycleInv /\ AnswerInv

\* Flash changes only in the selected page, only if that page belongs to the
\* application, and only while the controller is unlocked, whatever the order
\* of commands, time-outs and resets (main.c:166-176, stm32/flash.c:86).
ProgrammingDiscipline ==
  [][\A p \in Pages : mem'[p] # mem[p] =>
       p = addr /\ p \in AppPages /\ lock = "unlocked"]_vars

\* Once the timer is stopped, no state says UNLOCKED unless the controller
\* really is: only a time-out that has fired can make the two disagree
\* (main.c:98-109).
UnlockedIsOpen == state = "UNLOCKED" => lock = "unlocked" \/ timer = "fired"

\* A COMMIT_WRITES handled with flash open and a page selected ends in its
\* answer; only a reset or the fault handler can prevent it (main.c:165-182).
CommitSucceeds ==
  [][(/\ pc \in CommitLabels /\ pc' = "poll" /\ state' = "UNLOCKED"
      /\ lock = "unlocked" /\ PageWriteable(addr))
        => out' = WritesCommitted(addr)]_vars

\* The user program is entered with the flash controller locked (main.c:196).
HandOver == pc = "user" => lock # "unlocked"

\* Each promise of PageStore is kept, with the page of a COMMIT_WRITES open
\* from the test of `state' to the answer (main.c:165-182).
OpenPage  == IF pc \in CommitLabels /\ addr \in AppPages THEN addr ELSE FlashEnd
AckedPage == IF out.type = "WRITES_COMMITTED" THEN <<out.addr, writes>> ELSE <<>>
AppStore  == [p \in AppPages |-> mem[p]]

Store == INSTANCE PageStore WITH
           Page <- AppPages, Contents <- Content, NoPage <- FlashEnd,
           store <- AppStore, open <- OpenPage, acked <- AckedPage
KeepsPages == Store!Spec

\* The program outlives no one's patience: PROG_DONE always ends in the user
\* program (main.c:184-197).
ProgDoneJumps == Handling("PROG_DONE") ~> pc = "user"

\* Nobody talks to the device, or nobody says anything it understands: it
\* does not stay IDLE for ever (main.c:42-45, 57-59).
IdleEnds == state = "IDLE" ~> state # "IDLE"

\* Every command that reaches the pump is dealt with; the pump polls again,
\* or the fault handler has the chip (main.c:69-190).
CommandsEnd == pc = "dispatch" ~> pc \in {"poll", "hcf"}

=============================================================================
