----------------------------- MODULE AvrDevice -----------------------------
(***************************************************************************)
(* The bootloader on AVR: the pump of main.c over avr/flash.c.             *)
(*                                                                         *)
(* What avr-libc's boot.h and the chip do is modelled from the way flash.c *)
(* uses them: boot_page_fill loads the temporary page buffer, whose words  *)
(* can be loaded once until the buffer is cleared by a page write; an      *)
(* erase or write acts on the page that the address, taken modulo the      *)
(* flash size, points into; either makes the application section           *)
(* unreadable until boot_rww_enable.                                       *)
(*                                                                         *)
(* Commands arrive as common/can.h promises them.  avr/can.c garbles some  *)
(* identifiers (see AvrCan), so the pump gets a part of these commands.    *)
(***************************************************************************)
EXTENDS Pump

CONSTANTS
  Erased,  \* the value of an erased byte
  Junk,    \* the value of a byte whose programming was cut short
  Empty,   \* a byte of the temporary page buffer that was not loaded
  Images   \* the contents flash may have when the chip is first powered

VARIABLES
  flashLocked,  \* the software lock of avr/flash.c
  cur,          \* curPageAddr
  tmp,          \* the temporary page buffer
  rww,          \* the application section can be read
  mem           \* the contents of flash, page by page

flashVars == <<flashLocked, cur, tmp, rww, mem>>
vars == <<pumpVars, flashVars>>

Cell    == Byte \cup {Junk}
Content == [Index -> Cell]
Buffer  == [Index -> Byte \cup {Empty}]

ASSUME AvrAssumption ==
  /\ Platform = "AVR"
  /\ Erased \in Byte
  /\ Junk \notin Byte
  /\ Empty \notin Byte
  /\ Images \subseteq [Pages -> Content]

ErasedPage  == [i \in Index |-> Erased]
EmptyBuffer == [i \in Index |-> Empty]

Init ==
  /\ PumpInit
  /\ flashLocked = TRUE
  /\ cur = 0
  /\ tmp = EmptyBuffer
  /\ rww = TRUE
  /\ mem \in Images

-----------------------------------------------------------------------------
(* cnFlashUnlock and cnFlashLock *)

UnlockFlash ==
  /\ pc = "checkLocked"
  /\ state = "LOCKED"
  /\ flashLocked' = FALSE
  /\ Goto("setUnlocked")
  /\ UNCHANGED <<state, timer, selVars, cur, tmp, rww, mem>>

KeptUnlocked == flashLocked          \* mutant: cnFlashLock is not called
LockedAgain  == TRUE

LockFlash ==
  /\ pc = "exit"
  /\ flashLocked' = LockedAgain
  /\ Goto("jump")
  /\ UNCHANGED <<state, timer, selVars, cur, tmp, rww, mem>>

-----------------------------------------------------------------------------
(* cnFlashBeginWrite, cnFlashFill and cnFlashEndWrite *)

BeginWrite ==
  /\ pc = "begin"
  /\ cur' = addr
  /\ Goto("fill")
  /\ UNCHANGED <<state, timer, selVars, flashLocked, tmp, rww, mem>>

\* The buffer after its words have been loaded with w.
LoadedShort(w) ==                   \* mutant: the last word is left out
  [i \in Index |-> IF tmp[i] = Empty /\ i < PageSize - 2 THEN w[i] ELSE tmp[i]]
Loaded(w) == [i \in Index |-> IF tmp[i] = Empty THEN w[i] ELSE tmp[i]]

Fill ==
  /\ pc = "fill"
  /\ tmp' = IF cur = 0 THEN tmp ELSE Loaded(writes)
  /\ Goto("end")
  /\ UNCHANGED <<state, timer, selVars, flashLocked, cur, rww, mem>>

\* The page of flash that an SPM instruction with address a acts on.
Phys(a) == a % FlashEnd

WithPage(p, c) == [q \in Pages |-> IF q = p THEN c ELSE mem[q]]

IgnoringLock == cur # 0              \* mutant: flashLocked is not tested
Inverted == cur # 0 /\ flashLocked   \* mutant: the test is inverted
CanEnd == cur # 0 /\ ~flashLocked

EndWriteWaits ==                    \* mutant: it waits instead of refusing
  /\ pc = "end"
  /\ CanEnd
  /\ Goto("erasing")
  /\ rww' = FALSE
  /\ UNCHANGED <<state, timer, selVars, flashLocked, cur, tmp, mem>>

\* The erase is started with interrupts off, or refused.
EndWrite ==
  /\ pc = "end"
  /\ IF CanEnd THEN Goto("erasing") /\ rww' = FALSE
               ELSE Finish(NoReply) /\ UNCHANGED rww
  /\ UNCHANGED <<state, timer, selVars, flashLocked, cur, tmp, mem>>

EraseDone ==
  /\ pc = "erasing"
  /\ mem' = WithPage(Phys(cur), ErasedPage)
  /\ Goto("writing")
  /\ UNCHANGED <<state, timer, selVars, flashLocked, cur, tmp, rww>>

FromBuffer == [i \in Index |-> IF tmp[i] = Empty THEN Erased ELSE tmp[i]]

WriteDone ==
  /\ pc = "writing"
  /\ mem' = WithPage(Phys(cur), FromBuffer)
  /\ tmp' = EmptyBuffer
  /\ cur' = 0
  /\ Goto("committed")
  /\ UNCHANGED <<state, timer, selVars, flashLocked, rww>>

-----------------------------------------------------------------------------
(* cnJumpToProgram, and a reset of the chip at any moment *)

NotReenabled == rww                  \* mutant: no boot_rww_enable
Reenabled == TRUE

JumpToProgram ==
  /\ pc = "jump"
  /\ rww' = Reenabled
  /\ Goto("user")
  /\ UNCHANGED <<state, timer, selVars, flashLocked, cur, tmp, mem>>

JunkPage == [i \in Index |-> Junk]

\* A reset during an erase or a write leaves that page undefined.
Reset ==
  /\ PumpReset
  /\ flashLocked' = TRUE
  /\ cur' = 0
  /\ tmp' = EmptyBuffer
  /\ rww' = TRUE
  /\ \/ mem' = mem
     \/ pc \in {"erasing", "writing"} /\ mem' = WithPage(Phys(cur), JunkPage)

-----------------------------------------------------------------------------
InterruptsOff == pc \in {"erasing", "writing"}

Drivers == UnlockFlash \/ LockFlash \/ BeginWrite \/ Fill \/ EndWrite
           \/ EraseDone \/ WriteDone \/ JumpToProgram

Main    == (PumpStep /\ UNCHANGED flashVars) \/ Drivers
Listen  == \E m \in Command : Receive(m) /\ UNCHANGED flashVars
Expire  == ~InterruptsOff /\ Timeout /\ UNCHANGED flashVars
Run     == Main \/ Listen \/ Expire

Next == Run \/ Reset

Spec == Init /\ [][Next]_vars

\* The processor runs the program and the timer counts, and there is a last
\* reset.
LiveSpec == Spec /\ <>[][Run]_vars /\ WF_vars(Main) /\ WF_vars(Expire)

-----------------------------------------------------------------------------
(* Properties *)

\* Type invariant of the pump and of the flash driver (avr/flash.c:30, 47).
TypeOK ==
  /\ PumpTypeOK
  /\ flashLocked \in BOOLEAN
  /\ cur \in Nat
  /\ tmp \in Buffer
  /\ rww \in BOOLEAN
  /\ mem \in [Pages -> Content]

\* A WRITES_COMMITTED answer names a page whose flash contents are, at that
\* moment, the WRITEs the master issued: nothing that an earlier, refused
\* commit left in the temporary buffer reaches flash (main.c:168-180).
CommitAckFaithful ==
  out.type = "WRITES_COMMITTED" =>
    Phys(out.addr) \in Pages /\ mem[Phys(out.addr)] = writes

\* Why the above holds.  A state that says UNLOCKED can be trusted unless the
\* time-out has fired; past its last test a commit can be trusted always.
OpenInv ==
  /\ state = "UNLOCKED" \/ pc = "setUnlocked" => ~flashLocked \/ timer = "fired"
  /\ pc \in {"erasing", "writing", "committed"} => ~flashLocked
  /\ pc \in {"jump", "user"} => flashLocked
  /\ pc = "user" => rww

\* Where the WRITEs are at each label of a commit.  A refused commit leaves
\* the buffer loaded, but only if flash can no longer be unlocked.
CycleInv ==
  /\ pc \in {"fill", "end", "erasing", "writing"} => cur = addr
  /\ pc \in {"erasing", "writing"} => tmp = writes
  /\ pc = "end" => tmp = (IF cur = 0 THEN EmptyBuffer ELSE writes) \/ flashLocked
  /\ pc \notin {"end", "erasing", "writing"} => tmp = EmptyBuffer \/ flashLocked
  /\ tmp # EmptyBuffer /\ flashLocked =>
       state \in {"UNLOCKED", "DONE"} /\ timer # "armed"
       /\ pc \notin {"stopTimer", "setLocked"}
  /\ pc = "committed" => mem[Phys(addr)] = writes

\* The last answer stands until the next command is taken.
AnswerInv ==
  /\ pc \notin {"poll", "exit", "jump", "user"} => out = NoReply
  /\ CommitAckFaithful

\* The inductive invariant: the properties above and what they rest on, at
\* every label of main() and of the flash driver.
IInv == TypeOK /\ SessionInv /\ SelectedInv /\ OpenInv /\ CycleInv /\ AnswerInv

\* Flash changes only in the selected page and only while the software lock
\* is open, whatever the order of commands, time-outs and resets: on this
\* chip flashLocked is all that stands between a commit and flash
\* (avr/flash.c:81).
ProgrammingDiscipline ==
  [][\A p \in Pages : mem'[p] # mem[p] => p = Phys(addr) /\ ~flashLocked]_vars

\* Once the timer is stopped, no state says UNLOCKED unless flash really is:
\* only a time-out that has fired can make the two disagree (main.c:98-109).
UnlockedIsOpen == state = "UNLOCKED" => ~flashLocked \/ timer = "fired"

\* A COMMIT_WRITES handled with flash open ends in its answer if the page is
\* not page 0; only a reset can prevent it (main.c:165-182).
CommitSucceeds ==
  [][(/\ pc \in CommitLabels /\ pc' = "poll" /\ state' = "UNLOCKED"
      /\ ~flashLocked /\ addr # 0)
        => out' = WritesCommitted(addr)]_vars

\* The user program is entered with flash locked and its section readable:
\* every commit makes it unreadable (main.c:196, avr/flash.c:120).
HandOver == pc = "user" => flashLocked /\ rww

\* Each promise of PageStore is kept, with the page of a COMMIT_WRITES open
\* from the test of `state' to the answer (main.c:165-182).
OpenPage  == IF pc \in CommitLabels THEN Phys(addr) ELSE FlashEnd
AckedPage == IF out.type = "WRITES_COMMITTED"
               THEN <<Phys(out.addr), writes>> ELSE <<>>

Store == INSTANCE PageStore WITH
           Page <- Pages, Contents <- Content, NoPage <- FlashEnd,
           store <- mem, open <- OpenPage, acked <- AckedPage
KeepsPages == Store!Spec

\* PROG_DONE always ends in the user program, in IDLE as in a session, unless
\* the chip is reset meanwhile and starts anew (main.c:184-197).
ProgDoneJumps == Handling("PROG_DONE") ~> pc = "user" \/ PumpInit

\* Every command that reaches the pump is dealt with and the pump polls again
\* (main.c:69-190).
CommandsEnd == pc = "dispatch" ~> pc = "poll"

=============================================================================
