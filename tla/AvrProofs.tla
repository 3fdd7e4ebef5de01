----------------------------- MODULE AvrProofs -----------------------------
(***************************************************************************)
(* Theorems about AvrDevice, for every layout of flash, every page size    *)
(* and every set of words and payloads.                                    *)
(***************************************************************************)
EXTENDS AvrDevice, PumpProofs

\* Erased, junk and written pages are contents of a page.
LEMMA ContentFacts ==
  /\ ErasedPage \in Content
  /\ JunkPage \in Content
  /\ Page \subseteq Content
BY AvrAssumption DEF ErasedPage, JunkPage, Content, Page, Cell

\* Rewriting a page keeps flash a function to contents.
LEMMA WithPageType ==
  ASSUME mem \in [Pages -> Content], NEW p, NEW c \in Content
  PROVE  WithPage(p, c) \in [Pages -> Content]
BY DEF WithPage

\* The words of the buffer and what the chip makes of them.
LEMMA BufferFacts ==
  ASSUME tmp \in Buffer, writes \in Page
  PROVE  /\ EmptyBuffer \in Buffer
         /\ Loaded(writes) \in Buffer
         /\ FromBuffer \in Content
         /\ tmp = EmptyBuffer => Loaded(writes) = writes
         /\ tmp = writes => FromBuffer = writes
<1>1. \A i \in Index : writes[i] # Empty /\ writes[i] \in Byte
  BY AvrAssumption DEF Page
<1>2. EmptyBuffer \in Buffer
  BY DEF EmptyBuffer, Buffer
<1>3. Loaded(writes) \in Buffer
  BY <1>1 DEF Loaded, Buffer
<1>4. FromBuffer \in Content
  BY AvrAssumption DEF FromBuffer, Buffer, Content, Cell
<1>5. ASSUME tmp = EmptyBuffer
      PROVE  Loaded(writes) = writes
  BY <1>5 DEF Loaded, EmptyBuffer, Page
<1>6. ASSUME tmp = writes
      PROVE  FromBuffer = writes
  <2>1. FromBuffer = [i \in Index |-> writes[i]]
    BY <1>1, <1>6 DEF FromBuffer
  <2> QED
    BY <2>1 DEF Page
<1> QED
  BY <1>2, <1>3, <1>4, <1>5, <1>6

\* The page an SPM acts on is a page of flash: the size of flash is a multiple
\* of the page size, and so is every address that can be selected.
LEMMA PhysIsPage ==
  ASSUME SelectedInv, addr \in Nat
  PROVE  Phys(addr) \in Pages
<1>1. FlashEnd \in Nat \ {0} /\ FlashStart = 0
  BY LayoutAssumption, AvrAssumption
<1>2. Phys(addr) \in 0 .. FlashEnd - 1
  BY <1>1 DEF Phys
<1>3. Aligned(addr)
  BY LayoutAssumption DEF SelectedInv, Aligned
<1>4. Aligned(Phys(addr))
  BY <1>1, <1>3, ModOfMultiples, LayoutAssumption DEF Aligned, Phys
<1> QED
  BY <1>1, <1>2, <1>4 DEF Pages

-----------------------------------------------------------------------------
(* Type correctness, with SessionInv that it leans on *)

\* A step of the flash driver keeps the types of the pump and SessionInv.
LEMMA DriversPump ==
  ASSUME PumpTypeOK, SessionInv, Drivers
  PROVE  PumpTypeOK' /\ SessionInv'
<1> USE DEF PumpTypeOK, SessionInv, Session, CommitLabels, Labels, Goto, Finish,
            Reply, selVars
<1>1. CASE UnlockFlash
  BY <1>1 DEF UnlockFlash
<1>2. CASE LockFlash
  BY <1>2 DEF LockFlash
<1>3. CASE BeginWrite
  BY <1>3 DEF BeginWrite
<1>4. CASE Fill
  BY <1>4 DEF Fill
<1>5. CASE EndWrite
  BY <1>5 DEF EndWrite
<1>6. CASE EraseDone
  BY <1>6 DEF EraseDone
<1>7. CASE WriteDone
  BY <1>7 DEF WriteDone
<1>8. CASE JumpToProgram
  BY <1>8 DEF JumpToProgram
<1> QED
  BY <1>1, <1>2, <1>3, <1>4, <1>5, <1>6, <1>7, <1>8 DEF Drivers

FlashTypeOK ==
  /\ flashLocked \in BOOLEAN
  /\ cur \in Nat
  /\ tmp \in Buffer
  /\ rww \in BOOLEAN
  /\ mem \in [Pages -> Content]

\* A step of the flash driver keeps the types of its variables.
LEMMA DriversFlashType ==
  ASSUME TypeOK, Drivers
  PROVE  FlashTypeOK'
<1>1. flashLocked' \in BOOLEAN
  <2>1. flashLocked' = flashLocked \/ flashLocked' = TRUE \/ flashLocked' = FALSE
    BY Zenon DEF Drivers, UnlockFlash, LockFlash, LockedAgain, BeginWrite, Fill,
       EndWrite, EraseDone, WriteDone, JumpToProgram
  <2> QED
    BY <2>1, Zenon DEF TypeOK
<1>2. rww' \in BOOLEAN
  <2>1. rww' = rww \/ rww' = TRUE \/ rww' = FALSE
    BY Zenon DEF Drivers, UnlockFlash, LockFlash, BeginWrite, Fill,
       EndWrite, EraseDone, WriteDone, JumpToProgram, Reenabled
  <2> QED
    BY <2>1, Zenon DEF TypeOK
<1>3. cur' \in Nat
  <2>1. cur' = cur \/ cur' = addr \/ cur' = 0
    BY DEF Drivers, UnlockFlash, LockFlash, BeginWrite, Fill,
       EndWrite, EraseDone, WriteDone, JumpToProgram
  <2> QED
    BY <2>1 DEF TypeOK, PumpTypeOK
<1>4. tmp' \in Buffer
  <2>1. tmp' = tmp \/ tmp' = Loaded(writes) \/ tmp' = EmptyBuffer
    BY DEF Drivers, UnlockFlash, LockFlash, BeginWrite, Fill,
       EndWrite, EraseDone, WriteDone, JumpToProgram
  <2> QED
    BY <2>1, BufferFacts DEF TypeOK, PumpTypeOK
<1>5. mem' \in [Pages -> Content]
  <2>1. \/ mem' = mem
        \/ mem' = WithPage(Phys(cur), ErasedPage)
        \/ mem' = WithPage(Phys(cur), FromBuffer)
    BY DEF Drivers, UnlockFlash, LockFlash, BeginWrite, Fill,
       EndWrite, EraseDone, WriteDone, JumpToProgram
  <2>2. FromBuffer \in Content
    BY BufferFacts DEF TypeOK, PumpTypeOK
  <2> QED
    BY <2>1, <2>2, WithPageType, ContentFacts DEF TypeOK
<1> QED
  BY <1>1, <1>2, <1>3, <1>4, <1>5 DEF FlashTypeOK

\* So does a reset.
LEMMA ResetFlashType ==
  ASSUME TypeOK, Reset
  PROVE  FlashTypeOK'
<1>1. mem' \in [Pages -> Content]
  BY WithPageType, ContentFacts DEF Reset, TypeOK
<1> QED
  BY <1>1 DEF Reset, FlashTypeOK, EmptyBuffer, Buffer

\* The initial states have their types.
LEMMA InitType ==
  ASSUME Init
  PROVE  TypeOK /\ SessionInv
<1>1. mem \in [Pages -> Content] /\ tmp \in Buffer
  BY AvrAssumption DEF Init, EmptyBuffer, Buffer
<1> QED
  BY <1>1, PumpInitType DEF Init, TypeOK

\* Every step keeps the types.
LEMMA NextType ==
  ASSUME TypeOK, SessionInv, [Next]_vars
  PROVE  TypeOK' /\ SessionInv'
<1>1. CASE PumpStep /\ UNCHANGED flashVars
  BY <1>1, PumpStepType, PumpStepSession DEF TypeOK, flashVars
<1>2. CASE Drivers
  BY <1>2, DriversPump, DriversFlashType DEF TypeOK, FlashTypeOK
<1>3. CASE Listen
  BY <1>3, PumpEnvironmentType, PumpEnvironmentSession DEF Listen, TypeOK, flashVars
<1>4. CASE Expire
  BY <1>4, PumpEnvironmentType, PumpEnvironmentSession DEF Expire, TypeOK, flashVars
<1>5. CASE Reset
  <2>1. FlashTypeOK'
    BY <1>5, ResetFlashType
  <2> QED
    BY <1>5, <2>1, PumpEnvironmentType, PumpEnvironmentSession
    DEF Reset, TypeOK, FlashTypeOK
<1>6. CASE UNCHANGED vars
  BY <1>6 DEF vars, pumpVars, flashVars, TypeOK, PumpTypeOK, SessionInv, Handling
<1> QED
  BY <1>1, <1>2, <1>3, <1>4, <1>5, <1>6 DEF Next, Run, Main

\* Every state the device can be in is well typed (avr/flash.c, main.c).
THEOREM TypeCorrect == Spec => []TypeOK
<1>1. Init => TypeOK /\ SessionInv
  BY InitType
<1>2. TypeOK /\ SessionInv /\ [Next]_vars => (TypeOK /\ SessionInv)'
  BY NextType
<1> QED
  BY <1>1, <1>2, PTL DEF Spec

\* A session that a PROG_REQ has opened is ended by a PROG_DONE or a reset and
\* by nothing else: no time-out can come late (main.c:81-85).
THEOREM SessionsEndByRequest == Spec => OnlyProgDoneEndsSession
<1>1. Init => TypeOK /\ SessionInv
  BY InitType
<1>2. TypeOK /\ SessionInv /\ [Next]_vars => (TypeOK /\ SessionInv)'
  BY NextType
<1>3. TypeOK /\ SessionInv /\ [Next]_vars
        => [(state \in Session /\ state' = "DONE") => Handling("PROG_DONE")]_pumpVars
  <2> SUFFICES ASSUME TypeOK, SessionInv, [Next]_vars, ~ UNCHANGED pumpVars,
                      state \in Session, state' = "DONE"
               PROVE  Handling("PROG_DONE")
    OBVIOUS
  <2>1. ~ UNCHANGED vars
    BY DEF vars
  <2>2. CASE PumpStep \/ Listen \/ Expire \/ Reset
    BY <2>2, PumpStepSessionEnd DEF Listen, Expire, Reset
  <2>3. CASE Drivers
    BY <2>3 DEF Drivers, Session, UnlockFlash, LockFlash, BeginWrite, Fill,
       EndWrite, EraseDone, WriteDone, JumpToProgram
  <2> QED
    BY <2>1, <2>2, <2>3 DEF Next, Run, Main
<1> QED
  BY <1>1, <1>2, <1>3, PTL DEF Spec, OnlyProgDoneEndsSession

-----------------------------------------------------------------------------
(* The selected page *)

\* Every step preserves SelectedInv.
LEMMA NextSelected ==
  ASSUME SelectedInv, SessionInv, [Next]_vars
  PROVE  SelectedInv'
<1>1. CASE PumpStep
  BY <1>1, PumpStepSelected
<1>2. CASE Drivers
  BY <1>2 DEF SelectedInv, Drivers, UnlockFlash, LockFlash, BeginWrite,
     Fill, EndWrite, EraseDone, WriteDone, JumpToProgram, selVars
<1>3. CASE Listen \/ Expire \/ Reset
  BY <1>3, PumpEnvironmentSelected DEF Listen, Expire, Reset
<1>4. CASE UNCHANGED vars
  BY <1>4 DEF SelectedInv, vars, pumpVars
<1> QED
  BY <1>1, <1>2, <1>3, <1>4 DEF Next, Run, Main

-----------------------------------------------------------------------------
(* OpenInv: when `state' and the software lock agree *)

\* Every step preserves OpenInv.
LEMMA NextOpen ==
  ASSUME TypeOK, SessionInv, OpenInv, [Next]_vars
  PROVE  OpenInv'
<1> USE DEF OpenInv, SessionInv, CommitLabels
<1>1. CASE PumpStep /\ UNCHANGED flashVars
  BY <1>1 DEF flashVars, TypeOK, PumpTypeOK, States, Session, PumpStep, LeaveLoop,
     ProgReq, StopTimer, SetLocked, UnlockTest, UnlockSkipped, SetUnlocked, SelectPage,
     Seek, Write, CheckWrites, CommitTest, CommitAck, ProgDone, Unrecognised,
     Goto, Finish, Handling, TimerOff
<1>2. CASE Drivers
  BY <1>2 DEF Drivers, UnlockFlash, LockFlash, LockedAgain, BeginWrite, Fill, EndWrite,
     CanEnd, EraseDone, WriteDone, JumpToProgram, Reenabled, Goto, Finish
<1>3. CASE Listen \/ Expire
  BY <1>3 DEF Listen, Expire, Receive, Timeout, flashVars
<1>4. CASE Reset
  BY <1>4 DEF Reset, PumpReset, Start
<1>5. CASE UNCHANGED vars
  BY <1>5 DEF vars, pumpVars, flashVars
<1> QED
  BY <1>1, <1>2, <1>3, <1>4, <1>5 DEF Next, Run, Main

-----------------------------------------------------------------------------
(* CycleInv: where the WRITEs are, and what a refused commit leaves behind *)

\* A step of the flash driver preserves CycleInv.
LEMMA DriversCycle ==
  ASSUME IInv, Drivers
  PROVE  CycleInv'
<1> USE DEF IInv, CycleInv
<1>1. CASE UnlockFlash
  BY <1>1 DEF UnlockFlash, Goto
<1>2. CASE LockFlash
  BY <1>2 DEF LockFlash, LockedAgain, Goto
<1>3. CASE BeginWrite
  BY <1>3 DEF BeginWrite, Goto, selVars
<1>4. CASE Fill
  <2>1. tmp = EmptyBuffer => Loaded(writes) = writes
    BY BufferFacts DEF TypeOK, PumpTypeOK
  <2>2. state = "UNLOCKED" /\ timer # "armed"
    BY <1>4 DEF Fill, SessionInv, Session, CommitLabels
  <2> QED
    BY <1>4, <2>1, <2>2 DEF Fill, Goto, selVars
<1>5. CASE EndWrite
  BY <1>5 DEF EndWrite, CanEnd, Goto, Finish, selVars
<1>6. CASE EraseDone
  BY <1>6 DEF EraseDone, Goto, selVars
<1>7. CASE WriteDone
  <2>1. tmp = writes => FromBuffer = writes
    BY BufferFacts DEF TypeOK, PumpTypeOK
  <2>2. Phys(addr) \in Pages
    BY PhysIsPage DEF TypeOK, PumpTypeOK
  <2>3. mem'[Phys(addr)] = writes
    BY <1>7, <2>1, <2>2 DEF WriteDone, WithPage
  <2> QED
    BY <1>7, <2>3 DEF WriteDone, Goto, selVars
<1>8. CASE JumpToProgram
  BY <1>8 DEF JumpToProgram, Goto
<1> QED
  BY <1>1, <1>2, <1>3, <1>4, <1>5, <1>6, <1>7, <1>8 DEF Drivers

\* Every step preserves CycleInv.
LEMMA NextCycle ==
  ASSUME IInv, [Next]_vars
  PROVE  CycleInv'
<1> USE DEF IInv, CycleInv
<1>1. CASE PumpStep /\ UNCHANGED flashVars
  BY <1>1 DEF SessionInv, Session, CommitLabels, flashVars, PumpStep, LeaveLoop, ProgReq,
     StopTimer, SetLocked, UnlockTest, UnlockSkipped, SetUnlocked, SelectPage, Seek, Write,
     CheckWrites, CommitTest, CommitAck, ProgDone, Unrecognised, Goto, Finish, Handling, TimerOff
<1>2. CASE Drivers
  BY <1>2, DriversCycle
<1>3. CASE Listen \/ Expire
  BY <1>3 DEF Listen, Expire, Receive, Timeout, flashVars, selVars
<1>4. CASE Reset
  BY <1>4 DEF Reset, PumpReset, Start
<1>5. CASE UNCHANGED vars
  BY <1>5 DEF vars, pumpVars, flashVars
<1> QED
  BY <1>1, <1>2, <1>3, <1>4, <1>5 DEF Next, Run, Main

-----------------------------------------------------------------------------
(* AnswerInv: an answer stands only while flash and the buffer do *)

\* Every step preserves AnswerInv.
LEMMA NextAnswer ==
  ASSUME IInv, [Next]_vars
  PROVE  AnswerInv'
<1> USE DEF IInv, AnswerInv, CommitAckFaithful
<1>1. CASE PumpStep /\ UNCHANGED flashVars
  <2>1. CASE CommitAck
    <3>1. Phys(addr) \in Pages /\ mem[Phys(addr)] = writes
      BY <2>1, PhysIsPage DEF CommitAck, CycleInv, TypeOK, PumpTypeOK
    <3> QED
      BY <1>1, <2>1, <3>1 DEF CommitAck, Finish, WritesCommitted, flashVars, selVars
  <2>2. CASE ~CommitAck
    BY <1>1, <2>2 DEF flashVars, PumpStep, LeaveLoop, ProgReq, StopTimer, SetLocked,
       UnlockTest, UnlockSkipped, SetUnlocked, SelectPage, Seek, Write, CheckWrites,
       CommitTest, ProgDone, Unrecognised, Goto, Finish, Handling, selVars,
       NoReply, ProgReqResp, ProgDoneAck, Unlocked, PageSelected, WritesChecked
  <2> QED
    BY <2>1, <2>2
<1>2. CASE Drivers
  BY <1>2 DEF Drivers, UnlockFlash, LockFlash, BeginWrite, Fill, EndWrite, EraseDone,
     WriteDone, JumpToProgram, Goto, Finish, NoReply, selVars
<1>3. CASE Listen \/ Expire
  BY <1>3 DEF Listen, Expire, Receive, Timeout, flashVars, selVars, NoReply
<1>4. CASE Reset
  BY <1>4 DEF Reset, PumpReset, Start, NoReply
<1>5. CASE UNCHANGED vars
  BY <1>5 DEF vars, pumpVars, flashVars
<1> QED
  BY <1>1, <1>2, <1>3, <1>4, <1>5 DEF Next, Run, Main

-----------------------------------------------------------------------------
(* The inductive invariant and what follows from it *)

\* The inductive invariant holds initially.
LEMMA InitIInv ==
  ASSUME Init
  PROVE  IInv
<1>1. TypeOK /\ SessionInv
  BY InitType
<1>2. /\ state = "IDLE" /\ pc = "poll" /\ addr = 0 /\ out = NoReply
      /\ flashLocked = TRUE /\ tmp = EmptyBuffer
  BY DEF Init, PumpInit, Start
<1> QED
  BY <1>1, <1>2 DEF IInv, SelectedInv, OpenInv, CycleInv, AnswerInv, CommitAckFaithful,
     NoReply

\* Every step preserves the inductive invariant.
LEMMA NextIInv ==
  ASSUME IInv, [Next]_vars
  PROVE  IInv'
<1>1. TypeOK' /\ SessionInv'
  BY NextType DEF IInv
<1>2. SelectedInv' /\ OpenInv'
  BY NextSelected, NextOpen DEF IInv
<1>3. CycleInv' /\ AnswerInv'
  BY NextCycle, NextAnswer
<1> QED
  BY <1>1, <1>2, <1>3 DEF IInv

\* The invariant of every label of main() and of the flash driver.
THEOREM Invariance == Spec => []IInv
<1>1. Init => IInv
  BY InitIInv
<1>2. IInv /\ [Next]_vars => IInv'
  BY NextIInv
<1> QED
  BY <1>1, <1>2, PTL DEF Spec

\* An acknowledged page holds what was written to it (main.c:168-180).
THEOREM AcknowledgedIsStored == Spec => []CommitAckFaithful
<1>1. IInv => CommitAckFaithful
  BY DEF IInv, AnswerInv
<1> QED
  BY <1>1, Invariance, PTL

\* If no time-out has fired, a state of UNLOCKED can be trusted (main.c:98-109).
THEOREM UnlockedCanBeTrusted == Spec => []UnlockedIsOpen
<1>1. IInv => UnlockedIsOpen
  BY DEF IInv, OpenInv, UnlockedIsOpen
<1> QED
  BY <1>1, Invariance, PTL

\* The page being programmed is one a master may have (main.c:116-134).
THEOREM SelectedIsProper == Spec => []SelectedPage
<1>1. IInv => SelectedPage
  BY SelectedIsKnown DEF IInv, TypeOK, PumpTypeOK
<1> QED
  BY <1>1, Invariance, PTL

\* The user program finds flash locked and readable (main.c:196,
\* avr/flash.c:120).
THEOREM FlashIsReadyForUser == Spec => []HandOver
<1>1. IInv => HandOver
  BY DEF IInv, OpenInv, HandOver
<1> QED
  BY <1>1, Invariance, PTL

\* A commit of a page other than 0, with flash open, is acknowledged unless
\* the chip is reset (main.c:165-182).
THEOREM CommitsSucceed == Spec => CommitSucceeds
<1> DEFINE Succeeds == (/\ pc \in CommitLabels /\ pc' = "poll" /\ state' = "UNLOCKED"
                        /\ ~flashLocked /\ addr # 0)
                         => out' = WritesCommitted(addr)
<1>1. IInv /\ [Next]_vars => [Succeeds]_vars
  <2> SUFFICES ASSUME IInv, Next, pc \in CommitLabels, pc' = "poll",
                      state' = "UNLOCKED", ~flashLocked, addr # 0
               PROVE  out' = WritesCommitted(addr)
    OBVIOUS
  <2>1. CASE PumpStep
    BY <2>1 DEF CommitLabels, PumpStep, LeaveLoop, ProgReq, StopTimer, SetLocked,
       UnlockTest, UnlockSkipped, SetUnlocked, SelectPage, Seek, Write, CheckWrites,
       CommitTest, CommitAck, ProgDone, Unrecognised, Goto, Finish, Handling
  <2>2. CASE Drivers
    BY <2>2 DEF Drivers, UnlockFlash, LockFlash, BeginWrite, Fill, EndWrite, CanEnd,
       EraseDone, WriteDone, JumpToProgram, Goto, Finish, CommitLabels, IInv, CycleInv
  <2>3. CASE Listen \/ Expire \/ Reset
    BY <2>3 DEF Listen, Expire, Reset, Receive, Timeout, PumpReset, Start, CommitLabels
  <2> QED
    BY <2>1, <2>2, <2>3 DEF Next, Run, Main
<1> QED
  BY <1>1, Invariance, PTL DEF Spec, CommitSucceeds

\* A step that changes flash is one of three, and is made with flash open.
LEMMA ChangesOnlySelected ==
  ASSUME IInv, Next, NEW p \in Pages, mem'[p] # mem[p]
  PROVE  p = Phys(addr) /\ pc \in {"erasing", "writing"} /\ ~flashLocked
<1>1. CASE (PumpStep /\ UNCHANGED flashVars) \/ Listen \/ Expire
  BY <1>1 DEF Listen, Expire, flashVars
<1>2. CASE Drivers
  <2>1. p = Phys(addr) /\ pc \in {"erasing", "writing"}
    BY <1>2 DEF Drivers, UnlockFlash, LockFlash, BeginWrite, Fill, EndWrite, EraseDone,
       WriteDone, JumpToProgram, WithPage, IInv, CycleInv
  <2> QED
    BY <2>1 DEF IInv, OpenInv
<1>3. CASE Reset
  <2>1. p = Phys(addr) /\ pc \in {"erasing", "writing"}
    BY <1>3 DEF Reset, WithPage, IInv, CycleInv
  <2> QED
    BY <2>1 DEF IInv, OpenInv
<1> QED
  BY <1>1, <1>2, <1>3 DEF Next, Run, Main

\* Nothing but the page that the selected address stands for is ever changed,
\* and that only with the software lock open (avr/flash.c:49-100).
THEOREM ProgrammingIsDisciplined == Spec => ProgrammingDiscipline
<1> DEFINE Disciplined == \A p \in Pages : mem'[p] # mem[p] =>
                            p = Phys(addr) /\ ~flashLocked
<1>1. IInv /\ [Next]_vars => [Disciplined]_vars
  BY ChangesOnlySelected
<1> QED
  BY <1>1, Invariance, PTL DEF Spec, ProgrammingDiscipline

-----------------------------------------------------------------------------
(* The device implements PageStore *)

\* The initial states are initial states of PageStore.
LEMMA StoreInit ==
  ASSUME Init
  PROVE  Store!Init
<1>1. mem \in [Pages -> Content]
  BY InitType DEF TypeOK
<1> QED
  BY <1>1 DEF Init, PumpInit, Start, Store!Init, OpenPage, AckedPage, Store!NoAck,
     CommitLabels, NoReply

\* The value that stands for no page is not a page.
LEMMA FlashEndIsNoPage == FlashEnd \notin Pages
BY LayoutAssumption DEF Pages

\* A step of the pump is a step of PageStore, or a stutter.
LEMMA PumpStepRefines ==
  ASSUME IInv, PumpStep, UNCHANGED flashVars
  PROVE  Store!Next \/ UNCHANGED Store!storeVars
<1> USE DEF IInv
<1>0. UNCHANGED mem /\ Phys(addr) \in Pages
  BY PhysIsPage DEF flashVars, TypeOK, PumpTypeOK
<1>1. CASE CommitTest
  <2>1. pc \notin CommitLabels /\ AckedPage = <<>> /\ AckedPage' = <<>>
    BY <1>1 DEF CommitTest, Handling, CommitLabels, AnswerInv, AckedPage, Goto, Finish,
       NoReply, selVars
  <2>2. OpenPage = FlashEnd
    BY <2>1 DEF OpenPage
  <2>3. OpenPage' = FlashEnd \/ OpenPage' = Phys(addr)
    BY <1>1 DEF OpenPage, CommitTest, selVars
  <2>4. CASE OpenPage' = FlashEnd
    BY <1>0, <2>1, <2>2, <2>4 DEF Store!storeVars
  <2>5. CASE OpenPage' = Phys(addr)
    <3>1. Store!Open(Phys(addr))
      BY <1>0, <2>1, <2>2, <2>5 DEF Store!Open, Store!NoAck
    <3> QED
      BY <1>0, <3>1 DEF Store!Next
  <2> QED
    BY <2>3, <2>4, <2>5
<1>2. CASE CommitAck
  <2>1. mem[Phys(addr)] = writes
    BY <1>2 DEF CommitAck, CycleInv
  <2>2. OpenPage = Phys(addr) /\ OpenPage' = FlashEnd
    BY <1>2 DEF OpenPage, CommitAck, Finish, CommitLabels
  <2>3. AckedPage' = <<Phys(addr), writes>>
    BY <1>2 DEF CommitAck, Finish, WritesCommitted, AckedPage, selVars
  <2>4. Phys(addr) # FlashEnd
    BY <1>0, FlashEndIsNoPage
  <2>5. Store!Acknowledge
    BY <1>0, <2>1, <2>2, <2>3, <2>4 DEF Store!Acknowledge
  <2> QED
    BY <2>5 DEF Store!Next
<1>3. CASE LeaveLoop
  BY <1>0, <1>3 DEF LeaveLoop, Goto, OpenPage, AckedPage, CommitLabels, Store!storeVars,
     selVars
<1>4. CASE ~CommitTest /\ ~CommitAck /\ ~LeaveLoop
  <2>1. pc \notin CommitLabels /\ pc' \notin CommitLabels
    BY <1>4 DEF PumpStep, ProgReq, StopTimer, SetLocked, UnlockTest, UnlockSkipped,
       SetUnlocked, SelectPage, Seek, Write, CheckWrites, ProgDone, Unrecognised,
       Goto, Finish, Handling, CommitLabels
  <2>2. pc \notin {"poll", "exit", "jump", "user"}
    BY <1>4 DEF PumpStep, ProgReq, StopTimer, SetLocked, UnlockTest, UnlockSkipped,
       SetUnlocked, SelectPage, Seek, Write, CheckWrites, ProgDone, Unrecognised, Handling
  <2>3. out = NoReply
    BY <2>2 DEF AnswerInv
  <2>4. out'.type # "WRITES_COMMITTED"
    BY <1>4, <2>3 DEF PumpStep, ProgReq, StopTimer, SetLocked, UnlockTest, UnlockSkipped,
       SetUnlocked, SelectPage, Seek, Write, CheckWrites, ProgDone, Unrecognised,
       Goto, Finish, NoReply, ProgReqResp, ProgDoneAck, Unlocked, PageSelected, WritesChecked
  <2> QED
    BY <1>0, <2>1, <2>3, <2>4 DEF OpenPage, AckedPage, NoReply, Store!storeVars
<1> QED
  BY <1>1, <1>2, <1>3, <1>4

\* A step of the flash driver is a step of PageStore, or a stutter.
LEMMA DriversRefine ==
  ASSUME IInv, Drivers
  PROVE  Store!Next \/ UNCHANGED Store!storeVars
<1> USE DEF IInv
<1>0. Phys(addr) \in Pages /\ Phys(addr) # FlashEnd
  BY PhysIsPage, FlashEndIsNoPage DEF TypeOK, PumpTypeOK
<1>a. ASSUME NEW c \in Content, pc \in CommitLabels, pc' \in CommitLabels,
             UNCHANGED <<addr, writes, out>>, mem' = WithPage(Phys(addr), c)
      PROVE  Store!Next
  <2>1. OpenPage = Phys(addr) /\ OpenPage' = Phys(addr) /\ AckedPage' = AckedPage
    BY <1>a DEF OpenPage, AckedPage
  <2>2. mem' = [mem EXCEPT ![Phys(addr)] = c]
    BY <1>0, <1>a DEF WithPage, TypeOK
  <2> QED
    BY <1>0, <2>1, <2>2 DEF Store!Rewrite, Store!Edit, Store!Next
<1>1. CASE UnlockFlash \/ LockFlash \/ JumpToProgram
  BY <1>1 DEF UnlockFlash, LockFlash, JumpToProgram, Goto, selVars, OpenPage, AckedPage,
     CommitLabels, Store!storeVars
<1>2. CASE BeginWrite \/ Fill
  BY <1>2 DEF BeginWrite, Fill, Goto, selVars, OpenPage, AckedPage, CommitLabels,
     Store!storeVars
<1>3. CASE EndWrite
  <2>1. UNCHANGED mem /\ AckedPage = <<>> /\ AckedPage' = <<>> /\ OpenPage = Phys(addr)
    BY <1>3 DEF EndWrite, AnswerInv, AckedPage, OpenPage, Goto, Finish, NoReply, CommitLabels
  <2>2. OpenPage' = Phys(addr) \/ OpenPage' = FlashEnd
    BY <1>3 DEF EndWrite, OpenPage, selVars
  <2>3. CASE OpenPage' = Phys(addr)
    BY <2>1, <2>3 DEF Store!storeVars
  <2>4. CASE OpenPage' = FlashEnd
    <3>1. mem[Phys(addr)] \in Content /\ mem = [mem EXCEPT ![Phys(addr)] = mem[Phys(addr)]]
      BY <1>0 DEF TypeOK
    <3>2. Store!Abandon
      BY <1>0, <2>1, <2>4, <3>1 DEF Store!Abandon, Store!Rewrite, Store!NoAck
    <3> QED
      BY <3>2 DEF Store!Next
  <2> QED
    BY <2>2, <2>3, <2>4
<1>4. CASE EraseDone
  <2>1. pc \in CommitLabels /\ pc' \in CommitLabels /\ UNCHANGED <<addr, writes, out>>
    BY <1>4 DEF EraseDone, Goto, CommitLabels, selVars
  <2>2. mem' = WithPage(Phys(addr), ErasedPage)
    BY <1>4 DEF EraseDone, CycleInv
  <2> QED
    BY <1>a, <2>1, <2>2, ContentFacts
<1>5. CASE WriteDone
  <2>1. pc \in CommitLabels /\ pc' \in CommitLabels /\ UNCHANGED <<addr, writes, out>>
    BY <1>5 DEF WriteDone, Goto, CommitLabels, selVars
  <2>2. mem' = WithPage(Phys(addr), FromBuffer) /\ FromBuffer \in Content
    BY <1>5, BufferFacts DEF WriteDone, CycleInv, TypeOK, PumpTypeOK
  <2> QED
    BY <1>a, <2>1, <2>2
<1> QED
  BY <1>1, <1>2, <1>3, <1>4, <1>5 DEF Drivers

\* A reset abandons the open page.
LEMMA ResetRefines ==
  ASSUME IInv, Reset
  PROVE  Store!Next \/ UNCHANGED Store!storeVars
<1> USE DEF IInv
<1>1. OpenPage' = FlashEnd /\ AckedPage' = <<>>
  BY DEF Reset, PumpReset, Start, OpenPage, AckedPage, CommitLabels, NoReply
<1>2. mem' \in [Pages -> Content]
  BY ResetFlashType DEF FlashTypeOK
<1>3. Phys(addr) \in Pages /\ Phys(addr) # FlashEnd
  BY PhysIsPage, FlashEndIsNoPage DEF TypeOK, PumpTypeOK
<1>4. CASE OpenPage = FlashEnd
  <2>1. pc \notin CommitLabels
    BY <1>3, <1>4 DEF OpenPage
  <2>2. mem' = mem
    BY <2>1 DEF Reset, CommitLabels
  <2>3. Store!Taken
    BY <1>1, <1>4, <2>2 DEF Store!Taken, Store!NoAck
  <2> QED
    BY <2>3 DEF Store!Next
<1>5. CASE OpenPage # FlashEnd
  <2>1. OpenPage = Phys(addr)
    BY <1>5 DEF OpenPage
  <2>2. \A p \in Pages : p # Phys(addr) => mem'[p] = mem[p]
    BY ChangesOnlySelected DEF Next
  <2>3. mem' = [mem EXCEPT ![Phys(addr)] = mem'[Phys(addr)]]
    BY <1>2, <1>3, <2>2 DEF TypeOK
  <2>4. mem'[Phys(addr)] \in Content
    BY <1>2, <1>3
  <2>5. Store!Abandon
    BY <1>1, <1>5, <2>1, <2>3, <2>4 DEF Store!Abandon, Store!Rewrite, Store!NoAck
  <2> QED
    BY <2>5 DEF Store!Next
<1> QED
  BY <1>4, <1>5

\* Every step is a step of PageStore, or a stutter.
LEMMA NextRefines ==
  ASSUME IInv, [Next]_vars
  PROVE  [Store!Next]_(Store!storeVars)
<1>1. CASE Listen
  <2>1. UNCHANGED mem /\ AckedPage' = <<>> /\ OpenPage' = OpenPage
    BY <1>1 DEF Listen, Receive, flashVars, selVars, AckedPage, OpenPage, CommitLabels, NoReply
  <2>2. Store!Taken
    BY <2>1 DEF Store!Taken, Store!NoAck
  <2> QED
    BY <2>2 DEF Store!Next
<1>2. CASE Expire \/ UNCHANGED vars
  BY <1>2 DEF Expire, Timeout, vars, pumpVars, flashVars, selVars, AckedPage, OpenPage,
     Store!storeVars
<1>3. CASE PumpStep /\ UNCHANGED flashVars
  BY <1>3, PumpStepRefines
<1>4. CASE Drivers
  BY <1>4, DriversRefine
<1>5. CASE Reset
  BY <1>5, ResetRefines
<1> QED
  BY <1>1, <1>2, <1>3, <1>4, <1>5 DEF Next, Run, Main

\* The bootloader, interrupted and reset at any point, implements a store
\* whose pages change one at a time and whose acknowledgements are true.
THEOREM ImplementsPageStore == Spec => KeepsPages
<1>1. Init => Store!Init
  BY StoreInit
<1>2. IInv /\ [Next]_vars => [Store!Next]_(Store!storeVars)
  BY NextRefines
<1> QED
  BY <1>1, <1>2, Invariance, PTL DEF Spec, KeepsPages, Store!Spec

=============================================================================
