---------------------------- MODULE Stm32Proofs ----------------------------
(***************************************************************************)
(* Theorems about Stm32Device, for every layout of flash, every page size  *)
(* and every set of words and payloads; and about a master that programs   *)
(* the device over the bus (Programming), for every program and every way  *)
(* of computing the checksum.                                              *)
(***************************************************************************)
EXTENDS Programming, PumpProofs

\* Erased, junk and written pages are contents of a page.
LEMMA ContentFacts ==
  /\ ErasedPage \in Content
  /\ JunkPage \in Content
  /\ Page \subseteq Content
BY Stm32Assumption DEF ErasedPage, JunkPage, Content, Page, Cell

\* One more half word is a change within the page being filled.
LEMMA ProgrammedType ==
  ASSUME mem \in [Pages -> Content], NEW f \in Content
  PROVE  Programmed(f) \in [Pages -> Content]
BY DEF Programmed, Content

-----------------------------------------------------------------------------
(* Type correctness, with SessionInv that it leans on *)

\* The drivers keep the pump's part of the invariant: they only move `pc',
\* and answer nothing.
LEMMA DriversPump ==
  ASSUME PumpTypeOK, SessionInv, Drivers
  PROVE  PumpTypeOK' /\ SessionInv'
<1> USE DEF PumpTypeOK, SessionInv, Session, CommitLabels, Labels, Goto, Finish,
            Reply, selVars
<1>1. CASE UnlockFlash
  BY <1>1 DEF UnlockFlash
<1>2. CASE LockFlash
  BY <1>2 DEF LockFlash
<1>3. CASE BeginWrite
  BY <1>3 DEF BeginWrite
<1>4. CASE EraseDone
  BY <1>4 DEF EraseDone
<1>5. CASE FillHalfWord
  BY <1>5 DEF FillHalfWord
<1>6. CASE FillDone
  BY <1>6 DEF FillDone
<1>7. CASE EndWrite
  BY <1>7 DEF EndWrite
<1>8. CASE JumpToProgram
  BY <1>8 DEF JumpToProgram
<1> QED
  BY <1>1, <1>2, <1>3, <1>4, <1>5, <1>6, <1>7, <1>8 DEF Drivers

FlashTypeOK ==
  /\ lock \in {"locked", "unlocked", "jammed"}
  /\ pg \in BOOLEAN
  /\ cur \in Nat
  /\ fillPos \in Nat
  /\ mem \in [Pages -> Content]

\* A step of the flash driver keeps the types of its variables.
LEMMA DriversFlashType ==
  ASSUME TypeOK, Drivers
  PROVE  FlashTypeOK'
<1> USE DEF TypeOK, FlashTypeOK, flashVars
<1>1. CASE UnlockFlash
  BY <1>1 DEF UnlockFlash
<1>2. CASE LockFlash
  BY <1>2 DEF LockFlash, SetLock
<1>3. CASE BeginWrite
  BY <1>3 DEF BeginWrite
<1>4. CASE EraseDone
  <2>1. [p \in Pages |-> IF p = addr THEN ErasedPage ELSE mem[p]] \in [Pages -> Content]
    BY ContentFacts
  <2>2. mem' \in [Pages -> Content] /\ lock' = lock
    BY <1>4, <2>1 DEF EraseDone
  <2>3. pg' \in BOOLEAN /\ cur' \in Nat /\ fillPos' \in Nat
    BY <1>4 DEF EraseDone, PumpTypeOK
  <2> QED
    BY <2>2, <2>3
<1>5. CASE FillHalfWord
  <2>1. Programmed(writes) \in [Pages -> Content]
    BY ContentFacts, ProgrammedType DEF PumpTypeOK
  <2> QED
    BY <1>5, <2>1 DEF FillHalfWord
<1>6. CASE FillDone
  BY <1>6 DEF FillDone
<1>7. CASE EndWrite
  <2>1. pg' \in BOOLEAN
    <3>1. pg' = pg \/ pg' = FALSE
      BY <1>7, Zenon DEF EndWrite
    <3> QED
      BY <3>1, Zenon
  <2>2. cur' \in Nat
    BY <1>7 DEF EndWrite
  <2> QED
    BY <1>7, <2>1, <2>2 DEF EndWrite
<1>8. CASE JumpToProgram
  BY <1>8 DEF JumpToProgram
<1> QED
  BY <1>1, <1>2, <1>3, <1>4, <1>5, <1>6, <1>7, <1>8 DEF Drivers

\* So does a reset.
LEMMA ResetFlashType ==
  ASSUME TypeOK, Reset
  PROVE  FlashTypeOK'
<1>1. Programmed(JunkPage) \in [Pages -> Content]
  BY ContentFacts, ProgrammedType DEF TypeOK
<1>2. [p \in Pages |-> IF p = addr THEN JunkPage ELSE mem[p]] \in [Pages -> Content]
  BY ContentFacts DEF TypeOK
<1>3. mem' \in [Pages -> Content]
  BY <1>1, <1>2 DEF Reset, Torn, TypeOK
<1> QED
  BY <1>3 DEF Reset, IdleFlash, FlashTypeOK

\* The initial states have their types.
LEMMA InitType ==
  ASSUME Init
  PROVE  TypeOK /\ SessionInv
<1>1. mem \in [Pages -> Content]
  BY Stm32Assumption DEF Init
<1> QED
  BY <1>1, PumpInitType DEF Init, TypeOK

\* Every step keeps the types.
LEMMA NextType ==
  ASSUME TypeOK, SessionInv, [Next]_vars
  PROVE  TypeOK' /\ SessionInv'
<1>1. CASE PumpStep /\ UNCHANGED flashVars
  BY <1>1, PumpStepType, PumpStepSession DEF TypeOK, flashVars
<1>2. CASE Drivers
  BY <1>2, DriversPump, DriversFlashType DEF TypeOK, FlashTypeOK
<1>3. CASE Listen
  BY <1>3, PumpEnvironmentType, PumpEnvironmentSession DEF Listen, TypeOK, flashVars
<1>4. CASE Expire
  BY <1>4, PumpEnvironmentType, PumpEnvironmentSession DEF Expire, TypeOK, flashVars
<1>5. CASE Reset
  <2>1. FlashTypeOK'
    BY <1>5, ResetFlashType
  <2> QED
    BY <1>5, <2>1, PumpEnvironmentType, PumpEnvironmentSession
    DEF Reset, TypeOK, FlashTypeOK
<1>6. CASE UNCHANGED vars
  BY <1>6 DEF vars, pumpVars, flashVars, TypeOK, PumpTypeOK, SessionInv, Handling
<1> QED
  BY <1>1, <1>2, <1>3, <1>4, <1>5, <1>6 DEF Next, Run, Main

\* Every state the device can be in is well typed (stm32/flash.c, main.c).
THEOREM TypeCorrect == Spec => []TypeOK
<1>1. Init => TypeOK /\ SessionInv
  BY InitType
<1>2. TypeOK /\ SessionInv /\ [Next]_vars => (TypeOK /\ SessionInv)'
  BY NextType
<1> QED
  BY <1>1, <1>2, PTL DEF Spec

\* A session that a PROG_REQ has opened is ended by a PROG_DONE or a reset and
\* by nothing else: no time-out can come late (main.c:81-85).
THEOREM SessionsEndByRequest == Spec => OnlyProgDoneEndsSession
<1>1. Init => TypeOK /\ SessionInv
  BY InitType
<1>2. TypeOK /\ SessionInv /\ [Next]_vars => (TypeOK /\ SessionInv)'
  BY NextType
<1>3. TypeOK /\ SessionInv /\ [Next]_vars
        => [(state \in Session /\ state' = "DONE") => Handling("PROG_DONE")]_pumpVars
  <2> SUFFICES ASSUME TypeOK, SessionInv, [Next]_vars, ~ UNCHANGED pumpVars,
                      state \in Session, state' = "DONE"
               PROVE  Handling("PROG_DONE")
    OBVIOUS
  <2>1. ~ UNCHANGED vars
    BY DEF vars
  <2>2. CASE PumpStep \/ Listen \/ Expire \/ Reset
    BY <2>2, PumpStepSessionEnd DEF Listen, Expire, Reset
  <2>3. CASE Drivers
    BY <2>3 DEF Drivers, Session, UnlockFlash, LockFlash, BeginWrite, EraseDone,
       FillHalfWord, FillDone, EndWrite, JumpToProgram
  <2> QED
    BY <2>1, <2>2, <2>3 DEF Next, Run, Main
<1> QED
  BY <1>1, <1>2, <1>3, PTL DEF Spec, OnlyProgDoneEndsSession

-----------------------------------------------------------------------------
(* The selected page *)

\* A page of flash that has been selected belongs to the application.
LEMMA SelectedIsApp ==
  ASSUME SelectedInv, addr \in Pages
  PROVE  addr \in AppPages
BY LayoutAssumption, Stm32Assumption
DEF SelectedInv, PageWriteable, Pages, AppPages, AppStart, AppEnd

\* Every step preserves SelectedInv.
LEMMA NextSelected ==
  ASSUME SelectedInv, SessionInv, [Next]_vars
  PROVE  SelectedInv'
<1>1. CASE PumpStep
  BY <1>1, PumpStepSelected
<1>2. CASE Drivers
  BY <1>2 DEF SelectedInv, Drivers, UnlockFlash, LockFlash, BeginWrite,
     EraseDone, FillHalfWord, FillDone, EndWrite, JumpToProgram, selVars
<1>3. CASE Listen \/ Expire \/ Reset
  BY <1>3, PumpEnvironmentSelected DEF Listen, Expire, Reset
<1>4. CASE UNCHANGED vars
  BY <1>4 DEF SelectedInv, vars, pumpVars
<1> QED
  BY <1>1, <1>2, <1>3, <1>4 DEF Next, Run, Main

-----------------------------------------------------------------------------
(* OpenInv: when `state' and the controller's LOCK bit agree *)

\* Every step preserves OpenInv.
LEMMA NextOpen ==
  ASSUME TypeOK, SessionInv, OpenInv, [Next]_vars
  PROVE  OpenInv'
<1> USE DEF OpenInv, SessionInv, CommitLabels
<1>1. CASE PumpStep /\ UNCHANGED flashVars
  BY <1>1 DEF flashVars, TypeOK, PumpTypeOK, States, Session, PumpStep, LeaveLoop,
     ProgReq, StopTimer, SetLocked, UnlockTest, UnlockSkipped, SetUnlocked, SelectPage,
     Seek, Write, CheckWrites, CommitTest, CommitAck, ProgDone, Unrecognised,
     Goto, Finish, Handling, TimerOff
<1>2. CASE Drivers
  BY <1>2 DEF Drivers, UnlockFlash, LockFlash, SetLock, BeginWrite, CanBegin,
     EraseDone, FillHalfWord, FillDone, EndWrite, JumpToProgram, flashVars, Goto, Finish
<1>3. CASE Listen \/ Expire
  BY <1>3 DEF Listen, Expire, Receive, Timeout, flashVars
<1>4. CASE Reset
  BY <1>4 DEF Reset, PumpReset, Start
<1>5. CASE UNCHANGED vars
  BY <1>5 DEF vars, pumpVars, flashVars
<1> QED
  BY <1>1, <1>2, <1>3, <1>4, <1>5 DEF Next, Run, Main

-----------------------------------------------------------------------------
(* CycleInv: how far the programming of the selected page has come *)

\* Programming the half word at fillPos extends the part of the page that
\* holds the WRITEs by these two bytes.
LEMMA ProgrammedPrefix ==
  ASSUME TypeOK, cur \in Pages,
         \A i \in Index : i < fillPos => mem[cur][i] = writes[i]
  PROVE  \A i \in Index : i < fillPos + 2 => Programmed(writes)[cur][i] = writes[i]
<1> SUFFICES ASSUME NEW i \in Index, i < fillPos + 2
             PROVE  Programmed(writes)[cur][i] = writes[i]
  OBVIOUS
<1>1. Programmed(writes)[cur][i]
        = IF i \in HalfWord(fillPos) THEN writes[i] ELSE mem[cur][i]
  BY DEF Programmed
<1>2. i < fillPos \/ i \in HalfWord(fillPos)
  BY LayoutAssumption DEF Index, HalfWord, TypeOK
<1> QED
  BY <1>1, <1>2

\* A page that agrees with the buffer at every byte is the buffer.
LEMMA WholePage ==
  ASSUME TypeOK, cur \in Pages, fillPos >= PageSize,
         \A i \in Index : i < fillPos => mem[cur][i] = writes[i]
  PROVE  mem[cur] = writes
<1>1. \A i \in Index : mem[cur][i] = writes[i]
  BY LayoutAssumption DEF Index, TypeOK
<1>2. mem[cur] \in Content /\ writes \in Page
  BY DEF TypeOK, PumpTypeOK
<1> QED
  BY <1>1, <1>2 DEF Content, Page

\* A step of the flash driver preserves CycleInv.
LEMMA DriversCycle ==
  ASSUME IInv, Drivers
  PROVE  CycleInv'
<1> USE DEF IInv, CycleInv
<1>1. CASE UnlockFlash
  BY <1>1 DEF UnlockFlash, Goto, Finish
<1>2. CASE LockFlash
  BY <1>2 DEF LockFlash, Goto
<1>3. CASE BeginWrite
  BY <1>3 DEF BeginWrite, Goto, Finish
<1>4. CASE EraseDone
  <2>1. pc' = "fill" /\ cur' = addr' /\ fillPos' = 0
    BY <1>4 DEF EraseDone, Goto, selVars
  <2> QED
    BY <2>1
<1>5. CASE FillHalfWord
  <2>1. CASE cur \in Pages
    <3>1. \A i \in Index : i < fillPos => mem[cur][i] = writes[i]
      BY <1>5, <2>1, LayoutAssumption DEF FillHalfWord, Index, TypeOK
    <3>2. \A i \in Index : i < fillPos + 2 => mem'[cur][i] = writes[i]
      BY <1>5, <2>1, <3>1, ProgrammedPrefix DEF FillHalfWord
    <3> QED
      BY <1>5, <2>1, <3>2 DEF FillHalfWord, selVars
  <2>2. CASE cur \notin Pages
    BY <1>5, <2>2 DEF FillHalfWord, Goto
  <2> QED
    BY <2>1, <2>2
<1>6. CASE FillDone
  <2>1. cur = 0 \/ (cur \in Pages /\ mem[cur] = writes)
    BY <1>6, WholePage, LayoutAssumption DEF FillDone, MoreToFill, TypeOK
  <2> QED
    BY <1>6, <2>1 DEF FillDone, Goto, flashVars, selVars
<1>7. CASE EndWrite
  BY <1>7 DEF EndWrite, Goto, Finish, selVars
<1>8. CASE JumpToProgram
  BY <1>8 DEF JumpToProgram, Goto
<1> QED
  BY <1>1, <1>2, <1>3, <1>4, <1>5, <1>6, <1>7, <1>8 DEF Drivers

\* Every step preserves CycleInv.
LEMMA NextCycle ==
  ASSUME IInv, [Next]_vars
  PROVE  CycleInv'
<1> USE DEF IInv, CycleInv
<1>1. CASE PumpStep /\ UNCHANGED flashVars
  BY <1>1 DEF flashVars, PumpStep, LeaveLoop, ProgReq, StopTimer, SetLocked,
     UnlockTest, UnlockSkipped, SetUnlocked, SelectPage, Seek, Write, CheckWrites,
     CommitTest, CommitAck, ProgDone, Unrecognised, Goto, Finish, Handling
<1>2. CASE Drivers
  BY <1>2, DriversCycle
<1>3. CASE Listen \/ Expire
  BY <1>3 DEF Listen, Expire, Receive, Timeout, flashVars, selVars
<1>4. CASE Reset
  BY <1>4 DEF Reset, PumpReset, Start
<1>5. CASE UNCHANGED vars
  BY <1>5 DEF vars, pumpVars, flashVars
<1> QED
  BY <1>1, <1>2, <1>3, <1>4, <1>5 DEF Next, Run, Main

-----------------------------------------------------------------------------
(* AnswerInv: an answer stands only while flash and the buffer do *)

\* Every step preserves AnswerInv.
LEMMA NextAnswer ==
  ASSUME IInv, [Next]_vars
  PROVE  AnswerInv'
<1> USE DEF IInv, AnswerInv, CommitAckFaithful
<1>1. CASE PumpStep /\ UNCHANGED flashVars
  <2>1. CASE CommitAck
    BY <1>1, <2>1 DEF CommitAck, CycleInv, Finish, WritesCommitted, flashVars, selVars
  <2>2. CASE ~CommitAck
    BY <1>1, <2>2 DEF flashVars, PumpStep, LeaveLoop, ProgReq, StopTimer, SetLocked,
       UnlockTest, UnlockSkipped, SetUnlocked, SelectPage, Seek, Write, CheckWrites,
       CommitTest, ProgDone, Unrecognised, Goto, Finish, Handling, selVars,
       NoReply, ProgReqResp, ProgDoneAck, Unlocked, PageSelected, WritesChecked
  <2> QED
    BY <2>1, <2>2
<1>2. CASE Drivers
  BY <1>2 DEF Drivers, UnlockFlash, LockFlash, BeginWrite, EraseDone, FillHalfWord,
     FillDone, EndWrite, JumpToProgram, flashVars, Goto, Finish, NoReply, selVars
<1>3. CASE Listen \/ Expire
  BY <1>3 DEF Listen, Expire, Receive, Timeout, flashVars, selVars, NoReply
<1>4. CASE Reset
  BY <1>4 DEF Reset, PumpReset, Start, NoReply
<1>5. CASE UNCHANGED vars
  BY <1>5 DEF vars, pumpVars, flashVars
<1> QED
  BY <1>1, <1>2, <1>3, <1>4, <1>5 DEF Next, Run, Main

-----------------------------------------------------------------------------
(* The inductive invariant and what follows from it *)

\* The inductive invariant holds initially.
LEMMA InitIInv ==
  ASSUME Init
  PROVE  IInv
<1>1. TypeOK /\ SessionInv
  BY InitType
<1>2. state = "IDLE" /\ pc = "poll" /\ addr = 0 /\ out = NoReply /\ lock = "locked"
  BY DEF Init, PumpInit, Start
<1> QED
  BY <1>1, <1>2 DEF IInv, SelectedInv, OpenInv, CycleInv, AnswerInv, CommitAckFaithful,
     CommitLabels, NoReply

\* Every step preserves the inductive invariant.
LEMMA NextIInv ==
  ASSUME IInv, [Next]_vars
  PROVE  IInv'
<1>1. TypeOK' /\ SessionInv'
  BY NextType DEF IInv
<1>2. SelectedInv' /\ OpenInv'
  BY NextSelected, NextOpen DEF IInv
<1>3. CycleInv' /\ AnswerInv'
  BY NextCycle, NextAnswer
<1> QED
  BY <1>1, <1>2, <1>3 DEF IInv

\* The invariant of every label of main() and of the flash driver.
THEOREM Invariance == Spec => []IInv
<1>1. Init => IInv
  BY InitIInv
<1>2. IInv /\ [Next]_vars => IInv'
  BY NextIInv
<1> QED
  BY <1>1, <1>2, PTL DEF Spec

\* An acknowledged page holds what was written to it (main.c:168-180).
THEOREM AcknowledgedIsStored == Spec => []CommitAckFaithful
<1>1. IInv => CommitAckFaithful
  BY DEF IInv, AnswerInv
<1> QED
  BY <1>1, Invariance, PTL

\* If no time-out has fired, a state of UNLOCKED can be trusted (main.c:98-109).
THEOREM UnlockedCanBeTrusted == Spec => []UnlockedIsOpen
<1>1. IInv => UnlockedIsOpen
  BY DEF IInv, OpenInv, UnlockedIsOpen
<1> QED
  BY <1>1, Invariance, PTL

\* The page being programmed is one a master may have (main.c:116-134).
THEOREM SelectedIsProper == Spec => []SelectedPage
<1>1. IInv => SelectedPage
  BY SelectedIsKnown DEF IInv, TypeOK, PumpTypeOK
<1> QED
  BY <1>1, Invariance, PTL

\* The user program never finds the flash controller unlocked (main.c:196).
THEOREM FlashIsLockedForUser == Spec => []HandOver
<1>1. IInv => HandOver
  BY DEF IInv, OpenInv, HandOver
<1> QED
  BY <1>1, Invariance, PTL

\* A commit of a selected page, with flash open, is acknowledged unless the
\* chip is reset or faults (main.c:165-182).
THEOREM CommitsSucceed == Spec => CommitSucceeds
<1> DEFINE Succeeds == (/\ pc \in CommitLabels /\ pc' = "poll" /\ state' = "UNLOCKED"
                        /\ lock = "unlocked" /\ PageWriteable(addr))
                         => out' = WritesCommitted(addr)
<1>1. IInv /\ [Next]_vars => [Succeeds]_vars
  <2> SUFFICES ASSUME IInv, Next, pc \in CommitLabels, pc' = "poll",
                      state' = "UNLOCKED", lock = "unlocked", PageWriteable(addr)
               PROVE  out' = WritesCommitted(addr)
    OBVIOUS
  <2>1. CASE PumpStep
    BY <2>1 DEF CommitLabels, PumpStep, LeaveLoop, ProgReq, StopTimer, SetLocked,
       UnlockTest, UnlockSkipped, SetUnlocked, SelectPage, Seek, Write, CheckWrites,
       CommitTest, CommitAck, ProgDone, Unrecognised, Goto, Finish, Handling
  <2>2. CASE Drivers
    <3>1. addr # 0
      BY LayoutAssumption, Stm32Assumption DEF PageWriteable, AppStart
    <3> QED
      BY <2>2, <3>1 DEF Drivers, UnlockFlash, LockFlash, BeginWrite, CanBegin, EraseDone,
         FillHalfWord, FillDone, EndWrite, JumpToProgram, Goto, Finish, CommitLabels,
         IInv, CycleInv
  <2>3. CASE Listen \/ Expire \/ Reset
    BY <2>3 DEF Listen, Expire, Reset, Receive, Timeout, PumpReset, Start, CommitLabels
  <2> QED
    BY <2>1, <2>2, <2>3 DEF Next, Run, Main
<1> QED
  BY <1>1, Invariance, PTL DEF Spec, CommitSucceeds

\* Flash changes in the selected page, in a COMMIT_WRITES whose erase has begun.
LEMMA MemChange ==
  ASSUME IInv, [Next]_vars, NEW p \in Pages, mem'[p] # mem[p]
  PROVE  p = addr /\ pc \in CommitLabels \ {"begin"}
<1>1. CASE (PumpStep /\ UNCHANGED flashVars) \/ Listen \/ Expire \/ UNCHANGED vars
  BY <1>1 DEF Listen, Expire, flashVars, vars
<1>2. CASE Drivers
  BY <1>2 DEF Drivers, UnlockFlash, LockFlash, BeginWrite, EraseDone, FillHalfWord,
     FillDone, EndWrite, JumpToProgram, flashVars, IInv, TypeOK, CycleInv,
     CommitLabels, Programmed
<1>3. CASE Reset
  BY <1>3 DEF Reset, Torn, IInv, TypeOK, CycleInv, CommitLabels, Programmed
<1> QED
  BY <1>1, <1>2, <1>3 DEF Next, Run, Main

\* Nothing but the selected application page is ever changed, and that only
\* by an unlocked controller (main.c:166-176, stm32/flash.c:84-147).
THEOREM ProgrammingIsDisciplined == Spec => ProgrammingDiscipline
<1> DEFINE Disciplined == \A p \in Pages : mem'[p] # mem[p] =>
                            p = addr /\ p \in AppPages /\ lock = "unlocked"
<1>1. IInv /\ [Next]_vars => [Disciplined]_vars
  <2> SUFFICES ASSUME IInv, Next, NEW p \in Pages, mem'[p] # mem[p]
               PROVE  p = addr /\ p \in AppPages /\ lock = "unlocked"
    OBVIOUS
  <2>1. p = addr /\ pc \in CommitLabels \ {"begin"}
    BY MemChange
  <2> QED
    BY <2>1, SelectedIsApp DEF IInv, OpenInv
<1> QED
  BY <1>1, Invariance, PTL DEF Spec, ProgrammingDiscipline

-----------------------------------------------------------------------------
(* The device implements PageStore *)

\* The flash of the application after one of its pages has been changed.
LEMMA StoreRewrite ==
  ASSUME TypeOK, NEW q \in AppPages, NEW c \in Content,
         mem' = [p \in Pages |-> IF p = q THEN c ELSE mem[p]]
  PROVE  Store!Rewrite(q, c)
<1>1. AppStore' = [p \in AppPages |-> IF p = q THEN c ELSE mem[p]]
  BY DEF AppStore, AppPages
<1> QED
  BY <1>1 DEF Store!Rewrite, AppStore

\* The initial states are initial states of PageStore.
LEMMA StoreInit ==
  ASSUME Init
  PROVE  Store!Init
<1>1. AppStore \in [AppPages -> Content]
  BY InitType DEF TypeOK, AppStore, AppPages
<1> QED
  BY <1>1 DEF Init, PumpInit, Start, Store!Init, OpenPage, AckedPage, Store!NoAck,
     CommitLabels, NoReply

\* FlashEnd stands for no page; 0 is not a page of this chip either.
LEMMA NotPages == FlashEnd \notin Pages /\ 0 \notin Pages
BY LayoutAssumption, Stm32Assumption DEF Pages

\* A step of the pump is a step of PageStore, or a stutter.
LEMMA PumpStepRefines ==
  ASSUME IInv, PumpStep, UNCHANGED flashVars
  PROVE  Store!Next \/ UNCHANGED Store!storeVars
<1> USE DEF IInv
<1>0. UNCHANGED AppStore
  BY DEF AppStore, flashVars
<1>1. CASE CommitTest
  <2>1. pc \notin CommitLabels /\ AckedPage = <<>> /\ AckedPage' = <<>>
    BY <1>1 DEF CommitTest, Handling, CommitLabels, AnswerInv, AckedPage, Goto, Finish,
       NoReply, selVars
  <2>2. OpenPage = FlashEnd
    BY <2>1 DEF OpenPage
  <2>3. OpenPage' = FlashEnd \/ OpenPage' \in AppPages
    BY <1>1 DEF OpenPage, CommitTest, selVars
  <2>4. CASE OpenPage' = FlashEnd
    BY <1>0, <2>1, <2>2, <2>4 DEF Store!storeVars
  <2>5. CASE OpenPage' \in AppPages
    <3>1. Store!Open(OpenPage')
      BY <1>0, <2>1, <2>2 DEF Store!Open, Store!NoAck
    <3> QED
      BY <2>5, <3>1 DEF Store!Next
  <2> QED
    BY <2>3, <2>4, <2>5
<1>2. CASE CommitAck
  <2>1. addr \in AppPages /\ mem[addr] = writes
    BY <1>2, SelectedIsApp DEF CommitAck, CycleInv
  <2>2. OpenPage = addr /\ OpenPage' = FlashEnd
    BY <1>2, <2>1 DEF OpenPage, CommitAck, Finish, CommitLabels
  <2>3. AckedPage' = <<addr, writes>>
    BY <1>2 DEF CommitAck, Finish, WritesCommitted, AckedPage, selVars
  <2>4. addr # FlashEnd /\ AppStore[addr] = writes
    BY <2>1, NotPages DEF AppPages, AppStore
  <2>5. Store!Acknowledge
    BY <1>0, <2>2, <2>3, <2>4 DEF Store!Acknowledge
  <2> QED
    BY <2>5 DEF Store!Next
<1>3. CASE LeaveLoop
  BY <1>0, <1>3 DEF LeaveLoop, Goto, OpenPage, AckedPage, CommitLabels, Store!storeVars,
     selVars
<1>4. CASE ~CommitTest /\ ~CommitAck /\ ~LeaveLoop
  <2>1. pc \notin CommitLabels /\ pc' \notin CommitLabels
    BY <1>4 DEF PumpStep, ProgReq, StopTimer, SetLocked, UnlockTest, UnlockSkipped,
       SetUnlocked, SelectPage, Seek, Write, CheckWrites, ProgDone, Unrecognised,
       Goto, Finish, Handling, CommitLabels
  <2>2. pc \notin {"poll", "exit", "jump", "user"}
    BY <1>4 DEF PumpStep, ProgReq, StopTimer, SetLocked, UnlockTest, UnlockSkipped,
       SetUnlocked, SelectPage, Seek, Write, CheckWrites, ProgDone, Unrecognised, Handling
  <2>3. out = NoReply
    BY <2>2 DEF AnswerInv
  <2>4. out'.type # "WRITES_COMMITTED"
    BY <1>4, <2>3 DEF PumpStep, ProgReq, StopTimer, SetLocked, UnlockTest, UnlockSkipped,
       SetUnlocked, SelectPage, Seek, Write, CheckWrites, ProgDone, Unrecognised,
       Goto, Finish, NoReply, ProgReqResp, ProgDoneAck, Unlocked, PageSelected, WritesChecked
  <2> QED
    BY <1>0, <2>1, <2>3, <2>4 DEF OpenPage, AckedPage, NoReply, Store!storeVars
<1> QED
  BY <1>1, <1>2, <1>3, <1>4

\* A step of the flash driver is a step of PageStore, or a stutter.
LEMMA DriversRefine ==
  ASSUME IInv, Drivers
  PROVE  Store!Next \/ UNCHANGED Store!storeVars
<1> USE DEF IInv
<1>a. ASSUME NEW c \in Content, pc \in CommitLabels, pc' \in CommitLabels, addr \in AppPages,
             UNCHANGED <<addr, writes, out>>,
             mem' = [p \in Pages |-> IF p = addr THEN c ELSE mem[p]]
      PROVE  Store!Next
  <2>1. OpenPage = addr /\ OpenPage' = addr /\ AckedPage' = AckedPage
    BY <1>a DEF OpenPage, AckedPage
  <2>2. addr # FlashEnd
    BY <1>a, NotPages DEF AppPages
  <2>3. Store!Rewrite(OpenPage, c)
    BY <1>a, <2>1, StoreRewrite
  <2> QED
    BY <1>a, <2>1, <2>2, <2>3 DEF Store!Edit, Store!Next
<1>1. CASE UnlockFlash \/ LockFlash \/ JumpToProgram
  BY <1>1 DEF UnlockFlash, LockFlash, JumpToProgram, Goto, Finish, flashVars, selVars,
     AppStore, OpenPage, AckedPage, CommitLabels, AnswerInv, NoReply, Store!storeVars
<1>2. CASE BeginWrite
  <2>1. UNCHANGED AppStore /\ AckedPage = <<>> /\ AckedPage' = <<>>
    BY <1>2 DEF BeginWrite, AppStore, flashVars, AnswerInv, AckedPage, Goto, Finish, NoReply
  <2>2. CASE OpenPage' = OpenPage
    BY <2>1, <2>2 DEF Store!storeVars
  <2>3. CASE OpenPage' # OpenPage
    <3>1. addr \in AppPages /\ OpenPage = addr /\ OpenPage' = FlashEnd
      BY <1>2, <2>3 DEF BeginWrite, OpenPage, Goto, Finish, CommitLabels, selVars
    <3>2. addr # FlashEnd
      BY <3>1, NotPages DEF AppPages
    <3>3. mem[addr] \in Content
      BY <3>1 DEF AppPages, TypeOK
    <3>4. AppStore' = [AppStore EXCEPT ![addr] = mem[addr]]
      BY <2>1, <3>1 DEF AppStore
    <3>5. Store!Abandon
      BY <2>1, <3>1, <3>2, <3>3, <3>4 DEF Store!Abandon, Store!Rewrite, Store!NoAck
    <3> QED
      BY <3>5 DEF Store!Next
  <2> QED
    BY <2>2, <2>3
<1>3. CASE EraseDone
  <2>1. pc \in CommitLabels /\ pc' \in CommitLabels /\ UNCHANGED <<addr, writes, out>>
    BY <1>3 DEF EraseDone, Goto, CommitLabels, selVars
  <2>2. CASE addr \in AppPages
    BY <1>3, <1>a, <2>1, <2>2, ContentFacts DEF EraseDone
  <2>3. CASE addr \notin AppPages
    <3>1. addr \notin Pages
      BY <2>3, SelectedIsApp
    <3>2. AppStore' = AppStore
      BY <1>3, <3>1 DEF EraseDone, AppStore, AppPages
    <3> QED
      BY <2>1, <2>3, <3>2 DEF OpenPage, AckedPage, Store!storeVars
  <2> QED
    BY <2>2, <2>3
<1>4. CASE FillHalfWord
  <2>1. cur = addr /\ pc = "fill" /\ UNCHANGED <<addr, writes, out>>
    BY <1>4 DEF FillHalfWord, CycleInv, selVars, Goto
  <2>2. CASE cur \in Pages
    <3> DEFINE c == [i \in Index |-> IF i \in HalfWord(fillPos) THEN writes[i]
                                                               ELSE mem[cur][i]]
    <3>1. addr \in AppPages
      BY <2>1, <2>2, SelectedIsApp
    <3>2. c \in Content
      BY <2>2, ContentFacts DEF TypeOK, PumpTypeOK, Content
    <3>3. mem' = [p \in Pages |-> IF p = addr THEN c ELSE mem[p]]
      BY <1>4, <2>1, <2>2 DEF FillHalfWord, Programmed
    <3>4. pc \in CommitLabels /\ pc' \in CommitLabels
      BY <1>4, <2>1, <2>2 DEF FillHalfWord, CommitLabels
    <3> QED
      BY <1>a, <2>1, <3>1, <3>2, <3>3, <3>4
  <2>3. CASE cur \notin Pages
    BY <1>4, <2>1, <2>3 DEF FillHalfWord, Goto, AppPages, AppStore, OpenPage, AckedPage,
       Store!storeVars
  <2> QED
    BY <2>2, <2>3
<1>5. CASE FillDone
  BY <1>5 DEF FillDone, Goto, flashVars, selVars, AppStore, OpenPage, AckedPage,
     CommitLabels, Store!storeVars
<1>6. CASE EndWrite
  <2>1. AckedPage = <<>> /\ AckedPage' = <<>> /\ UNCHANGED AppStore
    BY <1>6 DEF EndWrite, AnswerInv, AckedPage, AppStore, Goto, Finish, NoReply
  <2>2. OpenPage' = OpenPage
    <3>1. CASE cur = 0
      <4>1. addr \notin AppPages
        BY <1>6, <3>1, NotPages DEF EndWrite, CycleInv, AppPages
      <4> QED
        BY <1>6, <4>1 DEF OpenPage, EndWrite, selVars
    <3>2. CASE cur # 0
      BY <1>6, <3>2 DEF OpenPage, EndWrite, Goto, CommitLabels, selVars
    <3> QED
      BY <3>1, <3>2
  <2> QED
    BY <2>1, <2>2 DEF Store!storeVars
<1> QED
  BY <1>1, <1>2, <1>3, <1>4, <1>5, <1>6 DEF Drivers

\* A reset abandons the open page.
LEMMA ResetRefines ==
  ASSUME IInv, Reset
  PROVE  Store!Next \/ UNCHANGED Store!storeVars
<1> USE DEF IInv
<1>1. OpenPage' = FlashEnd /\ AckedPage' = <<>>
  BY DEF Reset, PumpReset, Start, OpenPage, AckedPage, CommitLabels, NoReply
<1>2. \A p \in Pages : mem'[p] # mem[p] => p = addr /\ pc \in CommitLabels
  BY DEF Reset, Torn, Programmed, CycleInv, CommitLabels, TypeOK
<1>3. mem' \in [Pages -> Content]
  BY ResetFlashType DEF FlashTypeOK
<1>4. CASE OpenPage = FlashEnd
  <2>1. \A p \in AppPages : mem'[p] = mem[p]
    BY <1>2, <1>4, NotPages DEF OpenPage, AppPages
  <2>2. AppStore' = AppStore
    BY <2>1 DEF AppStore
  <2>3. Store!Taken
    BY <1>1, <1>4, <2>2 DEF Store!Taken, Store!NoAck
  <2> QED
    BY <2>3 DEF Store!Next
<1>5. CASE OpenPage # FlashEnd
  <2>1. OpenPage = addr /\ addr \in AppPages
    BY <1>5 DEF OpenPage
  <2>2. mem'[addr] \in Content
    BY <1>3, <2>1 DEF AppPages
  <2>3. \A p \in AppPages : p # addr => mem'[p] = mem[p]
    BY <1>2 DEF AppPages
  <2>4. AppStore' = [AppStore EXCEPT ![addr] = mem'[addr]]
    BY <2>1, <2>3 DEF AppStore
  <2>5. Store!Abandon
    BY <1>1, <1>5, <2>1, <2>2, <2>4 DEF Store!Abandon, Store!Rewrite, Store!NoAck
  <2> QED
    BY <2>5 DEF Store!Next
<1> QED
  BY <1>4, <1>5

\* Every step is a step of PageStore, or a stutter.
LEMMA NextRefines ==
  ASSUME IInv, [Next]_vars
  PROVE  [Store!Next]_(Store!storeVars)
<1>1. CASE Listen
  <2>1. UNCHANGED AppStore /\ AckedPage' = <<>> /\ OpenPage' = OpenPage
    BY <1>1 DEF Listen, Receive, flashVars, selVars, AppStore, AckedPage, OpenPage,
       CommitLabels, NoReply
  <2>2. Store!Taken
    BY <2>1 DEF Store!Taken, Store!NoAck
  <2> QED
    BY <2>2 DEF Store!Next
<1>2. CASE Expire \/ UNCHANGED vars
  BY <1>2 DEF Expire, Timeout, vars, pumpVars, flashVars, selVars, AppStore, AckedPage,
     OpenPage, Store!storeVars
<1>3. CASE PumpStep /\ UNCHANGED flashVars
  BY <1>3, PumpStepRefines
<1>4. CASE Drivers
  BY <1>4, DriversRefine
<1>5. CASE Reset
  BY <1>5, ResetRefines
<1> QED
  BY <1>1, <1>2, <1>3, <1>4, <1>5 DEF Next, Run, Main

\* The bootloader, interrupted and reset at any point, implements a store
\* whose pages change one at a time and whose acknowledgements are true.
THEOREM ImplementsPageStore == Spec => KeepsPages
<1>1. Init => Store!Init
  BY StoreInit
<1>2. IInv /\ [Next]_vars => [Store!Next]_(Store!storeVars)
  BY NextRefines
<1> QED
  BY <1>1, <1>2, Invariance, PTL DEF Spec, KeepsPages, Store!Spec

-----------------------------------------------------------------------------
(* A master that programs the device: frames and pages *)

\* Replacing an element of a sequence.
LEMMA Replaced ==
  ASSUME NEW S, NEW q \in Seq(S), NEW i \in 1 .. Len(q), NEW f \in S
  PROVE  /\ [q EXCEPT ![i] = f] \in Seq(S)
         /\ Len([q EXCEPT ![i] = f]) = Len(q)
         /\ \A j \in 1 .. Len(q) : [q EXCEPT ![i] = f][j] = IF j = i THEN f ELSE q[j]
  OBVIOUS

\* What FIFO 0 may hold.
Fits(q) == q \in Seq(Command) /\ Len(q) <= FifoDepth

\* FIFO 0 holds the frame that came last, after frames it held before, and
\* lets none of them overtake another.
LEMMA QueuedFrames ==
  ASSUME NEW q, Fits(q), NEW f \in Command
  PROVE  LET r == Queued(q, f)
         IN  /\ Fits(r)
             /\ \A i \in DOMAIN r : IF i = Len(r) THEN r[i] = f
                                    ELSE i \in DOMAIN q /\ r[i] = q[i]
<1> DEFINE r == Queued(q, f)
<1>0. q \in Seq(Command) /\ Len(q) \in Nat /\ Len(q) <= 3
  BY DEF Fits, FifoDepth
<1>1. CASE Len(q) < FifoDepth
  <2>1. r = Append(q, f)
    BY <1>1 DEF Queued
  <2>2. /\ Append(q, f) \in Seq(Command)
        /\ Len(Append(q, f)) = Len(q) + 1
        /\ \A i \in 1 .. Len(q) + 1 :
             Append(q, f)[i] = IF i = Len(q) + 1 THEN f ELSE q[i]
    BY <1>0
  <2> HIDE DEF r
  <2>3. DOMAIN r = 1 .. Len(q) + 1 /\ DOMAIN q = 1 .. Len(q) /\ Len(q) \in Nat
    BY <1>0, <2>1, <2>2
  <2>4. Len(r) <= FifoDepth
    BY <1>0, <1>1, <2>1, <2>2 DEF FifoDepth
  <2>5. \A i \in DOMAIN r : IF i = Len(r) THEN r[i] = f
                           ELSE i \in DOMAIN q /\ r[i] = q[i]
    BY <2>1, <2>2, <2>3
  <2> QED
    BY <2>1, <2>2, <2>4, <2>5 DEF r, Fits
<1>2. CASE ~(Len(q) < FifoDepth)
  <2>1. ~(Len(q) < 3)
    BY <1>2 DEF FifoDepth
  <2>2. Len(q) = 3 /\ 3 \in 1 .. Len(q) /\ DOMAIN q = 1 .. 3
    <3>0. \A k \in Nat : k <= 3 /\ ~(k < 3) => k = 3
      OBVIOUS
    <3>1. Len(q) = 3
      BY <1>0, <2>1, <3>0
    <3>2. 3 \in 1 .. Len(q)
      BY <3>1
    <3>3. DOMAIN q = 1 .. Len(q)
      BY <1>0
    <3> QED
      BY <3>1, <3>2, <3>3
  <2> DEFINE new == [q EXCEPT ![3] = f]
  <2>3. r = new
    BY <1>2 DEF Queued, FifoDepth
  <2>4. /\ new \in Seq(Command)
        /\ Len(new) = Len(q)
        /\ \A j \in 1 .. Len(q) : new[j] = IF j = 3 THEN f ELSE q[j]
    BY <1>0, <2>2, Replaced
  <2> HIDE DEF new, r
  <2>5. Len(new) = 3 /\ DOMAIN new = 1 .. 3
    BY <2>2, <2>4
  <2>6. Fits(new)
    BY <2>4, <2>5 DEF Fits, FifoDepth
  <2> QED
    BY <2>2, <2>3, <2>4, <2>5, <2>6 DEF r
<1> QED
  BY <1>1, <1>2

\* An aligned address is its own page.
LEMMA MaskOfAligned ==
  ASSUME NEW a \in Nat, a < AddrMod, Aligned(a)
  PROVE  PageMask(a) = a
<1> DEFINE q == a \div PageSize
<1>1. a % AddrMod = a
  BY LayoutAssumption
<1>2. q \in Nat /\ a = PageSize * q
  BY DivMod, LayoutAssumption DEF Aligned
<1>3. PageMask(a) = q * PageSize
  BY <1>1 DEF PageMask
<1> HIDE DEF q
<1>4. q * PageSize = PageSize * q
  BY <1>2, LayoutAssumption
<1> QED
  BY <1>2, <1>3, <1>4

\* The pages of a program are pages a SELECT_PAGE can name and select.
LEMMA PlannedPage ==
  ASSUME NEW n \in DOMAIN Plan
  PROVE  /\ Plan[n] \in DOMAIN Image
         /\ Plan[n] \in Pages
         /\ Plan[n] \in Words
         /\ Image[Plan[n]] \in Page
         /\ PageMask(Plan[n]) = Plan[n]
<1>1. Plan[n] \in DOMAIN Image
  BY ProgrammingAssumption
<1>2. Plan[n] \in AppPages /\ Plan[n] \in Words /\ Image[Plan[n]] \in Page
  BY <1>1, ProgrammingAssumption
<1>3. Plan[n] \in Pages /\ Aligned(Plan[n]) /\ Plan[n] \in Nat /\ Plan[n] < AddrMod
  BY <1>2, LayoutAssumption DEF AppPages, Pages
<1> QED
  BY <1>1, <1>2, <1>3, MaskOfAligned

\* What the master sends are commands, and all but the last of them are such
\* as it sends without waiting.
LEMMA SentFrames ==
  /\ \A type \in Bare : /\ Request(type) \in Seq(Command)
                        /\ Len(Request(type)) = 1
                        /\ Request(type)[1] = [type |-> type]
  /\ \A n \in DOMAIN Plan :
       /\ Select(n) \in Seq(Command)
       /\ Len(Select(n)) = 1
       /\ Select(n)[1] = [type |-> "SELECT_PAGE", word |-> Plan[n]]
<1>1. \A type \in Bare : [type |-> type] \in Command
  BY DEF Command
<1>2. \A n \in DOMAIN Plan : [type |-> "SELECT_PAGE", word |-> Plan[n]] \in Command
  BY PlannedPage DEF Command
<1> QED
  BY <1>1, <1>2 DEF Request, Select

\* The burst of frames that carries a page, and the one that redoes it.
LEMMA SentPage ==
  ASSUME NEW n \in DOMAIN Plan,
         NEW q \in {WritePage(Image[Plan[n]]), Rewind \o WritePage(Image[Plan[n]])}
  PROVE  /\ q \in Seq(Command)
         /\ \A i \in DOMAIN q : /\ q[i].type \in {"SEEK", "WRITE", "CHECK_WRITES"}
                                /\ i < Len(q) => q[i].type # "CHECK_WRITES"
<1> DEFINE w(k) == [type |-> "WRITE", data |-> Part(Image[Plan[n]], k)]
           s == [type |-> "SEEK", word |-> 0]
           c == [type |-> "CHECK_WRITES"]
<1>1. w(0) \in Command /\ w(1) \in Command /\ s \in Command /\ c \in Command
  <2>1. Part(Image[Plan[n]], 0) \in Chunks /\ Part(Image[Plan[n]], 1) \in Chunks
    <3>1. Plan[n] \in DOMAIN Image
      BY PlannedPage
    <3>2. {Part(Image[Plan[n]], 0), Part(Image[Plan[n]], 1)} \subseteq Chunks
      BY <3>1, ProgrammingAssumption
    <3> QED
      BY <3>2
  <2>2. 0 \in Words
    BY ProgrammingAssumption
  <2> QED
    BY <2>1, <2>2 DEF Command, Bare
<1>2. /\ w(0).type = "WRITE" /\ w(1).type = "WRITE"
      /\ s.type = "SEEK" /\ c.type = "CHECK_WRITES"
  OBVIOUS
<1>3. q = <<w(0), w(1), c>> \/ q = <<s>> \o <<w(0), w(1), c>>
  BY DEF WritePage, Rewind
<1> HIDE DEF w, s, c
<1>4. CASE q = <<w(0), w(1), c>>
  BY <1>1, <1>2, <1>4
<1>5. CASE q = <<s>> \o <<w(0), w(1), c>>
  <2>1. <<s>> \in Seq(Command) /\ <<w(0), w(1), c>> \in Seq(Command)
    BY <1>1
  <2>2. /\ q \in Seq(Command)
        /\ Len(q) = 4
        /\ q[1] = s /\ q[2] = w(0) /\ q[3] = w(1) /\ q[4] = c
    BY <1>5, <2>1
  <2> QED
    BY <1>2, <2>2
<1> QED
  BY <1>3, <1>4, <1>5

-----------------------------------------------------------------------------
(* What a step of the device does, as the master sees it *)

\* A step of the composition is a step of the device, or leaves it alone.
LEMMA DeviceSteps ==
  ASSUME WireTypes, [ProgNext]_progVars
  PROVE  [Next]_vars
<1>1. CASE MasterSends \/ RequestAgain \/ StartOver \/ UserResetsCan
           \/ UNCHANGED progVars
  BY <1>1 DEF MasterSends, RequestAgain, StartOver, UserResetsCan, progVars
<1>2. CASE \E m \in Mailboxes : Transmit(m)
  BY <1>2 DEF Transmit
<1>3. CASE DeviceReceives
  <2>1. Head(fifo) \in Command
    BY <1>3 DEF DeviceReceives, WireTypes
  <2> QED
    BY <1>3, <2>1 DEF DeviceReceives, Next, Run, Listen
<1>4. CASE DeviceRuns \/ DeviceTimesOut \/ DeviceResets
  BY <1>4 DEF DeviceRuns, DeviceTimesOut, DeviceResets, Next, Run
<1> QED
  BY <1>1, <1>2, <1>3, <1>4 DEF ProgNext

\* Reply r to command m, and what the device is in when it has sent it.
Responds(m, r) ==
  \/ m.type = "PROG_REQ" /\ r.type = "PROG_REQ_RESP"
  \/ m.type = "UNLOCK" /\ r.type = "UNLOCKED"
  \/ m.type = "SELECT_PAGE" /\ r.type = "PAGE_SELECTED" /\ addr' = PageMask(m.word)
  \/ m.type = "CHECK_WRITES" /\ r.type = "WRITES_CHECKED" /\ r.crc = Crc(writes')
  \/ /\ m.type = "COMMIT_WRITES" /\ r.type = "WRITES_COMMITTED"
     /\ state = "UNLOCKED" /\ mem'[addr] = writes
  \/ m.type = "PROG_DONE" /\ r.type = "PROG_DONE_ACK"

\* A step of a handler goes on with the same command, or ends with a reply to
\* it or with none.
HandlerStep ==
  \/ msg' = msg /\ out' = out
  \/ pc' = "poll" /\ (out' = NoReply \/ Responds(msg, out'))

\* The steps of main.c's handlers.
LEMMA PumpHandles ==
  ASSUME IInv, HandledInv, PumpStep, UNCHANGED flashVars
  PROVE  HandlerStep /\ HandledInv'
<1> USE DEF HandlerStep, HandledInv, CommitLabels
<1>1. CASE LeaveLoop \/ StopTimer \/ UnlockSkipped
  BY <1>1 DEF LeaveLoop, StopTimer, UnlockSkipped, Goto
<1>2. CASE ProgReq \/ SetLocked
  BY <1>2 DEF ProgReq, SetLocked, Goto, Finish, Handling, Responds, ProgReqResp
<1>3. CASE UnlockTest \/ SetUnlocked
  BY <1>3 DEF UnlockTest, SetUnlocked, Goto, Finish, Handling, Responds, Unlocked
<1>4. CASE SelectPage
  BY <1>4 DEF SelectPage, Finish, Handling, Responds, PageSelected
<1>5. CASE Seek \/ Write \/ Unrecognised
  BY <1>5 DEF Seek, Write, Unrecognised, Finish
<1>6. CASE CheckWrites
  BY <1>6 DEF CheckWrites, Finish, Handling, Responds, WritesChecked, selVars
<1>7. CASE CommitTest
  BY <1>7 DEF CommitTest, Goto, Finish, Handling
<1>8. CASE CommitAck
  BY <1>8 DEF CommitAck, Finish, Responds, WritesCommitted, IInv, CycleInv, SessionInv,
     flashVars
<1>9. CASE ProgDone
  BY <1>9 DEF ProgDone, Finish, Handling, Responds, ProgDoneAck
<1> QED
  BY <1>1, <1>2, <1>3, <1>4, <1>5, <1>6, <1>7, <1>8, <1>9 DEF PumpStep

\* The steps of the flash driver, which answer nothing.
LEMMA DriversHandle ==
  ASSUME HandledInv, Drivers
  PROVE  HandlerStep /\ HandledInv'
BY DEF HandlerStep, HandledInv, CommitLabels, Drivers, UnlockFlash, LockFlash, BeginWrite,
   EraseDone, FillHalfWord, FillDone, EndWrite, JumpToProgram, Goto, Finish, flashVars

\* The main program that handles no command sends nothing and takes none.
LEMMA NotBusyStep ==
  ASSUME Main, ~Busy
  PROVE  ~Busy' /\ out' = out
BY DEF Busy, Gone, Main, PumpStep, LeaveLoop, ProgReq, StopTimer, SetLocked, UnlockTest,
   UnlockSkipped, SetUnlocked, SelectPage, Seek, Write, CheckWrites, CommitTest,
   CommitAck, ProgDone, Unrecognised, Handling, Drivers, UnlockFlash, LockFlash,
   BeginWrite, EraseDone, FillHalfWord, FillDone, EndWrite, JumpToProgram, Goto

\* When a command is being handled, only UNLOCK makes `state' UNLOCKED, only
\* SELECT_PAGE moves the selected page, and only WRITE fills its buffer.
LEMMA HandlerChanges ==
  ASSUME HandledInv, Main
  PROVE  /\ state' = "UNLOCKED" => state = "UNLOCKED" \/ (Busy /\ msg.type = "UNLOCK")
         /\ addr' # addr => Busy /\ msg.type = "SELECT_PAGE"
         /\ writes' # writes => Busy /\ msg.type = "WRITE"
BY DEF HandledInv, Busy, Gone, Main, PumpStep, LeaveLoop, ProgReq, StopTimer, SetLocked,
   UnlockTest, UnlockSkipped, SetUnlocked, SelectPage, Seek, Write, CheckWrites,
   CommitTest, CommitAck, ProgDone, Unrecognised, Handling, Drivers, UnlockFlash,
   LockFlash, BeginWrite, EraseDone, FillHalfWord, FillDone, EndWrite, JumpToProgram,
   selVars

-----------------------------------------------------------------------------
(* The master's steps *)

\* Taking the first element off a sequence.
LEMMA TailFacts ==
  ASSUME NEW S, NEW q \in Seq(S), q # <<>>
  PROVE  /\ 1 \in DOMAIN q /\ Head(q) = q[1] /\ Head(q) \in S
         /\ Tail(q) \in Seq(S)
         /\ Len(q) \in Nat /\ Len(Tail(q)) = Len(q) - 1
         /\ Tail(q) # <<>> => 1 < Len(q)
         /\ \A i \in DOMAIN Tail(q) : /\ i \in Nat
                                      /\ i + 1 \in DOMAIN q
                                      /\ Tail(q)[i] = q[i + 1]
OBVIOUS

\* A frame that is queued arrives behind the others.
LEMMA FrameArrives ==
  ASSUME WireTypes, LineInv, StageInv, NEW f \in Command, fifo' = Queued(fifo, f),
         Asked(f, expect, nth), todo' = <<>> \/ Plain(f),
         todo # <<>> \/ expect = "PROG_REQ_RESP",
         UNCHANGED <<expect, nth>>
  PROVE  /\ fifo' \in Seq(Command)
         /\ Len(fifo') <= FifoDepth
         /\ \A i \in DOMAIN fifo' : Asked(fifo'[i], expect', nth')
         /\ \A i \in DOMAIN fifo' : todo' # <<>> \/ i < Len(fifo') => Plain(fifo'[i])
<1>1. Fits(fifo)
  BY DEF WireTypes, Fits
<1>2. /\ Fits(fifo')
      /\ \A i \in DOMAIN fifo' : IF i = Len(fifo') THEN fifo'[i] = f
                                 ELSE i \in DOMAIN fifo /\ fifo'[i] = fifo[i]
  BY <1>1, QueuedFrames
<1>3. \A i \in DOMAIN fifo : Plain(fifo[i])
  BY DEF LineInv, StageInv, Asked, Plain
<1>4. \A i \in DOMAIN fifo : Asked(fifo[i], expect, nth)
  BY DEF StageInv
<1>5. fifo' \in Seq(Command) /\ Len(fifo') <= FifoDepth
  BY <1>2 DEF Fits
<1>6. \A i \in DOMAIN fifo' : Asked(fifo'[i], expect', nth')
  BY <1>2, <1>4
<1>7. \A i \in DOMAIN fifo' : todo' # <<>> \/ i < Len(fifo') => Plain(fifo'[i])
  <2> SUFFICES ASSUME NEW i \in DOMAIN fifo', todo' # <<>> \/ i < Len(fifo')
               PROVE  Plain(fifo'[i])
    OBVIOUS
  <2>1. CASE i = Len(fifo')
    <3>1. ~(i < Len(fifo'))
      BY <1>5, <2>1
    <3> QED
      BY <1>2, <2>1, <3>1
  <2>2. CASE i # Len(fifo')
    BY <1>2, <1>3, <2>2
  <2> QED
    BY <2>1, <2>2
<1> QED
  BY <1>5, <1>6, <1>7

\* Sending a frame keeps the line in order.
LEMMA MasterSendsKeeps ==
  ASSUME ProgInv, MasterSends
  PROVE  MasterInv'
<1> DEFINE f == Head(todo)
<1> USE DEF ProgInv, MasterInv
<1>1. todo \in Seq(Command) /\ todo # <<>> /\ todo' = Tail(todo) /\ fifo' = Queued(fifo, f)
  BY DEF MasterSends, WireTypes
<1>2. UNCHANGED <<vars, outbox, expect, nth>>
  BY DEF MasterSends
<1>3. /\ 1 \in DOMAIN todo /\ f = todo[1] /\ f \in Command
      /\ todo' \in Seq(Command)
      /\ Len(todo) \in Nat /\ Len(todo') = Len(todo) - 1
      /\ todo' # <<>> => 1 < Len(todo)
      /\ \A i \in DOMAIN todo' : /\ i \in Nat
                                 /\ i + 1 \in DOMAIN todo
                                 /\ todo'[i] = todo[i + 1]
  BY <1>1, TailFacts
<1> HIDE DEF f
<1>4. Asked(f, expect, nth) /\ (todo' # <<>> => Plain(f))
  BY <1>3 DEF StageInv, LineInv
<1>5. /\ fifo' \in Seq(Command)
      /\ Len(fifo') <= FifoDepth
      /\ \A i \in DOMAIN fifo' : Asked(fifo'[i], expect', nth')
      /\ \A i \in DOMAIN fifo' : todo' # <<>> \/ i < Len(fifo') => Plain(fifo'[i])
  BY <1>1, <1>2, <1>3, <1>4, FrameArrives
<1>6. WireTypes'
  BY <1>2, <1>3, <1>5 DEF WireTypes
<1>7. HandledInv' /\ AgreeInv' /\ DoneInv'
  BY <1>2 DEF vars, pumpVars, flashVars, HandledInv, AgreeInv, DoneInv
<1>8. LineInv'
  <2>1. Busy' <=> Busy
    BY <1>2 DEF vars, pumpVars, Busy
  <2>2. \A i \in DOMAIN todo' : i < Len(todo') => Plain(todo'[i])
    BY <1>3 DEF LineInv
  <2>3. Busy => Plain(msg)
    BY <1>1 DEF LineInv
  <2>4. \A m \in Mailboxes : ~Answer(outbox[m])
    BY <1>1 DEF LineInv
  <2>5. msg' = msg /\ outbox' = outbox
    BY <1>2 DEF vars, pumpVars
  <2> QED
    BY <1>5, <2>1, <2>2, <2>3, <2>4, <2>5 DEF LineInv
<1>9. StageInv'
  <2>1. Busy' <=> Busy
    BY <1>2 DEF vars, pumpVars, Busy
  <2>2. \A i \in DOMAIN todo' : Asked(todo'[i], expect', nth')
    BY <1>2, <1>3 DEF StageInv
  <2>3. msg' = msg /\ outbox' = outbox /\ expect' = expect /\ nth' = nth
    BY <1>2 DEF vars, pumpVars
  <2> QED
    BY <1>5, <2>1, <2>2, <2>3 DEF StageInv
<1> QED
  BY <1>6, <1>7, <1>8, <1>9

\* So does repeating PROG_REQ.
LEMMA RequestAgainKeeps ==
  ASSUME ProgInv, RequestAgain
  PROVE  MasterInv'
<1> DEFINE f == [type |-> "PROG_REQ"]
<1> USE DEF ProgInv, MasterInv
<1>1. todo = <<>> /\ expect = "PROG_REQ_RESP" /\ UNCHANGED <<vars, outbox, masterVars>>
  BY DEF RequestAgain, Waiting
<1>2. f \in Command /\ Plain(f) /\ Asked(f, expect, nth)
  BY DEF Command, Bare, Plain, Asked
<1>3. fifo' = Queued(fifo, f)
  BY DEF RequestAgain, Request
<1> HIDE DEF f
<1>4. todo' = <<>> /\ UNCHANGED <<expect, nth>>
  BY <1>1 DEF masterVars
<1>5. /\ fifo' \in Seq(Command)
      /\ Len(fifo') <= FifoDepth
      /\ \A i \in DOMAIN fifo' : Asked(fifo'[i], expect', nth')
      /\ \A i \in DOMAIN fifo' : todo' # <<>> \/ i < Len(fifo') => Plain(fifo'[i])
  BY <1>1, <1>2, <1>3, <1>4, FrameArrives
<1>6. WireTypes'
  BY <1>1, <1>4, <1>5 DEF WireTypes
<1>7. HandledInv' /\ AgreeInv' /\ DoneInv'
  BY <1>1, <1>4 DEF vars, pumpVars, flashVars, HandledInv, AgreeInv, DoneInv
<1>8. (Busy' <=> Busy) /\ msg' = msg /\ outbox' = outbox
  BY <1>1 DEF vars, pumpVars, Busy
<1>9. (Busy => Plain(msg)) /\ \A m \in Mailboxes : ~Answer(outbox[m])
  BY <1>1 DEF StageInv, Asked, Plain, Answer
<1>10. LineInv'
  BY <1>4, <1>5, <1>8, <1>9 DEF LineInv
<1>11. StageInv'
  BY <1>1, <1>4, <1>5, <1>8 DEF StageInv
<1> QED
  BY <1>6, <1>7, <1>10, <1>11

\* Starting over clears the line, and forgets the pages that are done.
LEMMA StartOverKeeps ==
  ASSUME ProgInv, StartOver
  PROVE  MasterInv'
<1> USE DEF ProgInv, MasterInv
<1>1. /\ todo' = Request("PROG_REQ") /\ expect' = "PROG_REQ_RESP" /\ nth' = 1
      /\ fifo' = <<>> /\ outbox' = [m \in Mailboxes |-> NoReply] /\ ~Busy
      /\ UNCHANGED <<vars, linkVars>>
  BY DEF StartOver, Opening, Quiet, linkVars, Busy
<1>2. /\ todo' \in Seq(Command) /\ Len(todo') = 1 /\ DOMAIN todo' = {1}
      /\ todo'[1] = [type |-> "PROG_REQ"]
  BY <1>1, SentFrames DEF Bare
<1>3. WireTypes'
  <2>1. Len(Plan) \in Nat
    BY ProgrammingAssumption
  <2> QED
    BY <1>1, <1>2, <2>1, ProgrammingAssumption DEF WireTypes, FifoDepth, Reply
<1>4. HandledInv' /\ ~Busy'
  BY <1>1 DEF vars, pumpVars, HandledInv, Busy
<1>5. \A m \in Mailboxes : outbox'[m] = NoReply /\ ~Answer(outbox'[m])
  BY <1>1 DEF Answer
<1>6. AgreeInv' /\ DoneInv'
  BY <1>1, <1>5 DEF AgreeInv, DoneInv, NoReply
<1>7. LineInv'
  BY <1>1, <1>2, <1>4, <1>5 DEF LineInv, Plain
<1>8. StageInv'
  BY <1>1, <1>2, <1>4, <1>5 DEF StageInv, Asked
<1> QED
  BY <1>3, <1>4, <1>6, <1>7, <1>8

\* A mailbox whose answer has been sent is free, and the others are as before.
LEMMA MailboxSent ==
  ASSUME WireTypes, NEW m \in Mailboxes, outbox' = [outbox EXCEPT ![m] = NoReply]
  PROVE  /\ outbox' \in [Mailboxes -> Reply]
         /\ \A n \in Mailboxes : outbox'[n] = IF n = m THEN NoReply ELSE outbox[n]
         /\ ~Answer(NoReply)
         /\ NoReply.type = "NONE"
BY DEF WireTypes, Reply, Answer, NoReply

\* An answer that the master ignores is gone, and that is all.
LEMMA IgnoredKeeps ==
  ASSUME ProgInv, NEW m \in Mailboxes, outbox' = [outbox EXCEPT ![m] = NoReply],
         UNCHANGED <<vars, fifo, todo, expect, nth>>
  PROVE  MasterInv'
<1> USE DEF ProgInv, MasterInv
<1>1. /\ outbox' \in [Mailboxes -> Reply]
      /\ \A n \in Mailboxes : outbox'[n] = IF n = m THEN NoReply ELSE outbox[n]
      /\ ~Answer(NoReply)
      /\ NoReply.type = "NONE"
  BY MailboxSent
<1>2. WireTypes' /\ HandledInv' /\ DoneInv'
  BY <1>1 DEF vars, pumpVars, flashVars, WireTypes, HandledInv, DoneInv
<1>3. (Busy' <=> Busy) /\ msg' = msg /\ state' = state /\ addr' = addr /\ writes' = writes
      /\ mem' = mem
  BY DEF vars, pumpVars, flashVars, Busy
<1>4. LineInv'
  BY <1>1, <1>3 DEF LineInv
<1>5. StageInv'
  BY <1>1, <1>3 DEF StageInv
<1>6. AgreeInv'
  BY <1>1, <1>3 DEF AgreeInv
<1> QED
  BY <1>2, <1>4, <1>5, <1>6

\* An answer that the master waits for leaves nothing on its way but PROG_REQs
\* and the replies to them: the next requests q start a stage of their own.
LEMMA NextStage ==
  ASSUME ProgInv, Waiting, NEW m \in Mailboxes, outbox[m] # NoReply,
         outbox[m].type = expect, outbox' = [outbox EXCEPT ![m] = NoReply],
         UNCHANGED <<vars, fifo>>,
         NEW q \in Seq(Command), todo' = q,
         \A i \in DOMAIN q : /\ Asked(q[i], expect', nth')
                             /\ i < Len(q) => Plain(q[i])
  PROVE  /\ HandledInv' /\ LineInv' /\ StageInv'
         /\ \A n \in Mailboxes : /\ outbox'[n] \in Reply
                                 /\ ~Answer(outbox'[n])
         /\ outbox' \in [Mailboxes -> Reply]
<1> USE DEF ProgInv, MasterInv
<1>1. /\ outbox' \in [Mailboxes -> Reply]
      /\ \A n \in Mailboxes : outbox'[n] = IF n = m THEN NoReply ELSE outbox[n]
      /\ ~Answer(NoReply)
  BY MailboxSent
<1>2. (Busy' <=> Busy) /\ msg' = msg /\ HandledInv'
  BY DEF vars, pumpVars, Busy, HandledInv
<1>3. /\ \A i \in DOMAIN fifo : fifo[i].type = "PROG_REQ"
      /\ Busy => msg.type = "PROG_REQ"
      /\ \A n \in Mailboxes : n # m => ~Answer(outbox[n])
  <2>1. CASE Answer(outbox[m])
    BY <2>1 DEF LineInv
  <2>2. CASE ~Answer(outbox[m])
    <3>1. expect \in {"NONE", "PROG_REQ_RESP"}
      BY <2>2 DEF Answer, NoReply
    <3>2. expect = "PROG_REQ_RESP"
      BY <3>1 DEF WireTypes
    <3>3. \A f : Asked(f, expect, nth) => f.type = "PROG_REQ"
      BY <3>2 DEF Asked
    <3>4. \A n \in Mailboxes : ~Answer(outbox[n])
      BY <3>2 DEF StageInv, Answer
    <3> QED
      BY <3>3, <3>4 DEF StageInv
  <2> QED
    BY <2>1, <2>2
<1>4. \A f : f.type = "PROG_REQ" => Plain(f) /\ Asked(f, expect', nth')
  BY DEF Plain, Asked
<1>5. \A n \in Mailboxes : outbox'[n] \in Reply /\ ~Answer(outbox'[n])
  BY <1>1, <1>3
<1>6. LineInv'
  BY <1>2, <1>3, <1>4, <1>5 DEF LineInv
<1>7. StageInv'
  BY <1>2, <1>3, <1>4, <1>5 DEF StageInv
<1> QED
  BY <1>1, <1>2, <1>5, <1>6, <1>7

\* With no answers about, AgreeInv is about the stage only.
LEMMA AgreeWithoutAnswers ==
  ASSUME \A n \in Mailboxes : ~Answer(outbox'[n]),
         expect' \in {"WRITES_CHECKED", "WRITES_COMMITTED"} /\ state' = "UNLOCKED"
           => addr' = Plan[nth'],
         expect' = "WRITES_COMMITTED" /\ state' = "UNLOCKED"
           => Checked(writes', Plan[nth'])
  PROVE  AgreeInv'
<1>1. \A n \in Mailboxes : outbox'[n].type \notin {"PAGE_SELECTED", "WRITES_CHECKED",
                                                  "WRITES_COMMITTED"}
  BY DEF Answer, NoReply
<1> QED
  BY <1>1 DEF AgreeInv

\* The master's next requests are frames as NextStage wants them.
LEMMA Requests ==
  /\ \A type \in Bare : \A answer, n :
       Asked([type |-> type], answer, n) =>
         \A i \in DOMAIN Request(type) :
           Asked(Request(type)[i], answer, n) /\ ~(i < Len(Request(type)))
  /\ \A n \in DOMAIN Plan : \A i \in DOMAIN Select(n) :
       Asked(Select(n)[i], "PAGE_SELECTED", n) /\ ~(i < Len(Select(n)))
<1>1. ASSUME NEW type \in Bare, NEW answer, NEW n, Asked([type |-> type], answer, n),
             NEW i \in DOMAIN Request(type)
      PROVE  Asked(Request(type)[i], answer, n) /\ ~(i < Len(Request(type)))
  <2>1. Len(Request(type)) = 1 /\ i = 1
    BY <1>1, SentFrames
  <2> QED
    BY <1>1, <2>1, SentFrames
<1>2. ASSUME NEW n \in DOMAIN Plan, NEW i \in DOMAIN Select(n)
      PROVE  Asked(Select(n)[i], "PAGE_SELECTED", n) /\ ~(i < Len(Select(n)))
  <2>1. /\ Select(n) \in Seq(Command) /\ Len(Select(n)) = 1
        /\ Select(n)[1] = [type |-> "SELECT_PAGE", word |-> Plan[n]]
    BY SentFrames
  <2>2. i = 1
    BY <2>1
  <2>3. Asked(Select(n)[1], "PAGE_SELECTED", n)
    BY <2>1 DEF Asked
  <2> QED
    BY <2>1, <2>2, <2>3
<1> QED
  BY <1>1, <1>2

\* Going on to page n, or finishing, when the pages before it are done.
LEMMA SelectKeeps ==
  ASSUME ProgInv, Waiting, NEW m \in Mailboxes, outbox[m] # NoReply,
         outbox[m].type = expect, outbox' = [outbox EXCEPT ![m] = NoReply],
         UNCHANGED <<vars, fifo>>,
         NEW n \in 1 .. Len(Plan) + 1, SelectOrFinish(n),
         \A k \in DOMAIN Plan : k < n => Checked(mem[Plan[k]], Plan[k])
  PROVE  MasterInv'
<1>0. Len(Plan) \in Nat /\ DOMAIN Plan = 1 .. Len(Plan)
  BY ProgrammingAssumption
<1>1. DoneInv'
  BY DEF SelectOrFinish, vars, flashVars, DoneInv
<1>2. CASE n <= Len(Plan)
  <2>1. nth' = n /\ todo' = Select(n) /\ expect' = "PAGE_SELECTED" /\ n \in DOMAIN Plan
    BY <1>0, <1>2 DEF SelectOrFinish, Ask
  <2>2. Select(n) \in Seq(Command)
    BY <2>1, SentFrames
  <2>3. \A i \in DOMAIN Select(n) : /\ Asked(Select(n)[i], expect', nth')
                                    /\ i < Len(Select(n)) => Plain(Select(n)[i])
    BY <2>1, Requests
  <2>4. /\ HandledInv' /\ LineInv' /\ StageInv'
        /\ \A k \in Mailboxes : ~Answer(outbox'[k])
        /\ outbox' \in [Mailboxes -> Reply]
    BY <2>1, <2>2, <2>3, NextStage
  <2>5. AgreeInv'
    BY <2>1, <2>4, AgreeWithoutAnswers
  <2>6. WireTypes'
    BY <1>0, <2>1, <2>2, <2>4 DEF WireTypes, ProgInv, MasterInv
  <2> QED
    BY <1>1, <2>4, <2>5, <2>6 DEF MasterInv
<1>3. CASE ~(n <= Len(Plan))
  <2>1. /\ nth' = n /\ todo' = Request("PROG_DONE") /\ expect' = "PROG_DONE_ACK"
        /\ n = Len(Plan) + 1
    BY <1>0, <1>3 DEF SelectOrFinish, Ask
  <2>2. Request("PROG_DONE") \in Seq(Command)
    BY SentFrames DEF Bare
  <2>3. \A i \in DOMAIN Request("PROG_DONE") :
          /\ Asked(Request("PROG_DONE")[i], expect', nth')
          /\ i < Len(Request("PROG_DONE")) => Plain(Request("PROG_DONE")[i])
    BY <2>1, Requests DEF Asked, Bare
  <2>4. /\ HandledInv' /\ LineInv' /\ StageInv'
        /\ \A k \in Mailboxes : ~Answer(outbox'[k])
        /\ outbox' \in [Mailboxes -> Reply]
    BY <2>1, <2>2, <2>3, NextStage
  <2>5. AgreeInv'
    BY <2>1, <2>4, AgreeWithoutAnswers
  <2>6. WireTypes'
    BY <1>0, <2>1, <2>2, <2>4 DEF WireTypes, ProgInv, MasterInv
  <2> QED
    BY <1>1, <2>4, <2>5, <2>6 DEF MasterInv
<1> QED
  BY <1>2, <1>3

\* A stage that the master starts from the answer in mailbox m, about the page
\* it is at, keeps the invariant if device and master agree on that page.
LEMMA StageKeeps ==
  ASSUME ProgInv, Waiting, NEW m \in Mailboxes, outbox[m] # NoReply,
         outbox[m].type = expect, outbox' = [outbox EXCEPT ![m] = NoReply],
         UNCHANGED <<vars, fifo, nth>>,
         NEW q \in Seq(Command), todo' = q,
         \A i \in DOMAIN q : /\ Asked(q[i], expect', nth')
                             /\ i < Len(q) => Plain(q[i]),
         \/ expect' = "UNLOCKED"
         \/ /\ expect' \in {"WRITES_CHECKED", "WRITES_COMMITTED"}
            /\ expect \in {"PAGE_SELECTED", "WRITES_CHECKED"}
         \/ expect' = "SUCCESS" /\ expect = "PROG_DONE_ACK",
         expect' \in {"WRITES_CHECKED", "WRITES_COMMITTED"} /\ state = "UNLOCKED"
           => addr = Plan[nth],
         expect' = "WRITES_COMMITTED" /\ state = "UNLOCKED" => Checked(writes, Plan[nth])
  PROVE  MasterInv'
<1>1. /\ HandledInv' /\ LineInv' /\ StageInv'
      /\ \A k \in Mailboxes : ~Answer(outbox'[k])
      /\ outbox' \in [Mailboxes -> Reply]
  BY NextStage
<1>2. state' = state /\ addr' = addr /\ writes' = writes /\ mem' = mem /\ nth' = nth
  BY DEF vars, pumpVars, flashVars
<1>3. AgreeInv'
  BY <1>1, <1>2, AgreeWithoutAnswers
<1>4. DoneInv'
  BY <1>2 DEF DoneInv, ProgInv, MasterInv
<1>5. WireTypes'
  BY <1>1, <1>2 DEF WireTypes, ProgInv, MasterInv
<1> QED
  BY <1>1, <1>3, <1>4, <1>5 DEF MasterInv

\* What the master does with the answer it waits for keeps the invariant.
LEMMA ProceedKeeps ==
  ASSUME ProgInv, Waiting, NEW m \in Mailboxes, outbox[m] # NoReply,
         outbox[m].type = expect, outbox' = [outbox EXCEPT ![m] = NoReply],
         UNCHANGED <<vars, fifo>>, Proceed(outbox[m])
  PROVE  MasterInv'
<1> DEFINE p == Image[Plan[nth]]
<1> USE DEF ProgInv, MasterInv, Ask
<1>1. CASE expect = "PROG_REQ_RESP"
  <2>1. todo' = Request("UNLOCK") /\ expect' = "UNLOCKED" /\ nth' = nth
    BY <1>1 DEF Proceed
  <2>2. Request("UNLOCK") \in Seq(Command)
    BY SentFrames DEF Bare
  <2>3. \A i \in DOMAIN Request("UNLOCK") :
          /\ Asked(Request("UNLOCK")[i], expect', nth')
          /\ i < Len(Request("UNLOCK")) => Plain(Request("UNLOCK")[i])
    BY <2>1, Requests DEF Asked, Bare
  <2> QED
    BY <2>1, <2>2, <2>3, StageKeeps
<1>2. CASE expect = "UNLOCKED"
  <2>1. SelectOrFinish(1)
    BY <1>2 DEF Proceed
  <2>2. 1 \in 1 .. Len(Plan) + 1 /\ \A k \in DOMAIN Plan : ~(k < 1)
    BY ProgrammingAssumption
  <2> QED
    BY <2>1, <2>2, SelectKeeps
<1>3. CASE expect = "PAGE_SELECTED"
  <2>1. todo' = WritePage(p) /\ expect' = "WRITES_CHECKED" /\ nth' = nth
    BY <1>3 DEF Proceed
  <2>2. nth \in DOMAIN Plan /\ addr = Plan[nth]
    BY <1>3 DEF WireTypes, AgreeInv
  <2>3. /\ WritePage(p) \in Seq(Command)
        /\ \A i \in DOMAIN WritePage(p) :
             /\ Asked(WritePage(p)[i], expect', nth')
             /\ i < Len(WritePage(p)) => Plain(WritePage(p)[i])
    BY <2>1, <2>2, SentPage DEF Asked, Plain
  <2> HIDE DEF p
  <2> QED
    BY <1>3, <2>1, <2>2, <2>3, StageKeeps
<1>4. CASE expect = "WRITES_CHECKED" /\ outbox[m].crc = Crc(p)
  <2>1. todo' = Request("COMMIT_WRITES") /\ expect' = "WRITES_COMMITTED" /\ nth' = nth
    BY <1>4 DEF Proceed
  <2>2. Request("COMMIT_WRITES") \in Seq(Command)
    BY SentFrames DEF Bare
  <2>3. \A i \in DOMAIN Request("COMMIT_WRITES") :
          /\ Asked(Request("COMMIT_WRITES")[i], expect', nth')
          /\ i < Len(Request("COMMIT_WRITES")) => Plain(Request("COMMIT_WRITES")[i])
    BY <2>1, Requests DEF Asked, Bare
  <2>4. state = "UNLOCKED" => addr = Plan[nth]
    BY <1>4 DEF AgreeInv
  <2>5. Checked(writes, Plan[nth])
    BY <1>4 DEF AgreeInv, Checked, IInv, TypeOK, PumpTypeOK
  <2> QED
    BY <1>4, <2>1, <2>2, <2>3, <2>4, <2>5, StageKeeps
<1>5. CASE expect = "WRITES_CHECKED" /\ outbox[m].crc # Crc(p)
  <2>1. todo' = Rewind \o WritePage(p) /\ expect' = "WRITES_CHECKED" /\ nth' = nth
    BY <1>5 DEF Proceed
  <2>2. nth \in DOMAIN Plan
    BY <1>5 DEF WireTypes
  <2>3. /\ Rewind \o WritePage(p) \in Seq(Command)
        /\ \A i \in DOMAIN (Rewind \o WritePage(p)) :
             /\ Asked((Rewind \o WritePage(p))[i], expect', nth')
             /\ i < Len(Rewind \o WritePage(p)) => Plain((Rewind \o WritePage(p))[i])
    BY <2>1, <2>2, SentPage DEF Asked, Plain
  <2>4. state = "UNLOCKED" => addr = Plan[nth]
    BY <1>5 DEF AgreeInv
  <2> HIDE DEF p
  <2> QED
    BY <1>5, <2>1, <2>3, <2>4, StageKeeps
<1>6. CASE expect = "WRITES_COMMITTED"
  <2>1. SelectOrFinish(nth + 1) /\ nth \in DOMAIN Plan /\ nth + 1 \in 1 .. Len(Plan) + 1
    BY <1>6, ProgrammingAssumption DEF Proceed, WireTypes
  <2>2. \A k \in DOMAIN Plan : k < nth + 1 => Checked(mem[Plan[k]], Plan[k])
    <3> SUFFICES ASSUME NEW k \in DOMAIN Plan, k < nth + 1
                 PROVE  Checked(mem[Plan[k]], Plan[k])
      OBVIOUS
    <3>1. CASE Plan[k] = Plan[nth]
      BY <1>6, <3>1 DEF AgreeInv
    <3>2. CASE Plan[k] # Plan[nth]
      <4>1. k < nth
        BY <2>1, <3>2, ProgrammingAssumption
      <4> QED
        BY <1>6, <3>2, <4>1 DEF DoneInv
    <3> QED
      BY <3>1, <3>2
  <2> QED
    BY <2>1, <2>2, SelectKeeps
<1>7. CASE expect = "PROG_DONE_ACK"
  <2>1. todo' = <<>> /\ expect' = "SUCCESS" /\ nth' = nth
    BY <1>7 DEF Proceed
  <2>2. <<>> \in Seq(Command) /\ DOMAIN <<>> = {}
    OBVIOUS
  <2> QED
    BY <1>7, <2>1, <2>2, StageKeeps
<1> QED
  BY <1>1, <1>2, <1>3, <1>4, <1>5, <1>6, <1>7 DEF Proceed

\* An answer on the bus keeps the invariant.
LEMMA TransmitKeeps ==
  ASSUME ProgInv, NEW m \in Mailboxes, Transmit(m)
  PROVE  MasterInv'
<1>1. outbox[m] # NoReply /\ outbox' = [outbox EXCEPT ![m] = NoReply] /\ UNCHANGED <<vars, fifo>>
  BY DEF Transmit
<1>2. CASE Waiting /\ outbox[m].type = expect
  BY <1>1, <1>2, ProceedKeeps DEF Transmit
<1>3. CASE ~(Waiting /\ outbox[m].type = expect)
  BY <1>1, <1>3, IgnoredKeeps DEF Transmit, masterVars
<1> QED
  BY <1>2, <1>3

-----------------------------------------------------------------------------
(* The device's steps *)

\* The page that is being changed is the one the master is about.
LEMMA CommitIsAsked ==
  ASSUME ProgInv, pc \in CommitLabels
  PROVE  /\ Busy /\ msg.type = "COMMIT_WRITES"
         /\ expect = "WRITES_COMMITTED" /\ nth \in DOMAIN Plan
         /\ addr = Plan[nth] /\ Checked(writes, Plan[nth])
<1> USE DEF ProgInv, MasterInv
<1>1. Busy /\ msg.type = "COMMIT_WRITES"
  BY DEF HandledInv, Busy, Gone, CommitLabels
<1>2. expect = "WRITES_COMMITTED"
  BY <1>1 DEF StageInv, Asked
<1>3. state = "UNLOCKED"
  BY DEF IInv, SessionInv
<1> QED
  BY <1>1, <1>2, <1>3 DEF WireTypes, AgreeInv

\* No step of the device disturbs a page that is done.
LEMMA DoneKept ==
  ASSUME ProgInv, [Next]_vars, UNCHANGED <<expect, nth>>
  PROVE  DoneInv'
<1> SUFFICES ASSUME expect \notin {"PROG_REQ_RESP", "UNLOCKED"}, NEW n \in DOMAIN Plan,
                    n < nth, nth \in DOMAIN Plan => Plan[n] # Plan[nth]
             PROVE  Checked(mem'[Plan[n]], Plan[n])
  BY DEF DoneInv
<1>1. Checked(mem[Plan[n]], Plan[n])
  BY DEF ProgInv, MasterInv, DoneInv
<1>2. Plan[n] \in Pages
  BY PlannedPage
<1>3. mem'[Plan[n]] = mem[Plan[n]]
  BY <1>2, MemChange, CommitIsAsked DEF ProgInv
<1> QED
  BY <1>1, <1>3

\* The pump takes the oldest frame.
LEMMA ReceiveKeeps ==
  ASSUME ProgInv, DeviceReceives
  PROVE  MasterInv'
<1> USE DEF ProgInv, MasterInv
<1>1. /\ pc' = "dispatch" /\ msg' = Head(fifo) /\ fifo # <<>> /\ fifo' = Tail(fifo)
      /\ UNCHANGED <<state, addr, writes, mem, outbox, todo, expect, nth>>
  BY DEF DeviceReceives, Receive, selVars, flashVars, masterVars
<1>2. fifo \in Seq(Command) /\ Len(fifo) <= FifoDepth
  BY DEF WireTypes
<1>3. /\ 1 \in DOMAIN fifo /\ msg' = fifo[1]
      /\ fifo' \in Seq(Command)
      /\ Len(fifo) \in Nat /\ Len(fifo') = Len(fifo) - 1
      /\ fifo' # <<>> => 1 < Len(fifo)
      /\ \A i \in DOMAIN fifo' : /\ i \in Nat
                                 /\ i + 1 \in DOMAIN fifo
                                 /\ fifo'[i] = fifo[i + 1]
  BY <1>1, <1>2, TailFacts
<1>4. WireTypes'
  BY <1>1, <1>2, <1>3 DEF WireTypes, FifoDepth
<1>5. HandledInv' /\ AgreeInv' /\ DoneInv'
  BY <1>1 DEF HandledInv, AgreeInv, DoneInv, CommitLabels
<1>6. \A m \in Mailboxes : ~Answer(outbox[m])
  BY <1>1 DEF LineInv
<1>7. todo' # <<>> \/ fifo' # <<>> => Plain(msg')
  BY <1>1, <1>3 DEF LineInv
<1>8. \A i \in DOMAIN fifo' : todo' # <<>> \/ i < Len(fifo') => Plain(fifo'[i])
  BY <1>1, <1>3 DEF LineInv
<1>9. LineInv'
  BY <1>1, <1>6, <1>7, <1>8 DEF LineInv
<1>10. Asked(msg', expect', nth') /\ \A i \in DOMAIN fifo' : Asked(fifo'[i], expect', nth')
  BY <1>1, <1>3 DEF StageInv
<1>11. StageInv'
  BY <1>1, <1>6, <1>10 DEF StageInv
<1> QED
  BY <1>4, <1>5, <1>9, <1>11

\* When no message is left on the bus, LineInv and StageInv are about what the
\* master has yet to send.
LEMMA ClearedKeeps ==
  ASSUME ProgInv, [Next]_vars, fifo' = <<>>, outbox' = [m \in Mailboxes |-> NoReply],
         pc' \in {"poll", "user"}, (state' = state /\ UNCHANGED vars) \/ state' = "IDLE",
         UNCHANGED masterVars
  PROVE  MasterInv'
<1> USE DEF ProgInv, MasterInv
<1>1. todo' = todo /\ expect' = expect /\ nth' = nth
  BY DEF masterVars
<1>2. \A m \in Mailboxes : outbox'[m] = NoReply /\ ~Answer(outbox'[m])
  BY DEF Answer
<1>3. ~Busy' /\ HandledInv'
  BY DEF Busy, Gone, HandledInv, CommitLabels
<1>4. WireTypes'
  BY <1>1 DEF WireTypes, FifoDepth, Reply
<1>5. LineInv' /\ StageInv'
  BY <1>1, <1>2, <1>3 DEF LineInv, StageInv
<1>6. AgreeInv'
  <2>1. CASE state' = "IDLE"
    BY <1>2, <2>1, AgreeWithoutAnswers
  <2>2. CASE state' = state /\ UNCHANGED vars
    BY <1>1, <1>2, <2>2, AgreeWithoutAnswers DEF vars, pumpVars, AgreeInv
  <2> QED
    BY <2>1, <2>2
<1>7. DoneInv'
  BY <1>1, DoneKept
<1> QED
  BY <1>3, <1>4, <1>5, <1>6, <1>7

\* The time-out changes `state' alone, and not to UNLOCKED.
LEMMA TimeoutKeeps ==
  ASSUME ProgInv, DeviceTimesOut
  PROVE  MasterInv'
<1> USE DEF ProgInv, MasterInv
<1>1. /\ state' = "DONE"
      /\ UNCHANGED <<pc, msg, addr, writes, mem, fifo, outbox, todo, expect, nth>>
  BY DEF DeviceTimesOut, Expire, Timeout, selVars, flashVars, linkVars, masterVars
<1>2. WireTypes' /\ HandledInv' /\ DoneInv'
  BY <1>1 DEF WireTypes, HandledInv, DoneInv
<1>3. Busy' <=> Busy
  BY <1>1 DEF Busy
<1>4. LineInv' /\ StageInv'
  BY <1>1, <1>3 DEF LineInv, StageInv
<1>5. AgreeInv'
  BY <1>1 DEF AgreeInv
<1> QED
  BY <1>2, <1>4, <1>5

\* What the main program does to the command it handles and to the mailboxes:
\* it goes on, or ends and leaves a reply in at most one of them.
LEMMA RunEffect ==
  ASSUME ProgInv, DeviceRuns
  PROVE  /\ HandledInv'
         /\ UNCHANGED <<fifo, todo, expect, nth>>
         /\ Busy' => Busy /\ msg' = msg
         /\ \/ outbox' = outbox
            \/ /\ Busy /\ ~Busy' /\ Responds(msg, out')
               /\ \E m \in FreeMailboxes : outbox' = [outbox EXCEPT ![m] = out']
<1> USE DEF ProgInv, MasterInv
<1>1. Main /\ UNCHANGED <<fifo, todo, expect, nth>>
  BY DEF DeviceRuns, masterVars
<1>2. HandlerStep /\ HandledInv'
  BY <1>1, PumpHandles, DriversHandle DEF Main
<1>3. CASE ~Busy
  <2>1. ~Busy' /\ out' = out
    BY <1>1, <1>3, NotBusyStep
  <2>2. outbox' = outbox
    BY <2>1 DEF DeviceRuns, Sends
  <2> QED
    BY <1>1, <1>2, <2>1, <2>2
<1>4. CASE Busy
  <2>1. out = NoReply
    BY <1>4 DEF IInv, AnswerInv, Busy, Gone
  <2>2. CASE msg' = msg /\ out' = out
    BY <1>1, <1>2, <1>4, <2>2 DEF DeviceRuns, Sends
  <2>3. CASE pc' = "poll" /\ out' = NoReply
    BY <1>1, <1>2, <2>1, <2>3 DEF DeviceRuns, Sends, Busy
  <2>4. CASE pc' = "poll" /\ Responds(msg, out')
    <3>1. ~Busy'
      BY <2>4 DEF Busy
    <3>2. \/ outbox' = outbox
          \/ \E m \in FreeMailboxes : outbox' = [outbox EXCEPT ![m] = out']
      BY DEF DeviceRuns
    <3> QED
      BY <1>1, <1>2, <1>4, <2>4, <3>1, <3>2
  <2> QED
    BY <1>2, <2>2, <2>3, <2>4 DEF HandlerStep
<1> QED
  BY <1>3, <1>4

\* A reply to what the master has asked for is the answer it waits for, and
\* tells the truth about the page it is about.
LEMMA ReplyIsAnswer ==
  ASSUME ProgInv, Busy, NEW r, Responds(msg, r)
  PROVE  /\ Answer(r) => r.type = expect /\ ~Plain(msg)
         /\ r.type = "PAGE_SELECTED" => addr' = Plan[nth]
         /\ r.type = "WRITES_CHECKED" => r.crc = Crc(writes')
         /\ r.type = "WRITES_COMMITTED" => Checked(mem'[Plan[nth]], Plan[nth])
<1> USE DEF ProgInv, MasterInv
<1>1. Asked(msg, expect, nth)
  BY DEF StageInv
<1>2. Answer(r) => r.type = expect /\ ~Plain(msg)
  BY <1>1 DEF Responds, Asked, Answer, Plain
<1>3. r.type = "PAGE_SELECTED" => addr' = Plan[nth]
  <2> SUFFICES ASSUME r.type = "PAGE_SELECTED"
               PROVE  addr' = Plan[nth]
    OBVIOUS
  <2>1. /\ expect = "PAGE_SELECTED" /\ msg.word = Plan[nth]
        /\ addr' = PageMask(msg.word)
    BY <1>1 DEF Responds, Asked
  <2>2. nth \in DOMAIN Plan
    BY <2>1 DEF WireTypes
  <2> QED
    BY <2>1, <2>2, PlannedPage
<1>4. r.type = "WRITES_CHECKED" => r.crc = Crc(writes')
  BY DEF Responds
<1>5. r.type = "WRITES_COMMITTED" => Checked(mem'[Plan[nth]], Plan[nth])
  <2> SUFFICES ASSUME r.type = "WRITES_COMMITTED"
               PROVE  Checked(mem'[Plan[nth]], Plan[nth])
    OBVIOUS
  <2>1. expect = "WRITES_COMMITTED" /\ state = "UNLOCKED" /\ mem'[addr] = writes
    BY <1>1 DEF Responds, Asked
  <2> QED
    BY <2>1 DEF AgreeInv
<1> QED
  BY <1>2, <1>3, <1>4, <1>5

\* What the main program changes leaves device and master in agreement, the
\* reply it may have posted included.
LEMMA RunAgrees ==
  ASSUME ProgInv, DeviceRuns
  PROVE  AgreeInv'
<1> USE DEF ProgInv, MasterInv
<1>1. Main /\ expect' = expect /\ nth' = nth /\ [Next]_vars
  BY DEF DeviceRuns, masterVars, Next, Run
<1>2. /\ state' = "UNLOCKED" => state = "UNLOCKED" \/ (Busy /\ msg.type = "UNLOCK")
      /\ addr' # addr => Busy /\ msg.type = "SELECT_PAGE"
      /\ writes' # writes => Busy /\ msg.type = "WRITE"
  BY <1>1, HandlerChanges
<1>3. Busy => Asked(msg, expect, nth)
  BY DEF StageInv
<1>4. expect \in {"WRITES_CHECKED", "WRITES_COMMITTED"} /\ state' = "UNLOCKED"
        => addr' = Plan[nth]
  BY <1>2, <1>3 DEF AgreeInv, Asked
<1>5. expect = "WRITES_COMMITTED" /\ state' = "UNLOCKED" => Checked(writes', Plan[nth])
  BY <1>2, <1>3 DEF AgreeInv, Asked
<1>6. ASSUME NEW m \in Mailboxes
      PROVE  /\ outbox'[m].type = "PAGE_SELECTED" => addr' = Plan[nth]
             /\ outbox'[m].type = "WRITES_CHECKED" => outbox'[m].crc = Crc(writes')
             /\ outbox'[m].type = "WRITES_COMMITTED"
                  => Checked(mem'[Plan[nth]], Plan[nth])
  <2>1. CASE outbox'[m] = outbox[m] /\ Answer(outbox[m])
    <3>1. ~Busy /\ outbox[m].type = expect
      BY <2>1 DEF LineInv, StageInv
    <3>2. addr' = addr /\ writes' = writes
      BY <1>2, <3>1
    <3>3. outbox[m].type = "WRITES_COMMITTED" => mem'[Plan[nth]] = mem[Plan[nth]]
      <4>1. pc \notin CommitLabels
        BY <3>1 DEF Busy, Gone, CommitLabels
      <4>2. outbox[m].type = "WRITES_COMMITTED" => Plan[nth] \in Pages
        BY <3>1, PlannedPage DEF WireTypes
      <4> QED
        BY <1>1, <4>1, <4>2, MemChange
    <3> QED
      BY <2>1, <3>2, <3>3 DEF AgreeInv
  <2>2. CASE ~Answer(outbox'[m])
    BY <2>2 DEF Answer, NoReply
  <2>3. CASE outbox'[m] # outbox[m]
    <3>1. Busy /\ Responds(msg, out') /\ outbox'[m] = out'
      BY <2>3, RunEffect DEF WireTypes, FreeMailboxes
    <3> QED
      BY <3>1, ReplyIsAnswer
  <2> QED
    BY <2>1, <2>2, <2>3
<1> QED
  BY <1>1, <1>4, <1>5, <1>6 DEF AgreeInv

\* The main program keeps the invariant.
LEMMA RunKeeps ==
  ASSUME ProgInv, IInv', DeviceRuns
  PROVE  MasterInv'
<1> USE DEF ProgInv, MasterInv
<1>1. /\ HandledInv'
      /\ UNCHANGED <<fifo, todo, expect, nth>>
      /\ Busy' => Busy /\ msg' = msg
      /\ \/ outbox' = outbox
         \/ /\ Busy /\ ~Busy' /\ Responds(msg, out')
            /\ \E m \in FreeMailboxes : outbox' = [outbox EXCEPT ![m] = out']
  BY RunEffect
<1>2. AgreeInv' /\ DoneInv'
  <2>1. [Next]_vars
    BY DEF DeviceRuns, Next, Run
  <2> QED
    BY <1>1, <2>1, RunAgrees, DoneKept
<1>3. CASE outbox' = outbox
  <2>1. WireTypes'
    BY <1>1, <1>3 DEF WireTypes
  <2>2. LineInv' /\ StageInv'
    BY <1>1, <1>3 DEF LineInv, StageInv
  <2> QED
    BY <1>1, <1>2, <2>1, <2>2
<1>4. ASSUME NEW m \in FreeMailboxes, Busy, ~Busy', Responds(msg, out'),
             outbox' = [outbox EXCEPT ![m] = out']
      PROVE  MasterInv'
  <2>1. out' \in Reply /\ m \in Mailboxes
    BY DEF IInv, TypeOK, PumpTypeOK, FreeMailboxes
  <2>2. /\ outbox' \in [Mailboxes -> Reply]
        /\ \A n \in Mailboxes : outbox'[n] = IF n = m THEN out' ELSE outbox[n]
    BY <1>4, <2>1 DEF WireTypes
  <2>3. WireTypes'
    BY <1>1, <2>2 DEF WireTypes
  <2>4. \A n \in Mailboxes : ~Answer(outbox[n])
    BY <1>4 DEF LineInv
  <2>5. Answer(out') => out'.type = expect /\ todo = <<>> /\ fifo = <<>>
    BY <1>4, ReplyIsAnswer DEF LineInv
  <2>6. LineInv'
    BY <1>1, <1>4, <2>1, <2>2, <2>4, <2>5 DEF LineInv
  <2>7. StageInv'
    BY <1>1, <1>4, <2>1, <2>2, <2>4, <2>5 DEF StageInv
  <2> QED
    BY <1>1, <1>2, <2>3, <2>6, <2>7
<1> QED
  BY <1>1, <1>3, <1>4

-----------------------------------------------------------------------------
(* The inductive invariant and what follows from it *)

\* The inductive invariant holds initially.
LEMMA InitProgInv ==
  ASSUME ProgInit
  PROVE  ProgInv
<1>1. IInv /\ pc = "poll" /\ state = "IDLE"
  BY InitIInv DEF ProgInit, Init, PumpInit, Start
<1>2. /\ fifo = <<>> /\ outbox = [m \in Mailboxes |-> NoReply]
      /\ todo = Request("PROG_REQ") /\ expect = "PROG_REQ_RESP" /\ nth = 1
  BY DEF ProgInit
<1>3. /\ todo \in Seq(Command) /\ Len(todo) = 1 /\ DOMAIN todo = {1}
      /\ todo[1] = [type |-> "PROG_REQ"]
  BY <1>2, SentFrames DEF Bare
<1>4. \A m \in Mailboxes : outbox[m].type = "NONE" /\ ~Answer(outbox[m])
  BY <1>2 DEF Answer, NoReply
<1>5. WireTypes
  <2>1. Len(Plan) \in Nat
    BY ProgrammingAssumption
  <2> QED
    BY <1>2, <1>3, <2>1, ProgrammingAssumption DEF WireTypes, FifoDepth, Reply
<1>6. ~Busy /\ HandledInv
  BY <1>1 DEF Busy, HandledInv, CommitLabels
<1>7. LineInv /\ StageInv
  BY <1>2, <1>3, <1>4, <1>6 DEF LineInv, StageInv, Plain, Asked
<1>8. AgreeInv /\ DoneInv
  BY <1>2, <1>4 DEF AgreeInv, DoneInv
<1> QED
  BY <1>1, <1>5, <1>6, <1>7, <1>8 DEF ProgInv, MasterInv

\* Every step, of the master, of the device and of what lies between them,
\* preserves it.
LEMMA NextProgInv ==
  ASSUME ProgInv, [ProgNext]_progVars
  PROVE  ProgInv'
<1>1. [Next]_vars
  BY DeviceSteps DEF ProgInv, MasterInv
<1>2. IInv'
  BY <1>1, NextIInv DEF ProgInv
<1>3. MasterInv'
  <2>1. CASE MasterSends \/ RequestAgain \/ StartOver
    BY <2>1, MasterSendsKeeps, RequestAgainKeeps, StartOverKeeps
  <2>2. CASE \E m \in Mailboxes : Transmit(m)
    BY <2>2, TransmitKeeps
  <2>3. CASE DeviceReceives \/ DeviceTimesOut
    BY <2>3, ReceiveKeeps, TimeoutKeeps
  <2>4. CASE DeviceRuns
    BY <1>2, <2>4, RunKeeps
  <2>5. CASE DeviceResets
    BY <1>1, <2>5, ClearedKeeps DEF DeviceResets, Reset, PumpReset, Start
  <2>6. CASE UserResetsCan
    BY <1>1, <2>6, ClearedKeeps DEF UserResetsCan, vars, pumpVars
  <2>7. CASE UNCHANGED progVars
    BY <2>7 DEF progVars, linkVars, masterVars, vars, pumpVars, flashVars, ProgInv,
       MasterInv, WireTypes, HandledInv, LineInv, StageInv, AgreeInv, DoneInv, Busy
  <2> QED
    BY <2>1, <2>2, <2>3, <2>4, <2>5, <2>6, <2>7 DEF ProgNext
<1> QED
  BY <1>2, <1>3 DEF ProgInv

\* The invariant of master, bus and device.
THEOREM ProgInvariance == ProgSpec => []ProgInv
<1>1. ProgInit => ProgInv
  BY InitProgInv
<1>2. ProgInv /\ [ProgNext]_progVars => ProgInv'
  BY NextProgInv
<1> QED
  BY <1>1, <1>2, PTL DEF ProgSpec

\* Whatever the master, the bus and the controllers do, the device does what
\* Stm32Device says: its theorems hold of the composition.
THEOREM DeviceIsImplemented == ProgSpec => Spec
<1>1. ProgInit => Init
  BY DEF ProgInit
<1>2. ProgInv /\ [ProgNext]_progVars => [Next]_vars
  BY DeviceSteps DEF ProgInv, MasterInv
<1> QED
  BY <1>1, <1>2, ProgInvariance, PTL DEF ProgSpec, Spec

\* The program a master reports as done is in flash (main.c:116-188).
THEOREM SuccessIsTrue == ProgSpec => []ReportedIsStored
<1>1. ProgInv => ReportedIsStored
  <2> SUFFICES ASSUME ProgInv, expect = "SUCCESS", NEW a \in DOMAIN Image
               PROVE  Checked(mem[a], a)
    BY DEF ReportedIsStored
  <2>1. PICK n \in DOMAIN Plan : Plan[n] = a
    BY ProgrammingAssumption
  <2>2. nth = Len(Plan) + 1 /\ Len(Plan) \in Nat /\ DOMAIN Plan = 1 .. Len(Plan)
    BY ProgrammingAssumption DEF ProgInv, MasterInv, WireTypes
  <2>3. n < nth /\ nth \notin DOMAIN Plan
    BY <2>2
  <2> QED
    BY <2>1, <2>3 DEF ProgInv, MasterInv, DoneInv
<1> QED
  BY <1>1, ProgInvariance, PTL

\* Nothing is written that the master has not checked, nor anywhere but where
\* it belongs (main.c:127, 147-163).
THEOREM WrittenIsChecked == ProgSpec => []OnlyCheckedIsWritten
<1>1. ProgInv => OnlyCheckedIsWritten
  BY CommitIsAsked, PlannedPage DEF OnlyCheckedIsWritten
<1> QED
  BY <1>1, ProgInvariance, PTL
=============================================================================
