----------------------------- MODULE PumpProofs -----------------------------
(***************************************************************************)
(* What cnFlashPageWriteable accepts, for every layout of flash, and       *)
(* lemmas about the steps of the pump, for the proofs about both devices.  *)
(***************************************************************************)
EXTENDS Pump, TLAPS

-----------------------------------------------------------------------------
(* Multiples of the page size *)

\* Quotient and remainder of the division by a positive number.
LEMMA DivMod ==
  ASSUME NEW p \in Nat \ {0}, NEW a \in Nat
  PROVE  /\ a \div p \in Nat
         /\ a % p \in 0 .. p - 1
         /\ a = p * (a \div p) + (a % p)
OBVIOUS

\* A multiple of p that is smaller than p, in either direction, is 0.
LEMMA SmallMultiple ==
  ASSUME NEW p \in Nat \ {0}, NEW k \in Int, NEW r \in 0 .. p - 1, r = p * k
  PROVE  r = 0
<1>1. k <= -1 \/ k = 0 \/ k >= 1
  OBVIOUS
<1>2. CASE k >= 1
  <2>1. p * k >= p
    BY <1>2
  <2> QED
    BY <2>1
<1>3. CASE k <= -1
  <2>1. p * k <= -p
    BY <1>3
  <2> QED
    BY <2>1
<1> QED
  BY <1>1, <1>2, <1>3

\* A product is divisible by its first factor.
LEMMA MultipleMod ==
  ASSUME NEW p \in Nat \ {0}, NEW k \in Nat
  PROVE  (p * k) % p = 0
OBVIOUS

\* The remainder of a multiple of n by a multiple of n is a multiple of n.
LEMMA ModOfMultiples ==
  ASSUME NEW p \in Nat \ {0}, NEW f \in Nat \ {0}, NEW a \in Nat,
         f % p = 0, a % p = 0
  PROVE  (a % f) % p = 0
<1> DEFINE m == f \div p
           n == a \div p
           q == a \div f
           r == a % f
           s == r \div p
           t == r % p
<1>1. m \in Nat /\ n \in Nat /\ q \in Nat /\ r \in Nat /\ s \in Nat /\ t \in 0 .. p - 1
  <2>1. m \in Nat /\ n \in Nat
    BY DivMod
  <2>2. q \in Nat /\ r \in Nat
    BY DivMod
  <2> HIDE DEF r
  <2>3. s \in Nat /\ t \in 0 .. p - 1
    BY <2>2, DivMod
  <2> QED
    BY <2>1, <2>2, <2>3
<1>2. f = p * m /\ a = p * n
  BY DivMod
<1>3. a = f * q + r /\ r = p * s + t
  BY <1>1, DivMod
<1> HIDE DEF m, n, q, r, s, t
<1>4. p * n = (p * m) * q + (p * s + t)
  BY <1>2, <1>3
<1>5. (p * m) * q = p * (m * q)
  BY <1>1
<1>6. m * q \in Int
  BY <1>1
<1>7. t = p * (n - m * q - s)
  BY <1>1, <1>4, <1>5, <1>6
<1>8. t = 0
  BY <1>1, <1>6, <1>7, SmallMultiple
<1> QED
  BY <1>8 DEF t, r

\* Two aligned addresses are at least a page apart.
LEMMA AlignedGap ==
  ASSUME NEW a \in Nat, NEW b \in Nat, Aligned(a), Aligned(b), a < b
  PROVE  a + PageSize <= b
<1> DEFINE m == a \div PageSize
           n == b \div PageSize
<1>1. m \in Nat /\ n \in Nat /\ a = PageSize * m /\ b = PageSize * n
  BY DivMod, LayoutAssumption DEF Aligned
<1> HIDE DEF m, n
<1>2. n >= m + 1
  <2>1. n <= m => PageSize * n <= PageSize * m
    BY <1>1, LayoutAssumption
  <2> QED
    BY <1>1, <2>1, LayoutAssumption
<1>3. PageSize * n >= PageSize * (m + 1)
  BY <1>1, <1>2, LayoutAssumption
<1>4. PageSize * (m + 1) = PageSize * m + PageSize
  BY <1>1, LayoutAssumption
<1> QED
  BY <1>1, <1>3, <1>4, LayoutAssumption

\* The difference of two page addresses is a multiple of the page size.
LEMMA AlignedDifference ==
  ASSUME NEW a \in Nat, NEW b \in Nat, Aligned(a), Aligned(b), a < b
  PROVE  Aligned(b - a)
<1> DEFINE m == a \div PageSize
           n == b \div PageSize
<1>1. m \in Nat /\ n \in Nat /\ a = PageSize * m /\ b = PageSize * n
  BY DivMod, LayoutAssumption DEF Aligned
<1> HIDE DEF m, n
<1>2. n - m \in Nat
  <2>1. n <= m => PageSize * n <= PageSize * m
    BY <1>1, LayoutAssumption
  <2> QED
    BY <1>1, <2>1, LayoutAssumption
<1>3. b - a = PageSize * (n - m)
  BY <1>1, LayoutAssumption
<1>4. (PageSize * (n - m)) % PageSize = 0
  BY <1>2, MultipleMod, LayoutAssumption
<1> QED
  BY <1>3, <1>4 DEF Aligned

-----------------------------------------------------------------------------
(* Addresses *)

\* A masked word is the address of a page (main.c:123).
LEMMA MaskedIsAligned ==
  ASSUME NEW w \in Nat
  PROVE  /\ PageMask(w) \in Nat
         /\ PageMask(w) < AddrMod
         /\ Aligned(PageMask(w))
<1> DEFINE x == w % AddrMod
           q == x \div PageSize
<1>1. x \in Nat /\ x < AddrMod
  BY LayoutAssumption
<1>2. q \in Nat /\ x = PageSize * q + (x % PageSize) /\ x % PageSize \in Nat
  BY <1>1, DivMod, LayoutAssumption
<1>3. PageMask(w) = q * PageSize
  BY DEF PageMask
<1> HIDE DEF q, x
<1>4. q * PageSize = PageSize * q /\ PageSize * q \in Nat
  BY <1>2, LayoutAssumption
<1>5. PageSize * q < AddrMod
  BY <1>1, <1>2, <1>4, LayoutAssumption
<1>6. (PageSize * q) % PageSize = 0
  BY <1>2, MultipleMod, LayoutAssumption
<1> QED
  BY <1>3, <1>4, <1>5, <1>6 DEF Aligned

\* The bounds of the application are page addresses.
LEMMA AppBounds ==
  /\ AppStart \in Nat /\ AppEnd \in Nat /\ Aligned(AppEnd)
  /\ FlashStart <= AppStart /\ AppEnd <= FlashEnd
<1>1. Aligned(FlashEnd) /\ Aligned(BootSize)
  BY LayoutAssumption DEF Aligned
<1>2. BootSize \in Nat /\ FlashEnd \in Nat /\ BootSize < FlashEnd
  BY LayoutAssumption
<1>3. Aligned(FlashEnd - BootSize)
  BY <1>1, <1>2, AlignedDifference
<1> QED
  BY <1>1, <1>3, LayoutAssumption DEF AppStart, AppEnd

\* cnFlashPageWriteable is right about every page address but two: it refuses
\* the last page of the application, and it may accept the page at the end of
\* the address space (stm32/flash.c:48-53, avr/flash.c:22-27).
THEOREM WriteableExactly ==
  ASSUME NEW a \in Nat, a < AddrMod, Aligned(a), a # AddrMod - PageSize
  PROVE  PageWriteable(a) <=> (a \in AppPages /\ a # AppEnd - PageSize)
<1>1. a + PageSize < AddrMod
  <2>1. AddrMod \in Nat /\ Aligned(AddrMod)
    BY LayoutAssumption DEF Aligned
  <2>2. a + PageSize <= AddrMod
    BY <2>1, AlignedGap
  <2> QED
    BY <2>1, <2>2, LayoutAssumption
<1>2. (a + PageSize) % AddrMod = a + PageSize
  BY <1>1, LayoutAssumption
<1>3. PageWriteable(a) <=> (a >= AppStart /\ a + PageSize < AppEnd)
  BY <1>2 DEF PageWriteable, BelowEnd
<1>4. a \in AppPages <=> (a >= AppStart /\ a < AppEnd)
  BY AppBounds, LayoutAssumption DEF AppPages, Pages
<1>5. a < AppEnd => a + PageSize <= AppEnd
  BY AlignedGap, AppBounds
<1> QED
  BY <1>3, <1>4, <1>5, AppBounds, LayoutAssumption

-----------------------------------------------------------------------------
(* Type correctness of the pump *)

\* The head stays within the page, and so do the bytes the loop of WRITE
\* stores (main.c:148-154).
LEMMA StoredInPage ==
  ASSUME writeOffset \in 0 .. PageSize, NEW d \in Seq(Byte)
  PROVE  /\ Stored(d) \in Nat
         /\ Stored(d) <= Len(d)
         /\ writeOffset + Stored(d) \in 0 .. PageSize
<1>1. Len(d) \in Nat
  OBVIOUS
<1> QED
  BY <1>1, LayoutAssumption DEF Stored

\* WRITE keeps the page buffer and its head in range.
LEMMA WriteType ==
  ASSUME PumpTypeOK, Write, msg \in Command
  PROVE  PumpTypeOK'
<1>1. msg.data \in Seq(Byte)
  <2>1. msg.type = "WRITE"
    BY DEF Write, Handling
  <2>2. msg.data \in Chunks
    BY <2>1 DEF Command, Bare
  <2> QED
    BY <2>2, PumpAssumption
<1> DEFINE n == Stored(msg.data)
<1>2. /\ n \in Nat
      /\ n <= Len(msg.data)
      /\ writeOffset + n \in 0 .. PageSize
  BY <1>1, StoredInPage DEF PumpTypeOK
<1>3. \A i \in Index : (i >= writeOffset /\ i < writeOffset + n)
                         => msg.data[i - writeOffset + 1] \in Byte
  <2> TAKE i \in Index
  <2> HAVE i >= writeOffset /\ i < writeOffset + n
  <2>1. i - writeOffset + 1 \in 1 .. Len(msg.data)
    BY <1>1, <1>2, LayoutAssumption DEF PumpTypeOK, Index
  <2> QED
    BY <1>1, <2>1
<1>4. writes' \in Page
  BY <1>3 DEF Write, Page, PumpTypeOK
<1>5. writeOffset' \in 0 .. PageSize
  BY <1>2 DEF Write
<1>6. out' \in Reply /\ pc' \in Labels /\ msg' \in Command \cup {NoMsg}
  BY DEF Write, Finish, Reply, Labels
<1>7. state' \in States /\ timer' \in {"armed", "stopped", "fired"} /\ addr' \in Nat
  BY DEF Write, PumpTypeOK
<1> QED
  BY <1>4, <1>5, <1>6, <1>7 DEF PumpTypeOK

\* SELECT_PAGE keeps the types.
LEMMA SelectPageType ==
  ASSUME PumpTypeOK, SelectPage, msg \in Command
  PROVE  PumpTypeOK'
<1>1. msg.type = "SELECT_PAGE"
  BY DEF SelectPage, Handling
<1>2. msg.word \in Words \cup {NoWord}
  BY <1>1 DEF Command, Bare
<1>3. msg.word # NoWord => PageMask(msg.word) \in Nat
  BY <1>2, MaskedIsAligned, PumpAssumption
<1>4. addr' \in Nat /\ out' \in Reply
  BY <1>3 DEF SelectPage, Finish, PumpTypeOK, Reply, PageSelected
<1> QED
  BY <1>4 DEF SelectPage, Finish, PumpTypeOK, Labels

\* Every step of the main program keeps the types of the pump's variables.
LEMMA PumpStepType ==
  ASSUME PumpTypeOK, SessionInv, PumpStep
  PROVE  PumpTypeOK'
<1>c. ASSUME NEW t, Handling(t)
      PROVE  msg \in Command
  BY <1>c DEF Handling, SessionInv
<1>1. CASE LeaveLoop
  BY <1>1 DEF LeaveLoop, Goto, selVars, PumpTypeOK, Labels
<1>2. CASE ProgReq
  <2>1. ProgReqResp \in Reply
    BY DEF Reply
  <2> QED
    BY <1>2, <2>1 DEF ProgReq, Goto, Finish, selVars, PumpTypeOK, Labels
<1>3. CASE StopTimer
  BY <1>3 DEF StopTimer, Goto, TimerOff, selVars, PumpTypeOK, Labels
<1>4. CASE SetLocked
  <2>1. ProgReqResp \in Reply
    BY DEF Reply
  <2> QED
    BY <1>4, <2>1 DEF SetLocked, Finish, selVars, PumpTypeOK, Labels, States
<1>5. CASE UnlockTest
  BY <1>5 DEF UnlockTest, Goto, Finish, selVars, PumpTypeOK, Labels, Reply
<1>6. CASE UnlockSkipped
  BY <1>6 DEF UnlockSkipped, Goto, selVars, PumpTypeOK, Labels
<1>7. CASE SetUnlocked
  BY <1>7 DEF SetUnlocked, Finish, selVars, PumpTypeOK, Labels, Reply, States
<1>8. CASE SelectPage
  BY <1>8, <1>c, SelectPageType DEF SelectPage
<1>9. CASE Seek
  <2>1. msg \in Command /\ msg.type = "SEEK"
    BY <1>9, <1>c DEF Seek, Handling
  <2>2. msg.word \in Words \cup {NoWord}
    BY <2>1 DEF Command, Bare
  <2>3. writeOffset' \in 0 .. PageSize
    <3>1. msg.word # NoWord => msg.word \in Nat
      BY <2>2, PumpAssumption
    <3>2. msg.word # NoWord /\ msg.word < PageSize => msg.word \in 0 .. PageSize
      BY <3>1, LayoutAssumption
    <3> QED
      BY <1>9, <3>2 DEF Seek, PumpTypeOK
  <2> QED
    BY <1>9, <2>3 DEF Seek, Finish, PumpTypeOK, Labels, Reply
<1>10. CASE Write
  BY <1>10, <1>c, WriteType DEF Write
<1>11. CASE CheckWrites
  <2>1. WritesChecked(Crc(writes)) \in Reply
    BY PumpAssumption DEF PumpTypeOK, Reply, WritesChecked
  <2> QED
    BY <1>11, <2>1 DEF CheckWrites, Finish, selVars, PumpTypeOK, Labels
<1>12. CASE CommitTest
  BY <1>12 DEF CommitTest, Goto, Finish, selVars, PumpTypeOK, Labels, CommitLabels, Reply
<1>13. CASE CommitAck
  <2>1. WritesCommitted(addr) \in Reply
    BY DEF PumpTypeOK, Reply, WritesCommitted
  <2> QED
    BY <1>13, <2>1 DEF CommitAck, Finish, selVars, PumpTypeOK, Labels
<1>14. CASE ProgDone
  BY <1>14 DEF ProgDone, Finish, selVars, PumpTypeOK, Labels, Reply, States
<1>15. CASE Unrecognised
  BY <1>15 DEF Unrecognised, Finish, selVars, PumpTypeOK, Labels, Reply
<1> QED
  BY <1>1, <1>2, <1>3, <1>4, <1>5, <1>6, <1>7, <1>8, <1>9, <1>10, <1>11,
     <1>12, <1>13, <1>14, <1>15 DEF PumpStep

\* So do a command arriving, the interrupt and a reset.
LEMMA PumpEnvironmentType ==
  ASSUME PumpTypeOK,
         (\E m \in Command : Receive(m)) \/ Timeout \/ PumpReset
  PROVE  PumpTypeOK'
<1>1. ASSUME NEW m \in Command, Receive(m)
      PROVE  PumpTypeOK'
  BY <1>1 DEF Receive, selVars, PumpTypeOK, Labels, Reply
<1>2. CASE Timeout
  BY <1>2 DEF Timeout, selVars, PumpTypeOK, States
<1>3. CASE PumpReset
  <2>1. [i \in Index |-> 0] \in Page
    BY PumpAssumption DEF Page
  <2> QED
    BY <1>3, <2>1, LayoutAssumption
    DEF PumpReset, Start, PumpTypeOK, States, Labels, Reply
<1> QED
  BY <1>1, <1>2, <1>3

\* The initial states have their types.
LEMMA PumpInitType ==
  ASSUME PumpInit
  PROVE  PumpTypeOK /\ SessionInv
<1>1. [i \in Index |-> 0] \in Page
  BY PumpAssumption DEF Page
<1> QED
  BY <1>1, LayoutAssumption
  DEF PumpInit, Start, PumpTypeOK, SessionInv, States, Labels, Reply, Session,
      CommitLabels

-----------------------------------------------------------------------------
(* SessionInv *)

\* Every step of the main program keeps what is known of a stale `state'.
LEMMA PumpStepSession ==
  ASSUME PumpTypeOK, SessionInv, PumpStep
  PROVE  SessionInv'
<1> USE DEF SessionInv, Session, CommitLabels
<1>1. CASE LeaveLoop
  BY <1>1 DEF LeaveLoop, Goto
<1>2. CASE ProgReq
  BY <1>2 DEF ProgReq, Handling, Goto, Finish, PumpTypeOK, States
<1>3. CASE StopTimer
  BY <1>3 DEF StopTimer, Goto, TimerOff
<1>4. CASE SetLocked
  BY <1>4 DEF SetLocked, Finish
<1>5. CASE UnlockTest
  BY <1>5 DEF UnlockTest, AtLeastLocked, Handling, Goto, Finish
<1>6. CASE UnlockSkipped
  BY <1>6 DEF UnlockSkipped, Goto
<1>7. CASE SetUnlocked
  BY <1>7 DEF SetUnlocked, Finish
<1>8. CASE SelectPage
  BY <1>8 DEF SelectPage, Finish
<1>9. CASE Seek
  BY <1>9 DEF Seek, Finish
<1>10. CASE Write
  BY <1>10 DEF Write, Finish
<1>11. CASE CheckWrites
  BY <1>11 DEF CheckWrites, Finish
<1>12. CASE CommitTest
  BY <1>12 DEF CommitTest, Goto, Finish
<1>13. CASE CommitAck
  BY <1>13 DEF CommitAck, Finish
<1>14. CASE ProgDone
  BY <1>14 DEF ProgDone, Finish
<1>15. CASE Unrecognised
  BY <1>15 DEF Unrecognised, Finish
<1> QED
  BY <1>1, <1>2, <1>3, <1>4, <1>5, <1>6, <1>7, <1>8, <1>9, <1>10, <1>11,
     <1>12, <1>13, <1>14, <1>15 DEF PumpStep

\* What happens to the pump from outside preserves SessionInv.
LEMMA PumpEnvironmentSession ==
  ASSUME PumpTypeOK, SessionInv,
         (\E m \in Command : Receive(m)) \/ Timeout \/ PumpReset
  PROVE  SessionInv'
<1> USE DEF SessionInv, Session, CommitLabels
<1>1. ASSUME NEW m \in Command, Receive(m)
      PROVE  SessionInv'
  BY <1>1 DEF Receive
<1>2. CASE Timeout
  BY <1>2 DEF Timeout, PumpTypeOK, States
<1>3. CASE PumpReset
  BY <1>3 DEF PumpReset, Start
<1> QED
  BY <1>1, <1>2, <1>3

\* The only step of the pump that can take `state' from a session to DONE is
\* the handler of PROG_DONE (main.c:184-188).
LEMMA PumpStepSessionEnd ==
  ASSUME SessionInv, PumpStep \/ (\E m \in Command : Receive(m)) \/ Timeout \/ PumpReset,
         state \in Session, state' = "DONE"
  PROVE  Handling("PROG_DONE")
BY DEF SessionInv, Session, PumpStep, LeaveLoop, ProgReq, StopTimer, SetLocked,
   UnlockTest, UnlockSkipped, SetUnlocked, SelectPage, Seek, Write, CheckWrites,
   CommitTest, CommitAck, ProgDone, Unrecognised, Receive, Timeout, PumpReset, Start

-----------------------------------------------------------------------------
(* The selected page *)

\* A step of the pump preserves SelectedInv.
LEMMA PumpStepSelected ==
  ASSUME SelectedInv, SessionInv, PumpStep
  PROVE  SelectedInv'
<1>1. CASE SelectPage
  <2>1. msg \in Command /\ msg.type = "SELECT_PAGE"
    BY <1>1 DEF SelectPage, Handling, SessionInv
  <2>2. msg.word \in Words \cup {NoWord}
    BY <2>1 DEF Command, Bare
  <2>3. msg.word # NoWord => msg.word \in Nat
    BY <2>2, PumpAssumption
  <2>4. CASE msg.word # NoWord /\ PageWriteable(PageMask(msg.word))
    BY <1>1, <2>3, <2>4, MaskedIsAligned DEF SelectPage, SelectedInv
  <2>5. CASE ~(msg.word # NoWord /\ PageWriteable(PageMask(msg.word)))
    BY <1>1, <2>5 DEF SelectPage, SelectedInv
  <2> QED
    BY <2>4, <2>5
<1>2. CASE ~SelectPage
  <2>1. addr' = addr
    BY <1>2 DEF PumpStep, LeaveLoop, ProgReq, StopTimer, SetLocked, UnlockTest,
       UnlockSkipped, SetUnlocked, Seek, Write, CheckWrites, CommitTest, CommitAck,
       ProgDone, Unrecognised, selVars
  <2> QED
    BY <2>1 DEF SelectedInv
<1> QED
  BY <1>1, <1>2

\* What happens to the pump from outside preserves SelectedInv.
LEMMA PumpEnvironmentSelected ==
  ASSUME SelectedInv, (\E m \in Command : Receive(m)) \/ Timeout \/ PumpReset
  PROVE  SelectedInv'
<1>1. addr' = addr \/ addr' = 0
  BY DEF Receive, Timeout, PumpReset, Start, selVars
<1> QED
  BY <1>1 DEF SelectedInv

\* SelectedInv says what SelectedPage says.
LEMMA SelectedIsKnown ==
  ASSUME SelectedInv, addr \in Nat
  PROVE  SelectedPage
<1>1. CASE addr = 0 \/ addr = AddrMod - PageSize
  BY <1>1 DEF SelectedPage
<1>2. CASE addr # 0 /\ addr # AddrMod - PageSize
  <2>1. addr < AddrMod /\ Aligned(addr) /\ PageWriteable(addr)
    BY <1>2 DEF SelectedInv
  <2>2. addr \in AppPages /\ addr # AppEnd - PageSize
    BY <1>2, <2>1, WriteableExactly
  <2> QED
    BY <2>2 DEF SelectedPage
<1> QED
  BY <1>1, <1>2

=============================================================================
