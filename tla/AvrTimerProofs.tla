--------------------------- MODULE AvrTimerProofs ---------------------------
(***************************************************************************)
(* The AVR timer, for every width of its counter, clock, list of           *)
(* prescalers and delay: what the search for a prescaler finds, when the   *)
(* timer first rings, and that it implements Alarm.                        *)
(***************************************************************************)
EXTENDS AvrTimer, TLAPS, WellFoundedInduction

(* The search for a prescaler *)

Less == {ss \in Nat \X Nat : ss[1] < ss[2]}

\* The order of the naturals is well-founded.
LEMMA LessWellFounded == IsWellFoundedOn(Less, Nat)
BY NatLessThanWellFounded DEF OpToRel, Less

\* A set of naturals that is not empty has a least element.
LEMMA LeastElement ==
  ASSUME NEW S \in SUBSET Nat, S # {}
  PROVE  \E m \in S : \A n \in S : m <= n
<1>1. PICK m \in S : \A n \in S : ~(<<n, m>> \in Less)
  BY LessWellFounded, WFMin
<1>2. ASSUME NEW n \in S PROVE m <= n
  <2>1. m \in Nat /\ n \in Nat
    OBVIOUS
  <2>2. n < m => <<n, m>> \in Less
    BY <2>1 DEF Less
  <2> QED  BY <1>1, <2>1, <2>2
<1> QED  BY <1>2

\* A prescaler divides a delay into a natural number of its cycles.
LEMMA WantedType ==
  ASSUME NEW d \in Nat, NEW i \in DOMAIN Prescalers
  PROVE  Wanted(d, i) \in Nat
<1>1. Prescalers[i] \in Nat /\ Prescalers[i] > 0
  BY TimerAssumption
<1>2. Mhz * d \in Nat /\ Wide \in Nat /\ Wide > 0
  BY TimerAssumption
<1> DEFINE c == (Mhz * d) % Wide
<1>3. c \in Nat
  BY <1>2
<1> HIDE DEF c
<1>4. c \div Prescalers[i] \in Nat
  BY <1>1, <1>3
<1> QED  BY <1>4 DEF Wanted, c

\* The loop ends at one of the prescalers, and the count it leaves fits into
\* TCNT1, whatever the delay (timer.c:71-85).
THEOREM CountFits ==
  ASSUME NEW d \in Nat
  PROVE  /\ PscId(d) \in DOMAIN Prescalers
         /\ Cnt(d) \in 0 .. Reg - 1
<1>1. DOMAIN Prescalers \subseteq Nat /\ Len(Prescalers) \in DOMAIN Prescalers
  BY TimerAssumption
<1>2. CASE Found(d) = {}
  BY <1>1, <1>2, TimerAssumption DEF PscId, Cnt
<1>3. CASE Found(d) # {}
  <2>1. Found(d) \in SUBSET Nat
    BY <1>1 DEF Found
  <2>2. \E i \in Found(d) : \A j \in Found(d) : i <= j
    BY <1>3, <2>1, LeastElement
  <2>3. PscId(d) \in Found(d)
    BY <1>3, <2>2 DEF PscId
  <2>4. PscId(d) \in DOMAIN Prescalers /\ Wanted(d, PscId(d)) < Reg
    BY <2>3 DEF Found
  <2>5. Wanted(d, PscId(d)) \in Nat
    BY <2>4, WantedType
  <2> QED  BY <1>3, <2>4, <2>5, TimerAssumption DEF Cnt
<1> QED  BY <1>2, <1>3

\* Rounding a division down loses less than the divisor.
LEMMA RoundedDown ==
  ASSUME NEW c \in Nat, NEW p \in Nat, p > 0
  PROVE  (c \div p) * p <= c /\ c < (c \div p + 1) * p
<1>1. (c \div p) * p <= c
  OBVIOUS
<1>2. c < (c \div p + 1) * p
  OBVIOUS
<1> QED
  BY <1>1, <1>2

\* The count is the delay, rounded down to cycles of the prescaler it is used
\* with, provided that the delay in clock cycles fits into the uint32_t it is
\* computed in, and into TCNT1 after the coarsest prescaler (timer.c:68-85).
\* Nothing bounds a delay that does not fit: the loop then takes the longest.
THEOREM CountIsDelay ==
  ASSUME NEW d \in Nat, Mhz * d < Wide,
         Mhz * d < Reg * Prescalers[Len(Prescalers)]
  PROVE  /\ Cnt(d) * Prescalers[PscId(d)] <= Mhz * d
         /\ Mhz * d < (Cnt(d) + 1) * Prescalers[PscId(d)]
<1> DEFINE last == Len(Prescalers)
           c == Mhz * d
<1>1. /\ last \in DOMAIN Prescalers /\ c \in Nat /\ Reg \in Nat
      /\ \A i \in DOMAIN Prescalers : Prescalers[i] \in Nat /\ Prescalers[i] > 0
  BY TimerAssumption
<1>2. c % Wide = c
  <2>1. c < Wide /\ Wide \in Nat /\ c \in Nat
    BY <1>1, TimerAssumption
  <2> HIDE DEF c
  <2> QED
    BY <2>1
<1>3. \A i \in DOMAIN Prescalers : Wanted(d, i) = c \div Prescalers[i]
  BY <1>2 DEF Wanted
<1> HIDE DEF c, last
<1>4. Wanted(d, last) < Reg
  <2> DEFINE p == Prescalers[last]
             q == c \div p
  <2>1. p \in Nat /\ p > 0 /\ q * p <= c /\ c < Reg * p /\ q \in Nat
    BY <1>1, RoundedDown DEF c, last
  <2> HIDE DEF p, q
  <2>2. q < Reg
    <3>1. CASE q >= Reg
      <4>1. q * p >= Reg * p
        BY <1>1, <2>1, <3>1
      <4> QED
        BY <1>1, <2>1, <4>1
    <3> QED
      BY <1>1, <2>1, <3>1
  <2> QED
    BY <1>1, <1>3, <2>2 DEF p, q
<1>5. last \in Found(d)
  BY <1>1, <1>4 DEF Found
<1>6. Cnt(d) = c \div Prescalers[PscId(d)] /\ PscId(d) \in DOMAIN Prescalers
  BY <1>3, <1>5, CountFits DEF Cnt
<1> QED
  BY <1>1, <1>6, RoundedDown DEF c

-----------------------------------------------------------------------------
(* The invariant *)

\* The delays a program asks for, and 0 before it has asked for any, are
\* naturals whose counts fit into TCNT1.
LEMMA AskedType ==
  ASSUME TypeOK
  PROVE  /\ asked \in Nat /\ args.delay \in Nat
         /\ Reg \in Nat /\ Cnt(asked) \in 0 .. Reg - 1
         /\ Cnt(args.delay) \in 0 .. Reg - 1
         /\ PscId(args.delay) \in DOMAIN Prescalers
         /\ DOMAIN Prescalers \subseteq Nat \ {0}
<1>1. asked \in Nat /\ args.delay \in Nat /\ Reg \in Nat
  <2>1. asked \in Nat /\ Reg \in Nat
    BY TimerAssumption DEF TypeOK
  <2>2. CASE args = NoArgs
    BY <2>1, <2>2 DEF NoArgs
  <2>3. CASE args # NoArgs
    <3>1. args.delay \in Delays
      BY <2>3 DEF TypeOK
    <3> QED  BY <2>1, <3>1, TimerAssumption
  <2> QED  BY <2>2, <2>3
<1>2. DOMAIN Prescalers \subseteq Nat \ {0}
  BY TimerAssumption
<1> QED  BY <1>1, <1>2, CountFits

\* Whoever has called cnTimerStart has named a delay and a function.
LEMMA ArgsType ==
  ASSUME TypeOK, CallInv, at \in Starting
  PROVE  args.delay \in Delays /\ args.once \in BOOLEAN /\ args.f \in Functions
BY DEF TypeOK, CallInv

\* The chip starts in the invariant,
LEMMA InitInv == Init => IInv
<1> SUFFICES ASSUME Init PROVE IInv
  OBVIOUS
<1>1. TypeOK
  <2>1. /\ oneshot \in BOOLEAN /\ toie1 \in BOOLEAN /\ tov1 \in BOOLEAN
        /\ iflag \in BOOLEAN /\ prompt \in BOOLEAN
    BY DEF Init
  <2> QED  BY <2>1, TimerAssumption DEF Init, TypeOK
<1>2. OnCount
  BY <1>1, AskedType DEF Init, OnCount
<1>3. CallInv /\ CountInv /\ LineInv
  BY DEF Init, CallInv, CountInv, LineInv, Starting
<1> QED  BY <1>1, <1>2, <1>3 DEF IInv

\* and a reset takes it there.
LEMMA ResetInv == IInv /\ Reset => IInv'
<1> SUFFICES ASSUME IInv, Reset PROVE IInv'
  OBVIOUS
<1>1. TypeOK'
  <2>1. /\ oneshot' \in BOOLEAN /\ toie1' \in BOOLEAN /\ tov1' \in BOOLEAN
        /\ iflag' \in BOOLEAN /\ prompt' \in BOOLEAN
    BY DEF Reset, IInv, TypeOK
  <2> QED  BY <2>1, TimerAssumption DEF Reset, TypeOK
<1>2. OnCount'
  <2>1. asked' = 0 /\ age' = 0 /\ rang' = 0
    BY DEF Reset
  <2>2. Reg \in Nat /\ Cnt(0) \in 0 .. Reg - 1
    BY CountFits, TimerAssumption
  <2> QED  BY <2>1, <2>2 DEF OnCount
<1>3. CallInv' /\ CountInv' /\ LineInv'
  BY DEF Reset, CallInv, CountInv, LineInv, Starting
<1> QED  BY <1>1, <1>2, <1>3 DEF IInv

\* The counter reaches its end after what the count leaves of Reg.
LEMMA TickInv == IInv /\ Tick => IInv'
<1> SUFFICES ASSUME IInv, Tick PROVE IInv'
  OBVIOUS
<1>1. /\ TypeOK /\ OnCount /\ CallInv /\ CountInv /\ LineInv
      /\ tccr1b # 0 /\ mode # "off" /\ toie1 /\ at \in {"sei", "idle"}
      /\ rang = 0 => tcnt1 = Cnt(asked) + age
  BY DEF IInv, Tick, CountInv
<1>2. /\ Reg \in Nat /\ Cnt(asked) \in 0 .. Reg - 1
      /\ tcnt1 \in 0 .. Reg - 1 /\ age \in Nat /\ rang \in Nat
  BY <1>1, AskedType DEF TypeOK
<1>3. CASE tcnt1 < Reg - 1
  <2>1. tcnt1' = tcnt1 + 1 /\ age' = age + 1 /\ tov1' = tov1 /\ rang' = rang
    BY <1>3 DEF Tick
  <2>2. TypeOK'
    BY <1>1, <1>2, <1>3, <2>1 DEF Tick, TypeOK, software
  <2>3. OnCount'
    BY <1>1, <1>2, <1>3, <2>1 DEF Tick, OnCount
  <2>4. CallInv' /\ CountInv' /\ LineInv'
    BY <1>1, <1>2, <2>1 DEF Tick, CallInv, CountInv, LineInv, Starting, software
  <2> QED  BY <2>2, <2>3, <2>4 DEF IInv
<1>4. CASE ~(tcnt1 < Reg - 1)
  <2>1. /\ tcnt1 = Reg - 1 /\ tcnt1' = 0 /\ age' = 0 /\ tov1' = TRUE
        /\ rang' = IF rang = 0 THEN age + 1 ELSE rang
    BY <1>2, <1>4 DEF Tick
  <2>2. rang' = Reg - Cnt(asked) /\ rang' # 0
    BY <1>1, <1>2, <2>1 DEF OnCount
  <2>3. TypeOK'
    BY <1>1, <1>2, <2>1, <2>2 DEF Tick, TypeOK, software
  <2>4. OnCount'
    BY <2>2 DEF Tick, OnCount
  <2>5. CallInv' /\ CountInv' /\ LineInv'
    BY <1>1, <2>1, <2>2 DEF Tick, CallInv, CountInv, LineInv, Starting, software
  <2> QED  BY <2>3, <2>4, <2>5 DEF IInv
<1> QED  BY <1>3, <1>4

\* A one-shot ISR leaves nothing behind.
LEMMA IsrInv == IInv /\ Isr => IInv'
<1> SUFFICES ASSUME IInv, Isr PROVE IInv'
  OBVIOUS
<1>1. /\ TypeOK /\ OnCount /\ CallInv /\ CountInv /\ LineInv
      /\ tov1 /\ toie1 /\ iflag /\ mode # "off"
      /\ fn = callee /\ callee \in Functions /\ (mode = "once" <=> oneshot)
      /\ fn # NoCall
  BY TimerAssumption DEF IInv, Isr, Interrupted, CallInv, LineInv
<1>2. at \notin Starting /\ at \notin {"clear", "forget"}
  BY <1>1 DEF CallInv
<1>3. TypeOK'
  <2>1. tov1' \in BOOLEAN /\ toie1' \in BOOLEAN
    <3>1. tov1' = FALSE /\ (toie1' = FALSE \/ toie1' = toie1)
      BY DEF Isr, StopInIsr
    <3>2. toie1 \in BOOLEAN
      BY <1>1 DEF TypeOK
    <3> QED  BY <3>1, <3>2
  <2>2. tccr1b' \in {0} \cup DOMAIN Prescalers /\ tcnt1' \in 0 .. Reg - 1
    <3>1. \/ tccr1b' = 0 /\ tcnt1' = 0
          \/ tccr1b' = tccr1b /\ tcnt1' = tcnt1
      BY DEF Isr, StopInIsr
    <3>2. tccr1b \in {0} \cup DOMAIN Prescalers /\ tcnt1 \in 0 .. Reg - 1
      BY <1>1 DEF TypeOK
    <3> QED  BY <3>1, <3>2, TimerAssumption
  <2>3. fn' \in Functions \cup {NoCall}
    BY <1>1 DEF Isr, StopInIsr, TypeOK
  <2> QED  BY <1>1, <2>1, <2>2, <2>3 DEF Isr, TypeOK, ghosts
<1>4. OnCount'
  BY <1>1 DEF Isr, OnCount, ghosts
<1>5. CallInv' /\ CountInv' /\ LineInv'
  <2>1. CASE oneshot
    BY <1>1, <1>2, <2>1 DEF Isr, StopInIsr, CallInv, CountInv, LineInv, Starting, ghosts
  <2>2. CASE ~oneshot
    BY <1>1, <1>2, <2>2 DEF Isr, CallInv, CountInv, LineInv, Starting, ghosts
  <2> QED  BY <2>1, <2>2
<1> QED  BY <1>3, <1>4, <1>5 DEF IInv

\* The timer is off and its flag clear when a start begins,
LEMMA StartInv ==
  ASSUME IInv, NEW d \in Delays, NEW once \in BOOLEAN, NEW f \in Functions,
         Start(d, once, f)
  PROVE  IInv'
<1>1. TypeOK /\ OnCount /\ CallInv /\ CountInv /\ LineInv
  BY DEF IInv
<1>2. /\ at = "idle" /\ mode = "off" /\ tccr1b = 0 /\ ~tov1
      /\ args' = [delay |-> d, once |-> once, f |-> f] /\ args' # NoArgs
  BY <1>1, TimerAssumption
     DEF Start, Step, MayStart, CallInv, CountInv, LineInv, NoArgs
<1>3. TypeOK'
  BY <1>1, <1>2, TimerAssumption DEF Start, Step, TypeOK, MayStart, ghosts
<1>4. OnCount'
  BY <1>1, <1>2, TimerAssumption DEF Start, OnCount, MayStart, ghosts
<1>5. CallInv' /\ CountInv' /\ LineInv'
  BY <1>1, <1>2, TimerAssumption
     DEF Start, Step, Interrupted, CallInv, CountInv, LineInv, Starting, MayStart, ghosts
<1> QED  BY <1>3, <1>4, <1>5 DEF IInv

\* it stays off while the interrupt is enabled
LEMMA EnableInv ==
  ASSUME IInv, Enable
  PROVE  IInv'
<1>1. TypeOK /\ OnCount /\ CallInv /\ CountInv /\ LineInv
  BY DEF IInv
<1>2. TypeOK'
  BY <1>1, TimerAssumption DEF Enable, Step, TypeOK, software, ghosts
<1>3. OnCount'
  BY <1>1, TimerAssumption DEF Enable, OnCount, software, ghosts
<1>4. CallInv' /\ CountInv' /\ LineInv'
  BY <1>1, TimerAssumption
     DEF Enable, Step, Interrupted, CallInv, CountInv, LineInv, Starting, software, ghosts
<1> QED  BY <1>2, <1>3, <1>4 DEF IInv

\* and the count is written;
LEMMA SetCountInv ==
  ASSUME IInv, SetCount
  PROVE  IInv'
<1>1. TypeOK /\ OnCount /\ CallInv /\ CountInv /\ LineInv
  BY DEF IInv
<1>2. Cnt(args.delay) \in 0 .. Reg - 1
  BY <1>1, AskedType
<1>3. TypeOK'
  BY <1>1, <1>2, TimerAssumption DEF SetCount, Step, TypeOK, FirstCount, software, ghosts
<1>4. OnCount'
  BY <1>1, <1>2, TimerAssumption DEF SetCount, OnCount, FirstCount, software, ghosts
<1>5. CallInv' /\ CountInv' /\ LineInv'
  BY <1>1, <1>2, TimerAssumption
     DEF SetCount, Step, Interrupted, CallInv, CountInv, LineInv, Starting, FirstCount, software, ghosts
<1> QED  BY <1>3, <1>4, <1>5 DEF IInv

\* the clock then finds a count for the delay asked for.
LEMMA SetClockInv ==
  ASSUME IInv, SetClock
  PROVE  IInv'
<1>1. TypeOK /\ OnCount /\ CallInv /\ CountInv /\ LineInv
  BY DEF IInv
<1>2. args.delay \in Delays /\ args.once \in BOOLEAN /\ args.f \in Functions
  BY <1>1, ArgsType DEF SetClock, Step, Starting
<1>3. /\ Reg \in Nat /\ Cnt(args.delay) \in 0 .. Reg - 1
      /\ PscId(args.delay) \in DOMAIN Prescalers /\ PscId(args.delay) # 0
  BY <1>1, AskedType
<1>4. TypeOK'
  BY <1>1, <1>2, <1>3, TimerAssumption DEF SetClock, Step, TypeOK, ghosts
<1>5. OnCount'
  BY <1>1, <1>2, <1>3, TimerAssumption DEF SetClock, OnCount, ghosts
<1>6. CallInv' /\ CountInv' /\ LineInv'
  BY <1>1, <1>2, <1>3, TimerAssumption
     DEF SetClock, Step, Interrupted, CallInv, CountInv, LineInv, Starting, ghosts
<1> QED  BY <1>4, <1>5, <1>6 DEF IInv

\* An overflow before SREG.I is set is taken after it.
LEMMA SeiInv ==
  ASSUME IInv, Sei
  PROVE  IInv'
<1>1. TypeOK /\ OnCount /\ CallInv /\ CountInv /\ LineInv
  BY DEF IInv
<1>2. TypeOK'
  BY <1>1, TimerAssumption DEF Sei, Step, TypeOK, AfterSei, software, ghosts
<1>3. OnCount'
  BY <1>1, TimerAssumption DEF Sei, OnCount, AfterSei, software, ghosts
<1>4. CallInv' /\ CountInv' /\ LineInv'
  BY <1>1, TimerAssumption
     DEF Sei, Step, Interrupted, CallInv, CountInv, LineInv, Starting, AfterSei, software, ghosts
<1> QED  BY <1>2, <1>3, <1>4 DEF IInv

\* A stop first halts the counter,
LEMMA StopInv ==
  ASSUME IInv, Stop
  PROVE  IInv'
<1>1. TypeOK /\ OnCount /\ CallInv /\ CountInv /\ LineInv
  BY DEF IInv
<1>2. TypeOK'
  BY <1>1, TimerAssumption DEF Stop, Step, TypeOK, software, ghosts
<1>3. OnCount'
  BY <1>1, TimerAssumption DEF Stop, OnCount, software, ghosts
<1>4. CallInv' /\ CountInv' /\ LineInv'
  BY <1>1, TimerAssumption
     DEF Stop, Step, Interrupted, CallInv, CountInv, LineInv, Starting, software, ghosts
<1> QED  BY <1>2, <1>3, <1>4 DEF IInv

\* then it closes the line, which an interrupt may still pass before,
LEMMA DisableInv ==
  ASSUME IInv, Disable
  PROVE  IInv'
<1>1. TypeOK /\ OnCount /\ CallInv /\ CountInv /\ LineInv
  BY DEF IInv
<1>2. TypeOK'
  BY <1>1, TimerAssumption DEF Disable, Step, TypeOK, software, ghosts
<1>3. OnCount'
  BY <1>1, TimerAssumption DEF Disable, OnCount, software, ghosts
<1>4. CallInv' /\ CountInv' /\ LineInv'
  BY <1>1, TimerAssumption
     DEF Disable, Step, Interrupted, CallInv, CountInv, LineInv, Starting, software, ghosts
<1> QED  BY <1>2, <1>3, <1>4 DEF IInv

\* and once that is closed it is safe to clear the count
LEMMA ClearInv ==
  ASSUME IInv, Clear
  PROVE  IInv'
<1>1. TypeOK /\ OnCount /\ CallInv /\ CountInv /\ LineInv
  BY DEF IInv
<1>2. TypeOK'
  BY <1>1, TimerAssumption DEF Clear, Step, TypeOK, software, ghosts
<1>3. OnCount'
  BY <1>1, TimerAssumption DEF Clear, OnCount, software, ghosts
<1>4. CallInv' /\ CountInv' /\ LineInv'
  BY <1>1, TimerAssumption
     DEF Clear, Step, Interrupted, CallInv, CountInv, LineInv, Starting, software, ghosts
<1> QED  BY <1>2, <1>3, <1>4 DEF IInv

\* and to forget the function.
LEMMA ForgetInv ==
  ASSUME IInv, Forget
  PROVE  IInv'
<1>1. TypeOK /\ OnCount /\ CallInv /\ CountInv /\ LineInv
  BY DEF IInv
<1>2. TypeOK'
  BY <1>1, TimerAssumption DEF Forget, Step, TypeOK, ghosts
<1>3. OnCount'
  BY <1>1, TimerAssumption DEF Forget, OnCount, ghosts
<1>4. CallInv' /\ CountInv' /\ LineInv'
  BY <1>1, TimerAssumption
     DEF Forget, Step, Interrupted, CallInv, CountInv, LineInv, Starting, ghosts
<1> QED  BY <1>2, <1>3, <1>4 DEF IInv

\* What a step that changes nothing leaves alone.
LEMMA StutterInv == IInv /\ UNCHANGED timerVars => IInv'
BY DEF IInv, TypeOK, OnCount, CallInv, CountInv, LineInv, timerVars,
       software, hardware, promise, ghosts

\* The invariant of the AVR timer, under every interleaving of its callers'
\* register writes, the counter, the interrupt and resets (avr/timer.c:24-105).
THEOREM Invariance == Spec => []IInv
<1>1. IInv /\ [Next]_timerVars => IInv'
  <2> SUFFICES ASSUME IInv, [Next]_timerVars PROVE IInv'
    OBVIOUS
  <2>1. ASSUME NEW d \in Delays, NEW once \in BOOLEAN, NEW f \in Functions,
               Start(d, once, f)
        PROVE  IInv'
    BY <2>1, StartInv
  <2>2. CASE Starts
    BY <2>2, EnableInv, SetCountInv, SetClockInv, SeiInv DEF Starts
  <2>3. CASE Stops \/ Stop
    BY <2>3, StopInv, DisableInv, ClearInv, ForgetInv DEF Stops
  <2>4. CASE Tick \/ Isr \/ Reset
    BY <2>4, TickInv, IsrInv, ResetInv
  <2>5. CASE UNCHANGED timerVars
    BY <2>5, StutterInv
  <2> QED  BY <2>1, <2>2, <2>3, <2>4, <2>5 DEF Next, Calls
<1> QED  BY <1>1, InitInv, PTL DEF Spec

\* A timer first rings Reg - Cnt prescaled cycles after it was started
\* (avr/timer.c:88-90).
THEOREM RingsOnCount == Spec => []OnCount
<1>1. IInv => OnCount
  BY DEF IInv
<1> QED  BY <1>1, Invariance, PTL

\* The AVR timer implements the alarm that timer.h promises (timer.h:16-29).
THEOREM ImplementsAlarm == Spec => KeepsPromise
<1>1. Init => Promise!Init
  BY DEF Init, Promise!Init
<1>2. IInv /\ [Next]_timerVars => [Promise!Next]_Promise!alarmVars
  <2> SUFFICES ASSUME IInv, [Next]_timerVars
               PROVE  [Promise!Next]_Promise!alarmVars
    OBVIOUS
  <2>1. CASE Reset
    BY <2>1 DEF Reset, Promise!Forget, Promise!Next
  <2>2. CASE Tick \/ Enable \/ SetCount \/ Sei \/ Stop \/ Disable \/ Clear
    BY <2>2 DEF Tick, Enable, SetCount, Sei, Stop, Disable, Clear, Step,
                Promise!Quiet, Promise!Next
  <2>3. ASSUME NEW d \in Delays, NEW once \in BOOLEAN, NEW f \in Functions,
               Start(d, once, f)
        PROVE  Promise!Next
    BY <2>3 DEF Start, Step, Promise!Quiet, Promise!Next
  <2>4. CASE SetClock
    <3>1. args.f \in Functions
      BY <2>4, ArgsType DEF IInv, SetClock, Step, Starting
    <3>2. \E m \in {"once", "every"} : Promise!Set(args.f, m)
      BY <2>4 DEF SetClock, Step, Promise!Set
    <3> QED  BY <3>1, <3>2 DEF Promise!Next
  <2>5. CASE Isr
    <3>1. mode # "off" /\ fn = callee /\ fn # NoCall
      BY <2>5, TimerAssumption DEF IInv, Isr, Interrupted, CallInv, LineInv
    <3> QED  BY <2>5, <3>1 DEF Isr, Promise!Ring, Promise!Next
  <2>6. CASE Forget
    BY <2>6 DEF Forget, Step, Promise!Cancel, Promise!Next
  <2>7. CASE UNCHANGED timerVars
    BY <2>7 DEF timerVars, promise, Promise!alarmVars
  <2> QED  BY <2>1, <2>2, <2>3, <2>4, <2>5, <2>6, <2>7
            DEF Next, Calls, Starts, Stops
<1> QED  BY <1>1, <1>2, Invariance, PTL DEF Spec, KeepsPromise, Promise!Spec

=============================================================================
