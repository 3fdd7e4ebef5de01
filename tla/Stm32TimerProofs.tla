-------------------------- MODULE Stm32TimerProofs --------------------------
(***************************************************************************)
(* The STM32 timer, for every width of its registers, clock and delay in   *)
(* range: what the search for a prescaler finds, when the timer rings, and *)
(* that it implements Alarm.                                               *)
(***************************************************************************)
EXTENDS Stm32Timer, TLAPS

(* The search for a prescaler *)

\* A number of cycles that a start in range asks for.
Cycles(c) == c \in Nat /\ c >= 2 /\ c <= Reg * (Reg \div 2 - 1)

\* A delay in range is one of cycles in range.
LEMMA DelayCycles ==
  ASSUME NEW d \in Delays
  PROVE  d \in Nat /\ d > 0 /\ Cycles(Mhz * d)
<1>1. d \in Nat /\ d > 0 /\ Mhz * d <= Reg * (Reg \div 2 - 1)
  BY TimerAssumption DEF InRange
<1>2. Mhz * d \in Nat /\ Mhz * d >= 2
  BY <1>1, TimerAssumption
<1> QED  BY <1>1, <1>2 DEF Cycles

\* A quotient, between the multiples of its divisor.
LEMMA Quotient ==
  ASSUME NEW c \in Nat, NEW n \in Nat, n > 0
  PROVE  /\ c \div n \in Nat
         /\ n * (c \div n) <= c
         /\ c < n * (c \div n) + n
OBVIOUS

\* A product with a smaller factor is smaller.
LEMMA TimesLess ==
  ASSUME NEW n \in Nat, NEW a \in Int, NEW b \in Int, a <= b
  PROVE  n * a <= n * b
OBVIOUS

\* The loop finds a prescaler before it ends, and it is the least whose
\* quotient is still in a register (timer.c:98-108).
LEMMA PrescalerFound ==
  ASSUME NEW c, Cycles(c)
  PROVE  /\ Psc(c) \in 0 .. Reg - 1
         /\ Fits(Psc(c), c)
         /\ \A q \in 0 .. Psc(c) - 1 : ~Fits(q, c)
<1> DEFINE p == (c - 1) \div Reg
<1>1. Reg \in Nat /\ Reg >= 4 /\ c \in Nat /\ c >= 2 /\ c <= Reg * (Reg \div 2 - 1)
  BY TimerAssumption DEF Cycles
<1>2. p \in Nat /\ Reg * p <= c - 1 /\ c - 1 < Reg * p + Reg
  BY <1>1, Quotient
<1> HIDE DEF p
<1>3. c <= Reg * (p + 1)
  BY <1>1, <1>2
<1>4. p \in 0 .. Reg - 1
  <2>1. Reg \div 2 - 1 \in Nat /\ Reg \div 2 - 1 <= Reg - 1
    BY <1>1
  <2>2. ASSUME p >= Reg PROVE FALSE
    <3>1. Reg * (Reg \div 2 - 1) <= Reg * p
      BY <1>1, <1>2, <2>1, <2>2, TimesLess
    <3> QED  BY <1>1, <1>2, <3>1
  <2> QED  BY <1>1, <1>2, <2>2
<1>5. c >= 2 * (p + 1)
  <2>1. CASE p = 0
    BY <1>1, <2>1
  <2>2. CASE p >= 1
    <3>1. 4 * p <= Reg * p
      BY <1>1, <1>2
    <3> QED  BY <1>1, <1>2, <2>2, <3>1
  <2> QED  BY <1>2, <2>1, <2>2
<1>6. Fits(p, c)
  <2> DEFINE k == c \div (p + 1)
  <2>1. k \in Nat /\ (p + 1) * k <= c /\ c < (p + 1) * k + (p + 1)
    BY <1>1, <1>2, Quotient
  <2> HIDE DEF k
  <2>2. k >= 2
    <3>1. ASSUME k <= 1 PROVE FALSE
      <4>1. (p + 1) * k <= (p + 1) * 1
        BY <1>2, <2>1, <3>1, TimesLess
      <4> QED  BY <1>1, <1>2, <1>5, <2>1, <4>1
    <3> QED  BY <2>1, <3>1
  <2>3. k <= Reg
    <3>1. ASSUME k >= Reg + 1 PROVE FALSE
      <4>1. (p + 1) * (Reg + 1) <= (p + 1) * k
        BY <1>1, <1>2, <2>1, <3>1, TimesLess
      <4>2. (p + 1) * (Reg + 1) = Reg * (p + 1) + (p + 1)
        BY <1>1, <1>2
      <4> QED  BY <1>1, <1>2, <1>3, <2>1, <4>1, <4>2
    <3> QED  BY <1>1, <2>1, <3>1
  <2> QED  BY <1>1, <1>3, <2>1, <2>2, <2>3 DEF Fits, Arr, k
<1>7. \A q \in 0 .. p - 1 : ~Fits(q, c)
  <2> TAKE q \in 0 .. p - 1
  <2>1. Reg * (q + 1) <= Reg * p
    BY <1>1, <1>2, TimesLess
  <2> QED  BY <1>1, <1>2, <2>1 DEF Fits
<1>8. \E r \in 0 .. Reg - 1 : Fits(r, c) /\ \A q \in 0 .. r - 1 : ~Fits(q, c)
  BY <1>4, <1>6, <1>7
<1> QED  BY <1>8 DEF Psc

\* The period that is loaded for c cycles.
Loads(p, c) == (p + 1) * (Arr(p, c) + 1)

\* It is not longer, and shorter by less than a 2^16th of itself and a cycle.
THEOREM PeriodIsRight ==
  ASSUME NEW c, Cycles(c)
  PROVE  /\ Loads(Psc(c), c) \in Nat \ {0}
         /\ Loads(Psc(c), c) <= c
         /\ (c - Loads(Psc(c), c)) * Reg < c + Reg
<1> DEFINE p == Psc(c)
           k == c \div (p + 1)
<1>1. Reg \in Nat /\ Reg >= 4 /\ c \in Nat /\ c >= 2
  BY TimerAssumption DEF Cycles
<1>2. p \in 0 .. Reg - 1 /\ Fits(p, c) /\ \A q \in 0 .. p - 1 : ~Fits(q, c)
  BY PrescalerFound
<1> HIDE DEF p
<1>3. k \in Nat /\ (p + 1) * k <= c /\ c < (p + 1) * k + (p + 1)
  BY <1>1, <1>2, Quotient
<1>4. k >= 2 /\ k <= Reg /\ Arr(p, c) + 1 = k
  BY <1>1, <1>2, <1>3 DEF Fits, Arr
<1>5. Loads(p, c) = (p + 1) * k
  BY <1>4 DEF Loads
<1> HIDE DEF k
<1>6. (p + 1) * k \in Nat /\ (p + 1) * k >= 1
  BY <1>2, <1>3, <1>4
<1>7. Reg * p < c + Reg
  <2>1. CASE p = 0
    BY <1>1, <2>1
  <2>2. CASE p > 0
    <3> DEFINE q == p - 1
               j == c \div p
    <3>1. q \in 0 .. p - 1 /\ ~Fits(q, c) /\ q + 1 = p
      BY <1>2, <2>2
    <3>2. j \in Nat /\ p * j <= c /\ c < p * j + p
      BY <1>1, <1>2, <2>2, Quotient
    <3>3. Arr(q, c) = j - 1
      BY <3>1 DEF Arr
    <3> HIDE DEF j, q
    <3>4. ASSUME c <= Reg * p PROVE FALSE
      <4>1. j >= 2
        <5>1. (p + 1) * 2 <= (p + 1) * k
          BY <1>2, <1>3, <1>4, TimesLess
        <5>2. ASSUME j <= 1 PROVE FALSE
          <6>1. p * j <= p * 1
            BY <1>2, <3>2, <5>2, TimesLess
          <6> QED  BY <1>1, <1>2, <1>3, <3>2, <5>1, <6>1
        <5> QED  BY <3>2, <5>2
      <4>2. j <= Reg
        <5>1. ASSUME j >= Reg + 1 PROVE FALSE
          <6>1. p * (Reg + 1) <= p * j
            BY <1>1, <1>2, <3>2, <5>1, TimesLess
          <6>2. p * (Reg + 1) = Reg * p + p
            BY <1>1, <1>2
          <6> QED  BY <1>1, <1>2, <2>2, <3>2, <3>4, <6>1, <6>2
        <5> QED  BY <1>1, <3>2, <5>1
      <4> QED  BY <1>1, <3>1, <3>2, <3>3, <3>4, <4>1, <4>2 DEF Fits
    <3> QED  BY <1>1, <1>2, <3>4
  <2> QED  BY <1>2, <2>1, <2>2
<1>8. (c - (p + 1) * k) * Reg <= Reg * p
  <2>1. c - (p + 1) * k \in Int /\ c - (p + 1) * k <= p
    BY <1>1, <1>2, <1>3, <1>6
  <2>2. Reg * (c - (p + 1) * k) <= Reg * p
    BY <1>1, <1>2, <2>1, TimesLess
  <2> HIDE DEF k
  <2> QED  BY <1>1, <2>1, <2>2
<1> QED  BY <1>1, <1>2, <1>3, <1>5, <1>6, <1>7, <1>8 DEF p

-----------------------------------------------------------------------------
(* The invariant *)

\* What a timer that counts for a delay rings by.
LEMMA Period_OnTime ==
  ASSUME NEW t, NEW d \in Delays, Loaded(t, d)
  PROVE  /\ Period(t) \in Nat \ {0}
         /\ Period(t) <= Mhz * d
         /\ (Mhz * d - Period(t)) * Reg < Mhz * d + Reg
<1>1. Period(t) = Loads(Psc(Mhz * d), Mhz * d)
  BY DEF Loaded, Period, Loads
<1> QED  BY <1>1, DelayCycles, PeriodIsRight

\* What the search finds fits into the registers.
LEMMA LoadedType ==
  ASSUME NEW d \in Delays
  PROVE  /\ Psc(Mhz * d) \in 0 .. Reg - 1
         /\ Arr(Psc(Mhz * d), Mhz * d) \in 0 .. Reg - 1
<1>1. Cycles(Mhz * d)
  BY DelayCycles
<1>2. Psc(Mhz * d) \in 0 .. Reg - 1 /\ Fits(Psc(Mhz * d), Mhz * d)
  BY <1>1, PrescalerFound
<1>3. (Mhz * d) \div (Psc(Mhz * d) + 1) \in Nat
  BY <1>1, <1>2, Quotient DEF Cycles
<1> QED  BY <1>2, <1>3, TimerAssumption DEF Fits, Arr

\* The chip starts in the invariant,
LEMMA InitInv == Init => IInv
<1> SUFFICES ASSUME Init PROVE IInv
  OBVIOUS
<1>1. TypeOK
  <2>1. TimReset \in TimType
    BY TimerAssumption DEF TimReset, TimType
  <2>2. nvic \in [ena : BOOLEAN, pend : BOOLEAN] /\ clk \in BOOLEAN
    BY DEF Init, NvicReset
  <2> QED  BY <2>1, <2>2 DEF Init, TypeOK
<1>2. OnTime
  BY TimerAssumption DEF Init, OnTime
<1>3. CallInv /\ CountInv /\ LineInv
  BY DEF Init, CallInv, CountInv, LineInv, TimReset, NvicReset, Interrupted,
         AfterLine, AfterUpdate, Halted, BeforeHalt
<1> QED  BY <1>1, <1>2, <1>3 DEF IInv

\* and a reset takes it there.
LEMMA ResetInv == IInv /\ Reset => IInv'
<1> SUFFICES ASSUME IInv, Reset PROVE IInv'
  OBVIOUS
<1>1. TypeOK'
  <2>1. TimReset \in TimType
    BY TimerAssumption DEF TimReset, TimType
  <2>2. nvic' \in [ena : BOOLEAN, pend : BOOLEAN] /\ clk' \in BOOLEAN
    BY DEF Reset, NvicReset
  <2> QED  BY <2>1, <2>2 DEF IInv, Reset, TypeOK
<1>2. OnTime'
  BY TimerAssumption DEF Reset, OnTime
<1>3. CallInv' /\ CountInv' /\ LineInv'
  BY DEF Reset, CallInv, CountInv, LineInv, TimReset, NvicReset, Interrupted,
         AfterLine, AfterUpdate, Halted, BeforeHalt
<1> QED  BY <1>1, <1>2, <1>3 DEF IInv

\* The counter reaches its end when the delay has passed.
LEMMA TickInv == IInv /\ Tick => IInv'
<1> SUFFICES ASSUME IInv, Tick PROVE IInv'
  OBVIOUS
<1> USE DEF IInv
<1>1. /\ clk /\ tim.cen /\ tim.uie /\ nvic.ena /\ at \in BeforeHalt /\ mode # "off"
      /\ mode = "once" => tim.opm /\ ~nvic.pend
      /\ asked \in Delays /\ asked # 0 /\ Loaded(tim, asked)
      /\ left + age = Period(tim)
  BY DEF Tick, CountInv, TypeOK
<1>2. /\ Period(tim) \in Nat \ {0}
      /\ Period(tim) <= Mhz * asked
      /\ (Mhz * asked - Period(tim)) * Reg < Mhz * asked + Reg
  BY <1>1, Period_OnTime
<1>3. UNCHANGED <<at, args, fn, clk, prompt, mode, callee, asked>>
  BY DEF Tick
<1>4. asked \in Nat /\ Mhz * asked \in Nat /\ age \in Nat /\ left \in Nat \ {0}
  BY <1>1, DelayCycles DEF TypeOK, Cycles
<1>5. CASE left > 1
  <2>1. left' = left - 1 /\ age' = age + 1 /\ UNCHANGED <<tim, nvic, rang>>
    BY <1>5 DEF Tick
  <2>2. TypeOK'
    BY <1>3, <1>4, <1>5, <2>1 DEF TypeOK
  <2>3. age' <= Mhz * asked /\ left' + age' = Period(tim)
    BY <1>1, <1>2, <1>4, <1>5, <2>1
  <2>4. OnTime'
    BY <1>3, <2>1, <2>3 DEF OnTime
  <2>5. CallInv' /\ CountInv' /\ LineInv'
    BY <1>1, <1>3, <2>1, <2>3 DEF CallInv, CountInv, LineInv, Interrupted, Loaded,
         BeforeHalt, Halted, AfterUpdate, AfterLine, Period
  <2> QED  BY <2>2, <2>4, <2>5
<1>6. CASE ~(left > 1)
  <2>1. /\ left' = Period(tim) /\ age' = 0 /\ rang' = age + 1
        /\ tim' = [tim EXCEPT !.uif = TRUE, !.cen = ~tim.opm]
        /\ nvic' = [nvic EXCEPT !.pend = TRUE]
    <3>1. /\ left' = Period(tim) /\ age' = 0 /\ rang' = age + 1
          /\ tim' = [tim EXCEPT !.uif = TRUE, !.cen = ~tim.opm]
          /\ nvic' = [nvic EXCEPT !.pend = @ \/ (tim'.uif /\ tim'.uie)]
      BY <1>1, <1>6 DEF Tick, Registers
    <3>2. tim'.uif /\ tim'.uie
      BY <1>1, <3>1 DEF TypeOK, TimType
    <3> QED  BY <3>1, <3>2 DEF TypeOK, TimType
  <2>2. /\ tim'.uif /\ tim'.cen = ~tim.opm /\ tim'.uie
        /\ tim'.psc = tim.psc /\ tim'.arr = tim.arr
        /\ tim'.opm = tim.opm /\ tim'.urs = tim.urs
        /\ nvic'.ena /\ nvic'.pend
    BY <1>1, <2>1 DEF TypeOK, TimType
  <2>3. TypeOK'
    <3>1. tim' \in TimType
      BY <2>1 DEF TypeOK, TimType
    <3>2. nvic' \in [ena : BOOLEAN, pend : BOOLEAN]
      BY <2>1 DEF TypeOK
    <3> QED  BY <1>2, <1>3, <1>4, <2>1, <3>1, <3>2 DEF TypeOK
  <2>4. rang' = Period(tim)
    BY <1>1, <1>4, <1>6, <2>1
  <2>5. OnTime'
    BY <1>2, <1>3, <1>4, <2>1, <2>4 DEF OnTime
  <2>6. Period(tim') = Period(tim)
    BY <2>2 DEF Period
  <2>7. CallInv'
    BY <1>1, <1>3, <2>2 DEF CallInv, BeforeHalt, Halted, AfterUpdate, AfterLine
  <2>8. CountInv'
    <3>1. Loaded(tim', asked)
      BY <1>1, <2>2 DEF Loaded
    <3>2. left' + age' = Period(tim')
      BY <1>2, <2>1, <2>6
    <3>3. tim'.cen => mode # "once"
      BY <1>1, <2>2
    <3> QED  BY <1>1, <1>3, <2>2, <3>1, <3>2, <3>3 DEF CountInv
  <2>9. LineInv'
    BY <1>1, <1>3, <2>2 DEF LineInv, Interrupted, BeforeHalt, Halted,
         AfterUpdate, AfterLine
  <2> QED  BY <2>3, <2>5, <2>7, <2>8, <2>9
<1> QED  BY <1>5, <1>6

\* The ISR takes a pending interrupt; a one-shot counter no longer runs then.
LEMMA IsrInv == IInv /\ Isr => IInv'
<1> SUFFICES ASSUME IInv, Isr PROVE IInv'
  OBVIOUS
<1> USE DEF IInv
<1>1. Interrupted /\ clk /\ mode # "off" /\ at \notin Halted
  BY DEF Isr, LineInv, Interrupted
<1>2. /\ tim' = [tim EXCEPT !.uif = FALSE]
      /\ nvic' = [nvic EXCEPT !.pend = FALSE]
      /\ mode' = IF mode = "once" THEN "off" ELSE mode
      /\ UNCHANGED <<at, args, fn, left, clk, prompt, callee, asked, age, rang>>
  BY <1>1 DEF Isr, ghosts
<1>3. /\ ~tim'.uif /\ ~nvic'.pend /\ nvic'.ena = nvic.ena
      /\ tim'.cen = tim.cen /\ tim'.opm = tim.opm /\ tim'.urs = tim.urs
      /\ tim'.uie = tim.uie /\ tim'.psc = tim.psc /\ tim'.arr = tim.arr
  BY <1>2 DEF TypeOK, TimType
<1>4. TypeOK'
  BY <1>2 DEF TypeOK, TimType
<1>5. OnTime'
  BY <1>2 DEF OnTime
<1>6. CallInv'
  BY <1>1, <1>2, <1>3 DEF CallInv, Loaded, Period, Halted, AfterUpdate, AfterLine
<1>7. CountInv'
  <2>1. nvic.pend
    BY <1>1 DEF Interrupted
  <2> QED  BY <1>1, <1>2, <1>3, <2>1 DEF CountInv, Loaded, Period
<1>8. LineInv'
  BY <1>1, <1>2, <1>3 DEF LineInv, Interrupted, BeforeHalt, Halted, AfterUpdate, AfterLine
<1> QED  BY <1>4, <1>5, <1>6, <1>7, <1>8

\* Where the counter is halted, and the interrupt has been dealt with.
LEMMA Still ==
  ASSUME IInv, at \in Halted
  PROVE  clk /\ ~tim.cen /\ ~tim.uif /\ ~nvic.pend /\ args # NoArgs
BY DEF IInv, CallInv, CountInv, LineInv, BeforeHalt, Halted, AfterUpdate, AfterLine

\* The arguments of a call in progress are of their types.
LEMMA ArgsType ==
  ASSUME TypeOK, args # NoArgs
  PROVE  args.delay \in Delays /\ args.once \in BOOLEAN /\ args.f \in Functions
BY DEF TypeOK

\* PSC and ARR are those for the delay, but not loaded yet;
LEMMA ConfigureInv == IInv /\ Configure => IInv'
<1> SUFFICES ASSUME IInv, Configure PROVE IInv'
  OBVIOUS
<1> USE DEF IInv
<1>1. at = "configure" /\ at' = "update" /\ UNCHANGED <<prompt, args, fn, left, clk, asked, age, rang, mode, callee>>
  BY DEF Configure, Step, ghosts
<1>2. clk /\ ~tim.cen /\ ~tim.uif /\ ~nvic.pend /\ args # NoArgs
  BY <1>1, Still DEF BeforeHalt, Halted, AfterUpdate, AfterLine
<1>3. /\ tim' = [tim EXCEPT !.urs = TRUE, !.psc = Psc(Mhz * args.delay),
                            !.arr = Arr(Psc(Mhz * args.delay), Mhz * args.delay)]
      /\ nvic' = [nvic EXCEPT !.pend = @ \/ (tim'.uif /\ tim'.uie)]
  BY <1>2 DEF Configure, Registers

<1>4. /\ ~tim'.cen /\ ~tim'.uif /\ ~nvic'.pend /\ nvic'.ena = nvic.ena
      /\ tim'.urs /\ Loaded(tim', args.delay)
  BY <1>2, <1>3 DEF TypeOK, TimType, Loaded
<1>5. TypeOK'
  <2>1. args.delay \in Delays
    BY <1>2, ArgsType
  <2>2. tim' \in TimType
    BY <1>3, <2>1, LoadedType DEF TypeOK, TimType
  <2>3. nvic' \in [ena : BOOLEAN, pend : BOOLEAN]
    BY <1>3, <1>4 DEF TypeOK
  <2> QED  BY <1>1, <2>2, <2>3 DEF TypeOK
<1>6. OnTime'
  BY <1>1 DEF OnTime
<1>7. CallInv'
  BY <1>1, <1>2, <1>3, <1>4 DEF CallInv, Loaded, Period, BeforeHalt, Halted, AfterUpdate, AfterLine
<1>8. CountInv'
  BY <1>4 DEF CountInv
<1>9. LineInv'
  BY <1>1, <1>2, <1>3, <1>4 DEF LineInv, Interrupted, BeforeHalt, Halted, AfterUpdate, AfterLine
<1> QED  BY <1>5, <1>6, <1>7, <1>8, <1>9

\* UG loads them, and raises no interrupt because of URS.
LEMMA UpdateInv == IInv /\ Update => IInv'
<1> SUFFICES ASSUME IInv, Update PROVE IInv'
  OBVIOUS
<1> USE DEF IInv
<1>1. at = "update" /\ at' = "function" /\ UNCHANGED <<prompt, args, fn, clk, asked, age, rang, mode, callee>>
  BY DEF Update, Step, ghosts
<1>2. clk /\ ~tim.cen /\ ~tim.uif /\ ~nvic.pend /\ args # NoArgs
  BY <1>1, Still DEF BeforeHalt, Halted, AfterUpdate, AfterLine
<1>3. /\ left' = Period(tim)
      /\ tim' = [tim EXCEPT !.uif = @ \/ ~tim.urs]
      /\ nvic' = [nvic EXCEPT !.pend = @ \/ (tim'.uif /\ tim'.uie)]
  BY <1>2 DEF Update, Registers, Reloaded

<1>4. /\ ~tim'.cen /\ ~tim'.uif /\ ~nvic'.pend /\ nvic'.ena = nvic.ena
      /\ tim'.opm = tim.opm /\ tim'.urs = tim.urs /\ tim'.psc = tim.psc /\ tim'.arr = tim.arr
  <2>1. tim.urs
    BY <1>1 DEF CallInv, BeforeHalt, Halted, AfterUpdate, AfterLine
  <2> QED  BY <1>2, <1>3, <2>1 DEF TypeOK, TimType
<1>5. TypeOK'
  <2>1. args.delay \in Delays /\ Loaded(tim, args.delay)
    BY <1>1, <1>2, ArgsType DEF CallInv
  <2>2. left' \in Nat \ {0}
    BY <1>3, <2>1, Period_OnTime
  <2>3. tim' \in TimType /\ nvic' \in [ena : BOOLEAN, pend : BOOLEAN]
    BY <1>3 DEF TypeOK, TimType
  <2> QED  BY <1>1, <2>2, <2>3 DEF TypeOK
<1>6. OnTime'
  BY <1>1 DEF OnTime
<1>7. CallInv'
  BY <1>1, <1>2, <1>3, <1>4 DEF CallInv, Loaded, Period, BeforeHalt, Halted, AfterUpdate, AfterLine
<1>8. CountInv'
  BY <1>4 DEF CountInv
<1>9. LineInv'
  BY <1>1, <1>2, <1>3, <1>4 DEF LineInv, Interrupted, BeforeHalt, Halted, AfterUpdate, AfterLine
<1> QED  BY <1>5, <1>6, <1>7, <1>8, <1>9

\* The function is replaced while no interrupt can come,
LEMMA SetFunctionInv == IInv /\ SetFunction => IInv'
<1> SUFFICES ASSUME IInv, SetFunction PROVE IInv'
  OBVIOUS
<1> USE DEF IInv
<1>1. at = "function" /\ at' = "line" /\ UNCHANGED <<prompt, args, left, clk, asked, age, rang, mode, callee>>
  BY DEF SetFunction, Step, ghosts
<1>2. clk /\ ~tim.cen /\ ~tim.uif /\ ~nvic.pend /\ args # NoArgs
  BY <1>1, Still DEF BeforeHalt, Halted, AfterUpdate, AfterLine
<1>3. /\ fn' = args.f
      /\ tim' = [tim EXCEPT !.opm = @ \/ args.once]
      /\ nvic' = [nvic EXCEPT !.pend = @ \/ (tim'.uif /\ tim'.uie)]
  BY <1>2 DEF SetFunction, Registers

<1>4. /\ ~tim'.cen /\ ~tim'.uif /\ ~nvic'.pend /\ nvic'.ena = nvic.ena
      /\ tim'.urs = tim.urs /\ tim'.psc = tim.psc /\ tim'.arr = tim.arr
      /\ (args.once => tim'.opm) /\ fn' \in Functions
  BY <1>2, <1>3, ArgsType DEF TypeOK, TimType
<1>5. TypeOK'
  <2>1. tim' \in TimType /\ nvic' \in [ena : BOOLEAN, pend : BOOLEAN]
    BY <1>2, <1>3, ArgsType DEF TypeOK, TimType
  <2> QED  BY <1>1, <1>4, <2>1 DEF TypeOK
<1>6. OnTime'
  BY <1>1 DEF OnTime
<1>7. CallInv'
  BY <1>1, <1>2, <1>3, <1>4 DEF CallInv, Loaded, Period, BeforeHalt, Halted, AfterUpdate, AfterLine
<1>8. CountInv'
  BY <1>4 DEF CountInv
<1>9. LineInv'
  BY <1>1, <1>2, <1>3, <1>4 DEF LineInv, Interrupted, BeforeHalt, Halted, AfterUpdate, AfterLine
<1> QED  BY <1>5, <1>6, <1>7, <1>8, <1>9

\* the line opened while UIF is clear,
LEMMA OpenLineInv == IInv /\ OpenLine => IInv'
<1> SUFFICES ASSUME IInv, OpenLine PROVE IInv'
  OBVIOUS
<1> USE DEF IInv
<1>1. at = "line" /\ at' = "unpend" /\ UNCHANGED <<prompt, args, fn, left, clk, asked, age, rang, mode, callee>>
  BY DEF OpenLine, Step, ghosts
<1>2. clk /\ ~tim.cen /\ ~tim.uif /\ ~nvic.pend /\ args # NoArgs
  BY <1>1, Still DEF BeforeHalt, Halted, AfterUpdate, AfterLine
<1>3. /\ tim' = [tim EXCEPT !.uie = TRUE]
      /\ nvic' = [nvic EXCEPT !.pend = @ \/ (tim'.uif /\ tim'.uie)]
  BY <1>2 DEF OpenLine, Registers

<1>4. /\ ~tim'.cen /\ ~tim'.uif /\ ~nvic'.pend /\ nvic'.ena = nvic.ena
      /\ tim'.opm = tim.opm /\ tim'.urs = tim.urs /\ tim'.psc = tim.psc /\ tim'.arr = tim.arr /\ tim'.uie
  BY <1>2, <1>3 DEF TypeOK, TimType
<1>5. TypeOK'
  <2>1. tim' \in TimType /\ nvic' \in [ena : BOOLEAN, pend : BOOLEAN]
    BY <1>3 DEF TypeOK, TimType
  <2> QED  BY <1>1, <2>1 DEF TypeOK
<1>6. OnTime'
  BY <1>1 DEF OnTime
<1>7. CallInv'
  BY <1>1, <1>2, <1>3, <1>4 DEF CallInv, Loaded, Period, BeforeHalt, Halted, AfterUpdate, AfterLine
<1>8. CountInv'
  BY <1>4 DEF CountInv
<1>9. LineInv'
  BY <1>1, <1>2, <1>3, <1>4 DEF LineInv, Interrupted, BeforeHalt, Halted, AfterUpdate, AfterLine
<1> QED  BY <1>5, <1>6, <1>7, <1>8, <1>9

\* the NVIC left with nothing pending,
LEMMA UnpendInv == IInv /\ Unpend => IInv'
<1> SUFFICES ASSUME IInv, Unpend PROVE IInv'
  OBVIOUS
<1> USE DEF IInv
<1>1. at = "unpend" /\ at' = "enable" /\ UNCHANGED <<prompt, args, fn, tim, left, clk, asked, age, rang, mode, callee>>
  BY DEF Unpend, Step, ghosts
<1>2. clk /\ ~tim.cen /\ ~tim.uif /\ ~nvic.pend /\ args # NoArgs
  BY <1>1, Still DEF BeforeHalt, Halted, AfterUpdate, AfterLine
<1>3. nvic' = [nvic EXCEPT !.pend = tim.uif /\ tim.uie]
  BY DEF Unpend

<1>4. ~tim'.cen /\ ~tim'.uif /\ ~nvic'.pend /\ nvic'.ena = nvic.ena
  BY <1>1, <1>2, <1>3 DEF TypeOK
<1>5. TypeOK'
  <2>1. nvic' \in [ena : BOOLEAN, pend : BOOLEAN]
    BY <1>3 DEF TypeOK, TimType
  <2> QED  BY <1>1, <2>1 DEF TypeOK
<1>6. OnTime'
  BY <1>1 DEF OnTime
<1>7. CallInv'
  BY <1>1, <1>2, <1>3, <1>4 DEF CallInv, Loaded, Period, BeforeHalt, Halted, AfterUpdate, AfterLine
<1>8. CountInv'
  BY <1>4 DEF CountInv
<1>9. LineInv'
  BY <1>1, <1>2, <1>3, <1>4 DEF LineInv, Interrupted, BeforeHalt, Halted, AfterUpdate, AfterLine
<1> QED  BY <1>5, <1>6, <1>7, <1>8, <1>9

\* and enabled,
LEMMA EnableInv == IInv /\ Enable => IInv'
<1> SUFFICES ASSUME IInv, Enable PROVE IInv'
  OBVIOUS
<1> USE DEF IInv
<1>1. at = "enable" /\ at' = "count" /\ UNCHANGED <<prompt, args, fn, tim, left, clk, asked, age, rang, mode, callee>>
  BY DEF Enable, Step, ghosts
<1>2. clk /\ ~tim.cen /\ ~tim.uif /\ ~nvic.pend /\ args # NoArgs
  BY <1>1, Still DEF BeforeHalt, Halted, AfterUpdate, AfterLine
<1>3. nvic' = [nvic EXCEPT !.ena = TRUE]
  BY DEF Enable, Enabled

<1>4. ~tim'.cen /\ ~tim'.uif /\ ~nvic'.pend /\ nvic'.ena
  BY <1>1, <1>2, <1>3 DEF TypeOK
<1>5. TypeOK'
  <2>1. nvic' \in [ena : BOOLEAN, pend : BOOLEAN]
    BY <1>3 DEF TypeOK, TimType
  <2> QED  BY <1>1, <2>1 DEF TypeOK
<1>6. OnTime'
  BY <1>1 DEF OnTime
<1>7. CallInv'
  BY <1>1, <1>2, <1>3, <1>4 DEF CallInv, Loaded, Period, BeforeHalt, Halted, AfterUpdate, AfterLine
<1>8. CountInv'
  BY <1>4 DEF CountInv
<1>9. LineInv'
  BY <1>1, <1>2, <1>3, <1>4 DEF LineInv, Interrupted, BeforeHalt, Halted, AfterUpdate, AfterLine
<1> QED  BY <1>5, <1>6, <1>7, <1>8, <1>9

\* before the counter is released: it has the whole delay to go.
LEMMA CountStepInv == IInv /\ Count => IInv'
<1> SUFFICES ASSUME IInv, Count PROVE IInv'
  OBVIOUS
<1> USE DEF IInv
<1>1. /\ at = "count" /\ at' = "idle" /\ UNCHANGED <<prompt, fn, left, clk>>
      /\ mode' = (IF args.once THEN "once" ELSE "every") /\ callee' = args.f
      /\ asked' = args.delay /\ age' = 0 /\ rang' = 0 /\ args' = NoArgs
  BY DEF Count, Step
<1>2. clk /\ ~tim.cen /\ ~tim.uif /\ ~nvic.pend /\ args # NoArgs
  BY <1>1, Still DEF BeforeHalt, Halted, AfterUpdate, AfterLine
<1>3. /\ tim' = [tim EXCEPT !.cen = TRUE]
      /\ nvic' = [nvic EXCEPT !.pend = @ \/ (tim'.uif /\ tim'.uie)]
  BY <1>2 DEF Count, Registers
<1>4. /\ tim.uie /\ nvic.ena /\ Loaded(tim, args.delay)
      /\ left = Period(tim) /\ fn = args.f /\ (args.once => tim.opm)
  BY <1>1 DEF CallInv, BeforeHalt, Halted, AfterUpdate, AfterLine
<1>5. /\ ~tim'.uif /\ ~nvic'.pend /\ nvic'.ena /\ tim'.uie
      /\ tim'.opm = tim.opm /\ tim'.psc = tim.psc /\ tim'.arr = tim.arr
  BY <1>2, <1>3, <1>4 DEF TypeOK, TimType
<1>6. args.delay \in Delays /\ args.once \in BOOLEAN /\ args.f \in Functions
  BY <1>2, ArgsType
<1>7. TypeOK'
  <2>1. tim' \in TimType /\ nvic' \in [ena : BOOLEAN, pend : BOOLEAN]
    BY <1>3 DEF TypeOK, TimType
  <2> QED  BY <1>1, <1>6, <2>1 DEF TypeOK
<1>8. OnTime'
  BY <1>1, <1>6, DelayCycles DEF OnTime, Cycles
<1>9. CallInv'
  BY <1>1 DEF CallInv, BeforeHalt, Halted, AfterUpdate, AfterLine
<1>10. CountInv'
  <2>1. Loaded(tim', asked') /\ Period(tim') = Period(tim) /\ asked' # 0
    BY <1>1, <1>4, <1>5, <1>6, DelayCycles DEF Loaded, Period
  <2>2. left' + age' = Period(tim')
    BY <1>1, <1>4, <2>1 DEF TypeOK
  <2> QED  BY <1>1, <1>2, <1>4, <1>5, <2>1, <2>2 DEF CountInv, BeforeHalt
<1>11. LineInv'
  BY <1>1, <1>2, <1>4, <1>5, <1>6, TimerAssumption
  DEF LineInv, Interrupted, BeforeHalt, Halted, AfterUpdate, AfterLine
<1> QED  BY <1>7, <1>8, <1>9, <1>10, <1>11

\* A start begins with the timer as it is, perhaps running;
LEMMA StartInv ==
  ASSUME IInv, NEW d \in Delays, NEW once \in BOOLEAN, NEW f \in Functions,
         Start(d, once, f)
  PROVE  IInv'
<1> USE DEF IInv
<1>1. /\ at = "idle" /\ at' = "clockOn"
      /\ args' = [delay |-> d, once |-> once, f |-> f]
      /\ UNCHANGED <<prompt, fn, tim, left, nvic, clk, mode, callee, asked, age, rang>>
      /\ ~(prompt /\ Interrupted) /\ (prompt \/ fn = NoCall)
  BY DEF Start, Step, MayStart, ghosts
<1>2. args' # NoArgs
  <2>1. d # 0
    BY DelayCycles
  <2> QED  BY <1>1, <2>1 DEF NoArgs
<1>3. TypeOK'
  BY <1>1 DEF TypeOK
<1>4. OnTime'
  BY <1>1 DEF OnTime
<1>5. CallInv'
  BY <1>1, <1>2 DEF CallInv, BeforeHalt, Halted, AfterUpdate, AfterLine
<1>6. CountInv'
  BY <1>1 DEF CountInv, Loaded, Period, BeforeHalt
<1>7. LineInv'
  BY <1>1 DEF LineInv, Interrupted, BeforeHalt, Halted, AfterUpdate, AfterLine
<1> QED  BY <1>3, <1>4, <1>5, <1>6, <1>7

\* its clock is switched on
LEMMA ClockOnInv == IInv /\ ClockOn => IInv'
<1> SUFFICES ASSUME IInv, ClockOn PROVE IInv'
  OBVIOUS
<1> USE DEF IInv
<1>1. /\ at = "clockOn" /\ at' = "halt" /\ clk'
      /\ UNCHANGED <<prompt, args, fn, tim, left, nvic, mode, callee, asked, age, rang>>
  BY DEF ClockOn, Step, ghosts
<1>2. TypeOK'
  BY <1>1 DEF TypeOK, ClockOn
<1>3. OnTime'
  BY <1>1 DEF OnTime
<1>4. CallInv'
  BY <1>1 DEF CallInv, BeforeHalt, Halted, AfterUpdate, AfterLine
<1>5. CountInv'
  BY <1>1 DEF CountInv, Loaded, Period, BeforeHalt
<1>6. LineInv'
  BY <1>1 DEF LineInv, Interrupted, BeforeHalt, Halted, AfterUpdate, AfterLine
<1> QED  BY <1>2, <1>3, <1>4, <1>5, <1>6

\* and its counter halted: with that no interrupt can come any more.
LEMMA HaltInv == IInv /\ Halt => IInv'
<1> SUFFICES ASSUME IInv, Halt PROVE IInv'
  OBVIOUS
<1> USE DEF IInv
<1>1. /\ at = "halt" /\ at' = "configure"
      /\ UNCHANGED <<prompt, args, fn, left, clk, mode, callee, asked, age, rang>>
  BY DEF Halt, Step, ghosts
<1>2. clk /\ ~tim.uif /\ ~nvic.pend
  BY <1>1 DEF Halt, Step, CallInv, LineInv, Halted
<1>3. /\ tim' = [tim EXCEPT !.cen = FALSE]
      /\ nvic' = [nvic EXCEPT !.pend = @ \/ (tim'.uif /\ tim'.uie)]
  BY <1>2 DEF Halt, Registers
<1>4. /\ ~tim'.cen /\ ~tim'.uif /\ ~nvic'.pend /\ nvic'.ena = nvic.ena
  BY <1>2, <1>3 DEF TypeOK, TimType
<1>5. TypeOK'
  <2>1. tim' \in TimType /\ nvic' \in [ena : BOOLEAN, pend : BOOLEAN]
    BY <1>3 DEF TypeOK, TimType
  <2> QED  BY <1>1, <2>1 DEF TypeOK
<1>6. OnTime'
  BY <1>1 DEF OnTime
<1>7. CallInv'
  BY <1>1, <1>2 DEF CallInv, BeforeHalt, Halted, AfterUpdate, AfterLine
<1>8. CountInv'
  BY <1>4 DEF CountInv
<1>9. LineInv'
  BY <1>1, <1>2, <1>4 DEF LineInv, Interrupted, BeforeHalt, Halted, AfterUpdate, AfterLine
<1> QED  BY <1>5, <1>6, <1>7, <1>8, <1>9

\* A stop halts the counter,
LEMMA StopInv == IInv /\ Stop => IInv'
<1> SUFFICES ASSUME IInv, Stop PROVE IInv'
  OBVIOUS
<1> USE DEF IInv
<1>1. /\ at = "idle" /\ at' = "closeLine" /\ ~(prompt /\ Interrupted)
      /\ UNCHANGED <<prompt, args, fn, left, clk, mode, callee, asked, age, rang>>
  BY DEF Stop, Step, ghosts
<1>2. /\ tim' = IF clk THEN [tim EXCEPT !.cen = FALSE] ELSE tim
      /\ nvic' = [nvic EXCEPT !.pend = @ \/ (tim'.uif /\ tim'.uie)]
  BY DEF Stop, Registers
<1>3. /\ ~tim'.cen /\ tim'.uif = tim.uif /\ tim'.uie = tim.uie
      /\ nvic'.ena = nvic.ena /\ nvic'.pend = nvic.pend
  BY <1>2 DEF TypeOK, TimType, CountInv, LineInv
<1>4. TypeOK'
  <2>1. tim' \in TimType /\ nvic' \in [ena : BOOLEAN, pend : BOOLEAN]
    BY <1>2 DEF TypeOK, TimType
  <2> QED  BY <1>1, <2>1 DEF TypeOK
<1>5. OnTime'
  BY <1>1 DEF OnTime
<1>6. CallInv'
  BY <1>1 DEF CallInv, BeforeHalt, Halted, AfterUpdate, AfterLine
<1>7. CountInv'
  BY <1>3 DEF CountInv
<1>8. LineInv'
  BY <1>1, <1>3 DEF LineInv, Interrupted, BeforeHalt, Halted, AfterUpdate, AfterLine
<1> QED  BY <1>4, <1>5, <1>6, <1>7, <1>8

\* closes the line,
LEMMA CloseLineInv == IInv /\ CloseLine => IInv'
<1> SUFFICES ASSUME IInv, CloseLine PROVE IInv'
  OBVIOUS
<1> USE DEF IInv
<1>1. /\ at = "closeLine" /\ at' = "disable"
      /\ UNCHANGED <<prompt, args, fn, left, clk, mode, callee, asked, age, rang>>
  BY DEF CloseLine, Step, ghosts
<1>2. /\ tim' = IF clk THEN [tim EXCEPT !.uie = FALSE] ELSE tim
      /\ nvic' = [nvic EXCEPT !.pend = @ \/ (tim'.uif /\ tim'.uie)]
  BY DEF CloseLine, Registers
<1>3. /\ ~tim'.cen /\ tim'.uif = tim.uif /\ (tim'.uie => tim.uie)
      /\ nvic'.ena = nvic.ena /\ nvic'.pend = nvic.pend
  <2>1. ~tim.cen
    BY <1>1 DEF CountInv, BeforeHalt
  <2> QED  BY <1>2, <2>1 DEF TypeOK, TimType, LineInv
<1>4. TypeOK'
  <2>1. tim' \in TimType /\ nvic' \in [ena : BOOLEAN, pend : BOOLEAN]
    BY <1>2 DEF TypeOK, TimType
  <2> QED  BY <1>1, <2>1 DEF TypeOK
<1>5. OnTime'
  BY <1>1 DEF OnTime
<1>6. CallInv'
  BY <1>1 DEF CallInv, BeforeHalt, Halted, AfterUpdate, AfterLine
<1>7. CountInv'
  BY <1>3 DEF CountInv
<1>8. LineInv'
  BY <1>1, <1>3 DEF LineInv, Interrupted, BeforeHalt, Halted, AfterUpdate, AfterLine
<1> QED  BY <1>4, <1>5, <1>6, <1>7, <1>8

\* disables the interrupt, after which none can come,
LEMMA DisableInv == IInv /\ Disable => IInv'
<1> SUFFICES ASSUME IInv, Disable PROVE IInv'
  OBVIOUS
<1> USE DEF IInv
<1>1. /\ at = "disable" /\ at' = "clockOff" /\ nvic' = [nvic EXCEPT !.ena = FALSE]
      /\ UNCHANGED <<prompt, args, fn, tim, left, clk, mode, callee, asked, age, rang>>
  BY DEF Disable, Disabled, Step, ghosts
<1>2. ~tim'.cen /\ ~nvic'.ena /\ nvic'.pend = nvic.pend
  BY <1>1 DEF TypeOK, CountInv, BeforeHalt
<1>3. TypeOK'
  <2>1. nvic' \in [ena : BOOLEAN, pend : BOOLEAN]
    BY <1>1 DEF TypeOK
  <2> QED  BY <1>1, <2>1 DEF TypeOK
<1>4. OnTime'
  BY <1>1 DEF OnTime
<1>5. CallInv'
  BY <1>1, <1>2 DEF CallInv, BeforeHalt, Halted, AfterUpdate, AfterLine
<1>6. CountInv'
  BY <1>2 DEF CountInv
<1>7. LineInv'
  BY <1>1, <1>2 DEF LineInv, Interrupted, BeforeHalt, Halted, AfterUpdate, AfterLine
<1> QED  BY <1>3, <1>4, <1>5, <1>6, <1>7

\* and switches the clock off.
LEMMA ClockOffInv == IInv /\ ClockOff => IInv'
<1> SUFFICES ASSUME IInv, ClockOff PROVE IInv'
  OBVIOUS
<1> USE DEF IInv
<1>1. /\ at = "clockOff" /\ at' = "idle" /\ ~clk' /\ clk' \in BOOLEAN /\ mode' = "off"
      /\ UNCHANGED <<prompt, args, fn, tim, left, nvic, callee, asked, age, rang>>
  BY DEF ClockOff, Step, ghosts
<1>2. ~tim.cen /\ ~nvic.ena
  BY <1>1 DEF CallInv, CountInv, BeforeHalt
<1>3. TypeOK'
  BY <1>1 DEF TypeOK
<1>4. OnTime'
  BY <1>1 DEF OnTime
<1>5. CallInv'
  BY <1>1 DEF CallInv, BeforeHalt, Halted, AfterUpdate, AfterLine
<1>6. CountInv'
  BY <1>1, <1>2 DEF CountInv
<1>7. LineInv'
  BY <1>1, <1>2 DEF LineInv, Interrupted, BeforeHalt, Halted, AfterUpdate, AfterLine
<1> QED  BY <1>3, <1>4, <1>5, <1>6, <1>7

-----------------------------------------------------------------------------
(* The theorems *)

\* Types, times and the interrupt, whatever the program asks for and whenever
\* the interrupt is taken.
THEOREM Invariance == Spec => []IInv
<1>1. IInv /\ [Next]_timerVars => IInv'
  <2> SUFFICES ASSUME IInv, [Next]_timerVars PROVE IInv'
    OBVIOUS
  <2>1. CASE UNCHANGED timerVars
    BY <2>1 DEF timerVars, hardware, promise, ghosts, IInv, TypeOK, OnTime,
         CallInv, CountInv, LineInv, Loaded, Period, Interrupted
  <2>2. ASSUME NEW d \in Delays, NEW once \in BOOLEAN, NEW f \in Functions,
               Start(d, once, f)
        PROVE  IInv'
    BY <2>2, StartInv
  <2>3. CASE Starts
    BY <2>3, ClockOnInv, HaltInv, ConfigureInv, UpdateInv, SetFunctionInv,
       OpenLineInv, UnpendInv, EnableInv, CountStepInv DEF Starts
  <2>4. CASE Stop \/ Stops
    BY <2>4, StopInv, CloseLineInv, DisableInv, ClockOffInv DEF Stops
  <2>5. CASE Tick \/ Isr \/ Reset
    BY <2>5, TickInv, IsrInv, ResetInv
  <2> QED  BY <2>1, <2>2, <2>3, <2>4, <2>5 DEF Next, Run, Calls
<1> QED  BY <1>1, InitInv, PTL DEF Spec

\* A timer never rings late, and early by less than the grain of its counter.
THEOREM RingsOnTime == Spec => []OnTime
<1>1. IInv => OnTime
  BY DEF IInv
<1> QED  BY <1>1, Invariance, PTL

\* The driver implements Alarm: every call of a function is one that the last
\* start, not stopped since, has asked for.
THEOREM ImplementsAlarm == Spec => KeepsPromise
<1>1. Init => Promise!Init
  BY DEF Init, Promise!Init
<1>2. IInv /\ [Next]_timerVars => [Promise!Next]_(Promise!alarmVars)
  <2> SUFFICES ASSUME IInv, [Next]_timerVars
               PROVE  Promise!Next \/ UNCHANGED Promise!alarmVars
    OBVIOUS
  <2>1. CASE UNCHANGED timerVars
    BY <2>1 DEF timerVars, promise, Promise!alarmVars
  <2>2. CASE Isr
    <3>1. /\ mode # "off" /\ called' = fn /\ UNCHANGED callee
          /\ mode' = IF mode = "once" THEN "off" ELSE mode
          /\ nvic.pend
      BY <2>2 DEF Isr, IInv, LineInv, Interrupted
    <3>2. at \notin Halted
      BY <3>1 DEF IInv, LineInv
    <3>3. fn = callee
      BY <3>1, <3>2 DEF IInv, LineInv, Halted, AfterUpdate, AfterLine
    <3> QED  BY <3>1, <3>3 DEF Promise!Ring, Promise!Next
  <2>3. CASE Count
    <3>1. args.f \in Functions
      BY <2>3, Still, ArgsType DEF Count, Step, IInv, Halted, AfterUpdate, AfterLine
    <3>2. Promise!Set(args.f, IF args.once THEN "once" ELSE "every")
      BY <2>3 DEF Count, Step, Promise!Set
    <3> QED  BY <3>1, <3>2 DEF Promise!Next
  <2>4. CASE ClockOff
    BY <2>4 DEF ClockOff, Step, Promise!Cancel, Promise!Next
  <2>5. CASE Reset
    BY <2>5 DEF Reset, Promise!Forget, Promise!Next
  <2>6. CASE Tick \/ Stop \/ CloseLine \/ Disable
    BY <2>6 DEF Tick, Stop, CloseLine, Disable, Step, Promise!Quiet, Promise!Next
  <2>7. CASE Starts /\ ~Count
    BY <2>7 DEF Starts, ClockOn, Halt, Configure, Update, SetFunction, OpenLine,
         Unpend, Enable, Step, Promise!Quiet, Promise!Next
  <2>8. ASSUME NEW d \in Delays, NEW once \in BOOLEAN, NEW f \in Functions,
               Start(d, once, f)
        PROVE  Promise!Next
    BY <2>8 DEF Start, Step, Promise!Quiet, Promise!Next
  <2> QED  BY <2>1, <2>2, <2>3, <2>4, <2>5, <2>6, <2>7, <2>8
            DEF Next, Run, Calls, Stops
<1> QED  BY <1>1, <1>2, Invariance, PTL DEF Spec, KeepsPromise, Promise!Spec
=============================================================================
