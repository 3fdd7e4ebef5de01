----------------------------- MODULE Stm32Timer -----------------------------
(***************************************************************************)
(* stm32/timer.c over TIM2, the NVIC and the clock gate of the chip.       *)
(*                                                                         *)
(* cnTimerStart and cnTimerStop are cut at their register writes, because  *)
(* the counter goes on between any two of them and may raise the interrupt *)
(* there.  Writes that nothing else looks at, the counter being halted,    *)
(* are one action.  Time is counted in cycles of the timer's clock.        *)
(*                                                                         *)
(* The hardware is modelled from the way timer.c uses it: PSC and ARR take *)
(* effect at the next update; EGR.UG makes one, and sets UIF unless URS is *)
(* set; OPM clears CEN at an underflow; UIF /\ UIE is the interrupt line,  *)
(* and the NVIC latches it; a peripheral without a clock keeps its         *)
(* registers.  An interrupt is taken at the end of the instruction, or,    *)
(* when `prompt' is FALSE, at any later moment.                            *)
(*                                                                         *)
(* What the program may ask for is named by MayStart; main.c starts the    *)
(* timer once after a reset, with `oneshot', and stops it at most once.    *)
(***************************************************************************)
EXTENDS Integers

CONSTANTS
  Reg,        \* number of values of a register, 2^16
  Mhz,        \* CLOCK_FREQ_MHZ
  Delays,     \* microseconds the program may ask for
  Functions,  \* functions the program may want called
  NoCall      \* NULL

\* The products of the search fit into an int, which ends at Reg * Reg / 2.
InRange(d) == d > 0 /\ Mhz * d <= Reg * (Reg \div 2 - 1)

ASSUME TimerAssumption ==
  /\ Reg \in Nat /\ Reg >= 4
  /\ Mhz \in Nat /\ Mhz >= 2
  /\ Delays \subseteq Nat
  /\ \A d \in Delays : InRange(d)
  /\ NoCall \notin Functions

VARIABLES
  at,       \* where the program is; "idle" outside of timer.c
  args,     \* the arguments of cnTimerStart
  fn,       \* timeoutFunc
  tim,      \* registers of TIM2
  left,     \* cycles to the next underflow
  nvic,     \* enabled and pending bits of the TIM2 interrupt
  clk,      \* RCC_APB1ENR.TIM2ENR
  prompt,   \* interrupts are taken at once
  mode, callee, called,  \* what the program was promised, as in Alarm
  asked,    \* the delay the running timer was started with
  age,      \* cycles since it was started or rang, if it was not halted
  rang      \* how many there were when it last rang; 0 if it has not

hardware  == <<tim, left, nvic, clk, prompt>>
promise   == <<mode, callee, called>>
ghosts    == <<asked, age, rang>>
timerVars == <<at, args, fn, hardware, promise, ghosts>>

-----------------------------------------------------------------------------
(* The search for a prescaler, for a delay of c cycles *)

Arr(p, c)  == c \div (p + 1) - 1
Fits(p, c) == c <= Reg * (p + 1) /\ 0 < Arr(p, c) /\ Arr(p, c) < Reg
Psc(c)     == CHOOSE p \in 0 .. Reg - 1 :
                Fits(p, c) /\ \A q \in 0 .. p - 1 : ~Fits(q, c)

Period(t) == (t.psc + 1) * (t.arr + 1)

-----------------------------------------------------------------------------
NoArgs   == [delay |-> 0, once |-> FALSE, f |-> NoCall]
TimReset == [cen |-> FALSE, opm |-> FALSE, urs |-> FALSE, uie |-> FALSE,
             uif |-> FALSE, psc |-> 0, arr |-> Reg - 1]
NvicReset == [ena |-> FALSE, pend |-> FALSE]

Init ==
  /\ at = "idle" /\ args = NoArgs /\ fn = NoCall
  /\ tim = TimReset /\ left = 1 /\ nvic = NvicReset /\ clk = FALSE
  /\ prompt \in BOOLEAN
  /\ mode = "off" /\ callee = NoCall /\ called = NoCall
  /\ asked = 0 /\ age = 0 /\ rang = 0

Reset ==
  /\ at' = "idle" /\ args' = NoArgs /\ fn' = NoCall
  /\ tim' = TimReset /\ left' = 1 /\ nvic' = NvicReset /\ clk' = FALSE
  /\ UNCHANGED prompt
  /\ mode' = "off" /\ callee' = NoCall /\ called' = NoCall
  /\ asked' = 0 /\ age' = 0 /\ rang' = 0

\* TIM2's registers become t, and the NVIC looks at its interrupt line.
Registers(t) ==
  /\ tim' = IF clk THEN t ELSE tim
  /\ nvic' = [nvic EXCEPT !.pend = @ \/ (tim'.uif /\ tim'.uie)]

-----------------------------------------------------------------------------
(* The counter and the interrupt *)

Tick ==
  /\ clk /\ tim.cen
  /\ IF left > 1
       THEN /\ left' = left - 1
            /\ age' = age + 1
            /\ UNCHANGED <<tim, nvic, rang>>
       ELSE /\ left' = Period(tim)
            /\ Registers([tim EXCEPT !.uif = TRUE, !.cen = ~tim.opm])
            /\ age' = 0
            /\ rang' = age + 1
  /\ called' = NoCall
  /\ UNCHANGED <<at, args, fn, clk, prompt, mode, callee, asked>>

Interrupted == nvic.ena /\ nvic.pend

\* tim2Handler, run by the NVIC.
Isr ==
  /\ Interrupted
  /\ tim' = IF clk THEN [tim EXCEPT !.uif = FALSE] ELSE tim
  /\ nvic' = [nvic EXCEPT !.pend = FALSE]
  /\ called' = fn
  /\ mode' = IF mode = "once" THEN "off" ELSE mode
  /\ UNCHANGED <<at, args, fn, left, clk, prompt, callee, ghosts>>

\* The program goes from one label to the next.
Step(from, to) ==
  /\ at = from
  /\ ~(prompt /\ Interrupted)
  /\ at' = to
  /\ called' = NoCall
  /\ UNCHANGED prompt

-----------------------------------------------------------------------------
(* cnTimerStart.  With a delay of 0 or no function it returns at once.     *)

\* OPM is never cleared: once a start has asked for one shot, so must every
\* later one.  And an interrupt that is late survives cnTimerStop in UIF: a
\* program that is to stand that starts the timer once.
MayStart(once) == (tim.opm => once) /\ (prompt \/ fn = NoCall)

Start(d, once, f) ==
  /\ Step("idle", "clockOn")
  /\ MayStart(once)
  /\ args' = [delay |-> d, once |-> once, f |-> f]
  /\ UNCHANGED <<fn, tim, left, nvic, clk, mode, callee, ghosts>>

ClockOn ==
  /\ Step("clockOn", "halt")
  /\ clk' = TRUE
  /\ UNCHANGED <<args, fn, tim, left, nvic, mode, callee, ghosts>>

Halt ==
  /\ Step("halt", "configure")
  /\ Registers([tim EXCEPT !.cen = FALSE])
  /\ UNCHANGED <<args, fn, left, clk, mode, callee, ghosts>>

ConfigureLoud ==                       \* mutant: URS is not set
  /\ Step("configure", "update")
  /\ LET c == Mhz * args.delay
     IN  Registers([tim EXCEPT !.psc = Psc(c), !.arr = Arr(Psc(c), c)])
  /\ UNCHANGED <<args, fn, left, clk, mode, callee, ghosts>>

Configure ==
  /\ Step("configure", "update")
  /\ LET c == Mhz * args.delay
     IN  Registers([tim EXCEPT !.urs = TRUE, !.psc = Psc(c),
                               !.arr = Arr(Psc(c), c)])
  /\ UNCHANGED <<args, fn, left, clk, mode, callee, ghosts>>

KeptCount == left                      \* mutant: UG is not set
Reloaded  == Period(tim)

Update ==
  /\ Step("update", "function")
  /\ left' = Reloaded
  /\ Registers([tim EXCEPT !.uif = @ \/ ~tim.urs])
  /\ UNCHANGED <<args, fn, clk, mode, callee, ghosts>>

SetFunction ==
  /\ Step("function", "line")
  /\ fn' = args.f
  /\ Registers([tim EXCEPT !.opm = @ \/ args.once])
  /\ UNCHANGED <<args, left, clk, mode, callee, ghosts>>

OpenLine ==
  /\ Step("line", "unpend")
  /\ Registers([tim EXCEPT !.uie = TRUE])
  /\ UNCHANGED <<args, fn, left, clk, mode, callee, ghosts>>

\* ICPR0 has no effect on an interrupt whose line is still up.
Unpend ==
  /\ Step("unpend", "enable")
  /\ nvic' = [nvic EXCEPT !.pend = tim.uif /\ tim.uie]
  /\ UNCHANGED <<args, fn, tim, left, clk, mode, callee, ghosts>>

NeverEnabled == nvic                   \* mutant: ISER0 is not written
Enabled      == [nvic EXCEPT !.ena = TRUE]

Enable ==
  /\ Step("enable", "count")
  /\ nvic' = Enabled
  /\ UNCHANGED <<args, fn, tim, left, clk, mode, callee, ghosts>>

Count ==
  /\ Step("count", "idle")
  /\ Registers([tim EXCEPT !.cen = TRUE])
  /\ mode' = IF args.once THEN "once" ELSE "every"
  /\ callee' = args.f
  /\ asked' = args.delay
  /\ age' = 0
  /\ rang' = 0
  /\ args' = NoArgs
  /\ UNCHANGED <<fn, left, clk>>

-----------------------------------------------------------------------------
(* cnTimerStop *)

Stop ==
  /\ Step("idle", "closeLine")
  /\ Registers([tim EXCEPT !.cen = FALSE])
  /\ UNCHANGED <<args, fn, left, clk, mode, callee, ghosts>>

CloseLine ==
  /\ Step("closeLine", "disable")
  /\ Registers([tim EXCEPT !.uie = FALSE])
  /\ UNCHANGED <<args, fn, left, clk, mode, callee, ghosts>>

LeftEnabled == nvic                    \* mutant: ICER0 is not written
Disabled    == [nvic EXCEPT !.ena = FALSE]

Disable ==
  /\ Step("disable", "clockOff")
  /\ nvic' = Disabled
  /\ UNCHANGED <<args, fn, tim, left, clk, mode, callee, ghosts>>

ClockOff ==
  /\ Step("clockOff", "idle")
  /\ clk' = FALSE
  /\ mode' = "off"
  /\ UNCHANGED <<args, fn, tim, left, nvic, callee, ghosts>>

-----------------------------------------------------------------------------
Starts ==
  ClockOn \/ Halt \/ Configure \/ Update \/ SetFunction \/ OpenLine
  \/ Unpend \/ Enable \/ Count
Stops == CloseLine \/ Disable \/ ClockOff

Calls ==
  \/ \E d \in Delays, once \in BOOLEAN, f \in Functions : Start(d, once, f)
  \/ Stop

Run  == Calls \/ Starts \/ Stops \/ Tick \/ Isr
Next == Run \/ Reset

Spec == Init /\ [][Next]_timerVars

\* The processor runs what it has begun, the clock ticks, and an interrupt
\* that stays pending is taken; nobody need ever call anything.
LiveSpec ==
  Spec /\ WF_timerVars(Starts \/ Stops) /\ WF_timerVars(Tick) /\ WF_timerVars(Isr)

-----------------------------------------------------------------------------
(* Properties *)

TimType == [cen : BOOLEAN, opm : BOOLEAN, urs : BOOLEAN, uie : BOOLEAN,
            uif : BOOLEAN, psc : 0 .. Reg - 1, arr : 0 .. Reg - 1]

TypeOK ==
  /\ at \in {"idle", "clockOn", "halt", "configure", "update", "function",
             "line", "unpend", "enable", "count",
             "closeLine", "disable", "clockOff"}
  /\ args \in [delay : Delays, once : BOOLEAN, f : Functions] \cup {NoArgs}
  /\ fn \in Functions \cup {NoCall}
  /\ tim \in TimType
  /\ left \in Nat \ {0}
  /\ nvic \in [ena : BOOLEAN, pend : BOOLEAN]
  /\ clk \in BOOLEAN
  /\ prompt \in BOOLEAN
  /\ asked \in Delays \cup {0}
  /\ age \in Nat
  /\ rang \in Nat

\* A timer rings neither after the delay it was started with nor, but for the
\* grain of a 16-bit counter, before: whatever ran before it, however often it
\* was stopped or started again in the meantime (timer.h:16-17, 22-23).
OnTime ==
  /\ age <= Mhz * asked
  /\ rang # 0 => /\ rang <= Mhz * asked
                 /\ (Mhz * asked - rang) * Reg < Mhz * asked + Reg

\* The registers of TIM2 are those for a delay of d.
Loaded(t, d) == t.psc = Psc(Mhz * d) /\ t.arr = Arr(Psc(Mhz * d), Mhz * d)

\* What keeps the above and KeepsPromise inductive: how far a start or a stop
\* has come at each label,
BeforeHalt  == {"idle", "clockOn", "halt"}
AfterLine   == {"unpend", "enable", "count"}
AfterUpdate == {"function", "line"} \cup AfterLine
Halted      == {"configure", "update"} \cup AfterUpdate

CallInv ==
  /\ args # NoArgs <=> at \in {"clockOn", "halt"} \cup Halted
  /\ at \in {"halt"} \cup Halted => clk
  /\ at \in {"update"} \cup AfterUpdate => tim.urs /\ Loaded(tim, args.delay)
  /\ at \in AfterUpdate => left = Period(tim)
  /\ at \in {"line"} \cup AfterLine => fn = args.f /\ (args.once => tim.opm)
  /\ at \in AfterLine => tim.uie
  /\ at = "count" => nvic.ena
  /\ at = "clockOff" => ~nvic.ena

\* when the counter runs, and what it then counts,
CountInv ==
  tim.cen => /\ clk /\ tim.uie /\ nvic.ena
             /\ at \in BeforeHalt
             /\ mode # "off"
             /\ mode = "once" => tim.opm /\ ~nvic.pend
             /\ asked # 0 /\ Loaded(tim, asked)
             /\ left + age = Period(tim)

\* and when the interrupt may come, which a late one does later.
LineInv ==
  /\ tim.uif /\ tim.uie => nvic.pend
  /\ Interrupted => clk /\ mode # "off"
  /\ at \in Halted => ~tim.uif /\ ~nvic.pend
  /\ prompt /\ (tim.uif \/ nvic.pend) => Interrupted /\ at \in BeforeHalt
  /\ ~prompt /\ (fn = NoCall \/ at \in {"clockOn", "halt"} \cup Halted)
       => ~tim.uif /\ ~nvic.pend /\ mode = "off"
  /\ mode # "off" /\ at \notin {"line"} \cup AfterLine
       => fn = callee /\ callee \in Functions

IInv == TypeOK /\ OnTime /\ CallInv /\ CountInv /\ LineInv

\* A function is called only for a start that has not been stopped, is the
\* one that start named, and is called once by a one-shot timer, although the
\* counter runs and the interrupt comes between any two register writes, and
\* the interrupt perhaps late (timer.h:16-29).
Promise == INSTANCE Alarm
KeepsPromise == Promise!Spec

\* A timer that is started rings, if the program leaves it alone.
Rings == (mode # "off" /\ at = "idle")
           ~> (called # NoCall \/ mode = "off" \/ at # "idle")
=============================================================================
