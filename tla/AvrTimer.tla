------------------------------ MODULE AvrTimer ------------------------------
(***************************************************************************)
(* avr/timer.c over timer 1 of the ATmega328p.                             *)
(*                                                                         *)
(* cnTimerStart and cnTimerStop are cut at their register writes.  Time is *)
(* counted in cycles of the prescaled clock, of which the first may be cut *)
(* short because the prescaler runs all the time.                          *)
(*                                                                         *)
(* The hardware is modelled from the way timer.c uses it: TCNT1 counts up  *)
(* while TCCR1B selects a prescaler, and its step from the highest value   *)
(* to 0 sets TOV1; the interrupt is taken, and clears TOV1, once TOIE1 and *)
(* the I flag are set: at the end of the instruction, or, when `prompt' is *)
(* FALSE, at any later moment (as it is while avr/flash.c has cleared I).  *)
(*                                                                         *)
(* What the program may ask for is named by MayStart; main.c starts the    *)
(* timer once after a reset, with `oneshot', and stops it at most once.    *)
(***************************************************************************)
EXTENDS Integers, Sequences

CONSTANTS
  Reg,         \* number of values of TCNT1, 2^16
  Wide,        \* number of values of a uint32_t, 2^32
  Mhz,         \* F_CPU / 1000000
  Prescalers,  \* PSCS
  Delays,      \* microseconds the program may ask for
  Functions,   \* functions the program may want called
  NoCall       \* NULL

ASSUME TimerAssumption ==
  /\ Reg \in Nat /\ Reg >= 2
  /\ Wide \in Nat /\ Wide >= Reg
  /\ Mhz \in Nat \ {0}
  /\ Prescalers \in Seq(Nat \ {0}) /\ Len(Prescalers) > 0
  /\ Delays \subseteq Nat \ {0}
  /\ NoCall \notin Functions

VARIABLES
  at,        \* where the program is; "idle" outside of timer.c
  args,      \* the arguments of cnTimerStart
  fn,        \* timeoutFunc
  oneshot,   \* timerOneshot
  tccr1b,    \* the prescaler selected by TCCR1B, by its number; 0 for none
  tcnt1, toie1, tov1,  \* TCNT1, TIMSK1.TOIE1 and TIFR1.TOV1
  iflag,     \* SREG.I
  prompt,    \* interrupts are taken at once
  mode, callee, called,  \* what the program was promised, as in Alarm
  asked,     \* the delay the running timer was started with
  age,       \* prescaled cycles since it was started or rang
  rang       \* how many there were when it first rang; 0 if it has not

software  == <<args, fn, oneshot>>
hardware  == <<tccr1b, tcnt1, toie1, tov1, iflag, prompt>>
promise   == <<mode, callee, called>>
ghosts    == <<asked, age, rang>>
timerVars == <<at, software, hardware, promise, ghosts>>

-----------------------------------------------------------------------------
(* The search for a prescaler: the first whose count fits into TCNT1, or,  *)
(* when there is none, the last with the highest count.                    *)

Wanted(d, i) == ((Mhz * d) % Wide) \div Prescalers[i]
Found(d)     == {i \in DOMAIN Prescalers : Wanted(d, i) < Reg}

PscId(d) == IF Found(d) = {} THEN Len(Prescalers)
            ELSE CHOOSE i \in Found(d) : \A j \in Found(d) : i <= j
Cnt(d)   == IF Found(d) = {} THEN Reg - 1 ELSE Wanted(d, PscId(d))

-----------------------------------------------------------------------------
NoArgs == [delay |-> 0, once |-> FALSE, f |-> NoCall]

Init ==
  /\ at = "idle" /\ args = NoArgs /\ fn = NoCall /\ oneshot = FALSE
  /\ tccr1b = 0 /\ tcnt1 = 0 /\ toie1 = FALSE /\ tov1 = FALSE /\ iflag = FALSE
  /\ prompt \in BOOLEAN
  /\ mode = "off" /\ callee = NoCall /\ called = NoCall
  /\ asked = 0 /\ age = 0 /\ rang = 0

Reset ==
  /\ at' = "idle" /\ args' = NoArgs /\ fn' = NoCall /\ oneshot' = FALSE
  /\ tccr1b' = 0 /\ tcnt1' = 0 /\ toie1' = FALSE /\ tov1' = FALSE /\ iflag' = FALSE
  /\ UNCHANGED prompt
  /\ mode' = "off" /\ callee' = NoCall /\ called' = NoCall
  /\ asked' = 0 /\ age' = 0 /\ rang' = 0

-----------------------------------------------------------------------------
(* The counter and the interrupt *)

Tick ==
  /\ tccr1b # 0
  /\ IF tcnt1 < Reg - 1
       THEN /\ tcnt1' = tcnt1 + 1
            /\ age' = age + 1
            /\ UNCHANGED <<tov1, rang>>
       ELSE /\ tcnt1' = 0
            /\ tov1' = TRUE
            /\ age' = 0
            /\ rang' = IF rang = 0 THEN age + 1 ELSE rang
  /\ called' = NoCall
  /\ UNCHANGED <<at, software, tccr1b, toie1, iflag, prompt, mode, callee, asked>>

Interrupted == tov1 /\ toie1 /\ iflag

\* cnTimerStop as the ISR calls it: nothing of the program runs in between.
LeftRunning == UNCHANGED <<tccr1b, toie1, tcnt1, fn>>   \* mutant: no cnTimerStop
StopInIsr   == tccr1b' = 0 /\ toie1' = FALSE /\ tcnt1' = 0 /\ fn' = NoCall

Isr ==
  /\ Interrupted
  /\ tov1' = FALSE
  /\ called' = fn
  /\ IF oneshot THEN StopInIsr ELSE UNCHANGED <<tccr1b, toie1, tcnt1, fn>>
  /\ mode' = IF fn # NoCall /\ mode = "once" THEN "off" ELSE mode
  /\ UNCHANGED <<at, args, oneshot, iflag, prompt, callee, ghosts>>

\* The program goes from one label to the next.
Step(from, to) ==
  /\ at = from
  /\ ~(prompt /\ Interrupted)
  /\ at' = to
  /\ called' = NoCall
  /\ UNCHANGED prompt

-----------------------------------------------------------------------------
(* cnTimerStart.  With a delay of 0 or no function it returns at once.     *)

\* Not while the timer runs: an overflow after timeoutFunc has been set would
\* call it, and a one-shot ISR then clear it.  And an interrupt that is late
\* survives cnTimerStop in TOV1: a program that is to stand that starts the
\* timer once.
MayStart == mode = "off" /\ (prompt \/ ~iflag)

Start(d, once, f) ==
  /\ Step("idle", "enable")
  /\ MayStart
  /\ args' = [delay |-> d, once |-> once, f |-> f]
  /\ fn' = f
  /\ oneshot' = once
  /\ UNCHANGED <<tccr1b, tcnt1, toie1, tov1, iflag, mode, callee, ghosts>>

Enable ==
  /\ Step("enable", "setCount")
  /\ toie1' = TRUE
  /\ UNCHANGED <<software, tccr1b, tcnt1, tov1, iflag, mode, callee, ghosts>>

CountKept == tcnt1                     \* mutant: TCNT1 is not written
FirstCount == Cnt(args.delay)

SetCount ==
  /\ Step("setCount", "setClock")
  /\ tcnt1' = FirstCount
  /\ UNCHANGED <<software, tccr1b, toie1, tov1, iflag, mode, callee, ghosts>>

\* The write of TCCR1B triggers the timer.
SetClock ==
  /\ Step("setClock", "sei")
  /\ tccr1b' = PscId(args.delay)
  /\ mode' = IF args.once THEN "once" ELSE "every"
  /\ callee' = args.f
  /\ asked' = args.delay
  /\ age' = 0
  /\ rang' = 0
  /\ args' = NoArgs
  /\ UNCHANGED <<fn, oneshot, tcnt1, toie1, tov1, iflag>>

NoSei == iflag                         \* mutant: interrupts stay disabled
AfterSei == TRUE

Sei ==
  /\ Step("sei", "idle")
  /\ iflag' = AfterSei
  /\ UNCHANGED <<software, tccr1b, tcnt1, toie1, tov1, mode, callee, ghosts>>

-----------------------------------------------------------------------------
(* cnTimerStop *)

Stop ==
  /\ Step("idle", "disable")
  /\ tccr1b' = 0
  /\ UNCHANGED <<software, tcnt1, toie1, tov1, iflag, mode, callee, ghosts>>

Disable ==
  /\ Step("disable", "clear")
  /\ toie1' = FALSE
  /\ UNCHANGED <<software, tccr1b, tcnt1, tov1, iflag, mode, callee, ghosts>>

Clear ==
  /\ Step("clear", "forget")
  /\ tcnt1' = 0
  /\ UNCHANGED <<software, tccr1b, toie1, tov1, iflag, mode, callee, ghosts>>

Forget ==
  /\ Step("forget", "idle")
  /\ fn' = NoCall
  /\ mode' = "off"
  /\ UNCHANGED <<args, oneshot, tccr1b, tcnt1, toie1, tov1, iflag, callee, ghosts>>

-----------------------------------------------------------------------------
Starts == Enable \/ SetCount \/ SetClock \/ Sei
Stops  == Disable \/ Clear \/ Forget

Calls ==
  \/ \E d \in Delays, once \in BOOLEAN, f \in Functions : Start(d, once, f)
  \/ Stop

Next == Calls \/ Starts \/ Stops \/ Tick \/ Isr \/ Reset

Spec == Init /\ [][Next]_timerVars

\* The processor runs what it has begun, the clock ticks, and an interrupt
\* that stays pending is taken; nobody need ever call anything.
LiveSpec ==
  Spec /\ WF_timerVars(Starts \/ Stops) /\ WF_timerVars(Tick) /\ WF_timerVars(Isr)

-----------------------------------------------------------------------------
(* Properties *)

TypeOK ==
  /\ at \in {"idle", "enable", "setCount", "setClock", "sei",
             "disable", "clear", "forget"}
  /\ args \in [delay : Delays, once : BOOLEAN, f : Functions] \cup {NoArgs}
  /\ fn \in Functions \cup {NoCall}
  /\ tccr1b \in {0} \cup DOMAIN Prescalers
  /\ tcnt1 \in 0 .. Reg - 1
  /\ oneshot \in BOOLEAN /\ toie1 \in BOOLEAN /\ tov1 \in BOOLEAN
  /\ iflag \in BOOLEAN /\ prompt \in BOOLEAN
  /\ asked \in Delays \cup {0}
  /\ age \in Nat
  /\ rang \in Nat

\* A timer first rings when TCNT1 has gone from the count that was computed up
\* to its end, whatever ran before it and whenever it was stopped: nothing of
\* an earlier use is left in the counter, its flag or its prescaler.  (That is
\* Reg - Cnt prescaled cycles and not the Cnt that timer.h:16 asks for.)
OnCount == IF rang = 0 THEN age < Reg - Cnt(asked) ELSE rang = Reg - Cnt(asked)

\* What keeps the above and KeepsPromise inductive: how far a start or a stop
\* has come at each label,
Starting == {"enable", "setCount", "setClock"}

CallInv ==
  /\ args # NoArgs <=> at \in Starting
  /\ at \in Starting => /\ mode = "off" /\ ~tov1 /\ (prompt \/ ~iflag)
                       /\ fn = args.f /\ oneshot = args.once
  /\ at \in {"setCount", "setClock"} => toie1
  /\ at = "setClock" => tcnt1 = Cnt(args.delay)
  /\ at \in {"clear", "forget"} => ~toie1
  /\ mode # "off" => /\ callee \in Functions /\ fn = callee
                     /\ mode = "once" <=> oneshot

\* when the counter runs, and what it then counts,
CountInv ==
  tccr1b # 0 => /\ mode # "off" /\ toie1
                /\ at \in {"sei", "idle"}
                /\ rang = 0 => tcnt1 = Cnt(asked) + age

\* and when the interrupt may come, which a late one does later.
LineInv ==
  /\ tov1 /\ toie1 => mode # "off"
  /\ prompt /\ tov1 => toie1 /\ at \in {"sei", "idle"} /\ (at = "idle" => iflag)
  /\ ~iflag /\ at # "sei" => mode = "off" /\ ~tov1

IInv == TypeOK /\ OnCount /\ CallInv /\ CountInv /\ LineInv

\* A function is called only for a start that has not been stopped, is the
\* one that start named, and is called once by a one-shot timer, although the
\* ISR may run, and itself stop the timer, between any two register writes of
\* the program (timer.h:16-29, avr/timer.c:24-35).
Promise == INSTANCE Alarm
KeepsPromise == Promise!Spec

\* A timer that is started rings, if the program leaves it alone.
Rings == (mode # "off" /\ at = "idle")
           ~> (called # NoCall \/ mode = "off" \/ at # "idle")

-----------------------------------------------------------------------------
(* What the documents say of this timer, and the code does otherwise *)

\* timer.h:16: the function is started when delayUs microseconds have passed,
\* which are Cnt prescaled cycles.  TCNT1 counts up from Cnt to its end, which
\* takes all that Cnt leaves of Reg (avr/timer.c:72-91).
AfterDelay == rang # 0 /\ Found(asked) # {} => rang >= Cnt(asked)

=============================================================================
