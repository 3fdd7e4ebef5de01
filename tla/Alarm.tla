------------------------------- MODULE Alarm -------------------------------
(***************************************************************************)
(* What common/timer.h promises, whatever the chip, but for the time that  *)
(* passes: a function is called only by a timer that has been started and  *)
(* not been stopped since, it is the function that the last start named,   *)
(* and a one-shot timer calls it once.                                     *)
(*                                                                         *)
(* The `timer' of Pump is such an alarm: armed is "once", stopped and      *)
(* fired are "off", and Ring is its Timeout.                               *)
(***************************************************************************)
CONSTANTS
  Functions,  \* the functions a timer can be asked to call
  NoCall      \* none of them

VARIABLES
  mode,    \* "off", "once" (one-shot) or "every" (repeating)
  callee,  \* the function to call
  called   \* the function that the last step has called, or NoCall

alarmVars == <<mode, callee, called>>

Init == mode = "off" /\ callee = NoCall /\ called = NoCall

Set(f, m) == mode' = m /\ callee' = f /\ called' = NoCall

Cancel == mode' = "off" /\ called' = NoCall /\ UNCHANGED callee

Ring ==
  /\ mode # "off"
  /\ mode' = IF mode = "once" THEN "off" ELSE mode
  /\ called' = callee
  /\ UNCHANGED callee

Quiet == called' = NoCall /\ UNCHANGED <<mode, callee>>

\* A reset of the chip.
Forget == mode' = "off" /\ callee' = NoCall /\ called' = NoCall

Next ==
  \/ \E f \in Functions, m \in {"once", "every"} : Set(f, m)
  \/ Cancel \/ Ring \/ Quiet \/ Forget

Spec == Init /\ [][Next]_alarmVars
=============================================================================
