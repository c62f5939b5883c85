----------------------------- MODULE SystemClock -----------------------------
(***************************************************************************)
(* The HAL's system clock and the one alarm this program registers with    *)
(* it: alt_tick.c and alt_alarm_start.c.  The count of ticks is a word that*)
(* wraps, and so is the time at which an alarm is due; the flag rollover   *)
(* tells a due time that lies beyond the wrap from one that has passed.    *)
(***************************************************************************)
EXTENDS Integers

CONSTANTS
  TickCount,      \* the clock counts modulo this: 2^32
  Period          \* ticks between two callbacks: alt_ticks_per_second(), 1000

ASSUME ClockAssumption ==
  TickCount \in Nat /\ Period \in Nat \ {0} /\ Period + 1 < TickCount

VARIABLES alt_nticks, time, rollover

clockVars == <<alt_nticks, time, rollover>>

Ticks == 0 .. TickCount - 1

\* The sum of two words.  (Both are smaller than TickCount, so % is a subtraction.)
Plus(a, b) == IF a + b < TickCount THEN a + b ELSE a + b - TickCount

ClockTypeOK ==
  /\ alt_nticks \in Ticks /\ time \in Ticks
  /\ rollover \in BOOLEAN

\* alt_alarm_start at reset, before the first tick.
AlarmStart ==
  /\ alt_nticks = 0
  /\ time = Plus(Plus(Period, alt_nticks), 1)
  /\ rollover = IF time < alt_nticks THEN TRUE ELSE FALSE

Expired_IgnoresRollover(now, roll) == time <= now

Expired(now, roll) == time <= now /\ ~roll

\* alt_tick: Expires says that this tick makes the callback, with its return
\* value the next period.
Expires ==
  LET now == Plus(alt_nticks, 1)
  IN  Expired(now, rollover /\ now # 0)

alt_tick ==
  LET now  == Plus(alt_nticks, 1)
      roll == rollover /\ now # 0
      next == Plus(time, Period)
  IN  /\ alt_nticks' = now
      /\ time' = IF Expires THEN next ELSE time
      /\ rollover' = IF Expires THEN roll \/ next < now ELSE roll
-----------------------------------------------------------------------------
\* The ticks until the next callback, across the wrap.
TicksLeft == IF time >= alt_nticks THEN time - alt_nticks
             ELSE time + TickCount - alt_nticks

(***************************************************************************)
(* The callback of alt_tick comes exactly every Period ticks, whatever the *)
(* clock wraps to in between: the ticks left count down to one, and the    *)
(* tick that finds one left starts the next period.  A tick that fired     *)
(* early would make them jump, and one that was missed would leave them to *)
(* go once round the clock (alt_tick.c:87-148, alt_alarm_start.c:64-112).  *)
(***************************************************************************)
AlarmOnTime ==
  [][TicksLeft' = IF TicksLeft = 1 THEN Period ELSE TicksLeft - 1]_clockVars
=============================================================================
