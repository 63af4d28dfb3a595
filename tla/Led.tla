------------------------------------ MODULE Led ------------------------------------
(***************************************************************************)
(* Led.c: the camera's LED is lit while the camera is idle and blinks while  *)
(* it watches.  A write to the LED that fails is only logged.                *)
(***************************************************************************)
EXTENDS Naturals

(* The static `g`; the LED is taken to be lit at first.                       *)
ledInit == [enabled |-> FALSE, on |-> TRUE]

ledUpdate(led, on) == [led EXCEPT !.on = on]

ledBlinkEnable(led, enabled) == [ledUpdate(led, ~enabled) EXCEPT !.enabled = enabled]

(* `half` is the half of the blink period that the clock is in.               *)
ledBlinkUpdate(led, half) == IF led.enabled THEN ledUpdate(led, half = 1) ELSE led
====================================================================================
