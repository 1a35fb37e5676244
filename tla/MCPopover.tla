----------------------------- MODULE MCPopover -----------------------------
(* An instance of Popover for TLC: a blind that travels in three ticks; a  *)
(* lamp that is off, half or full; for the timers a day of twenty minutes, *)
(* three of them before ten o'clock, in steps of half a minute.            *)
EXTENDS Popover

Levels == {0, 50, 100}
Typed == {0, 30, 70, 240}
Later == {120, 600}
OClocks == {60, 300}
=============================================================================
