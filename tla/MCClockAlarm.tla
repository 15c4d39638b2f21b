---------------------------- MODULE MCClockAlarm ----------------------------
(* ClockAlarm for TLC: a day of two hours of two minutes. *)
EXTENDS ClockAlarm

Morning == <<1, 1>>

TwoTimes == {Midnight, Morning}
=============================================================================
