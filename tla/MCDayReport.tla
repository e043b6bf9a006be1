------------------------------ MODULE MCDayReport ------------------------------
(***************************************************************************)
(* Requests for TLC: every range of the seconds of the clock, one whose    *)
(* ends are swapped, and days that end or begin at, before or after ticks. *)
(***************************************************************************)
EXTENDS DayReport

AnyRange == {<<l, r>> \in Times \X Times : l < r}
Swapped == {<<MaxTime, Start>>}
Days == {<<l, l + Day>> : l \in {Start - Day, Start - Day + 4, Start - Day + 7, Start - 6, Start, Start + 2}}
Yesterday == {<<Start - Day, Start>>}
AllRanges == AnyRange \cup Swapped \cup Days
================================================================================
