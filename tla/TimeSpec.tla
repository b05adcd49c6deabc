------------------------------ MODULE TimeSpec ------------------------------
(***************************************************************************)
(* What time_api.h promises of a timestamp that is added to and subtracted *)
(* from: it is one number of ticks.  Sums wrap with the seconds field; a   *)
(* difference below zero is refused and leaves zero (REQ-TIME-003 to 008). *)
(***************************************************************************)
EXTENDS Integers

CONSTANTS
  TickRange,    \* ticks a timestamp can count
  Durations     \* ticks of the durations it is used with

VARIABLES ticks, tTimeCall

TimeCall(op, d, status) == [op |-> op, duration |-> d, tStatus |-> status]

Init == ticks = 0 /\ tTimeCall = TimeCall("Convert", 0, "SUCCESS")

Add(d) ==
  /\ ticks' = (ticks + d) % TickRange
  /\ tTimeCall' = TimeCall("Add", d, "SUCCESS")

Subtract(d) ==
  /\ d <= ticks
  /\ ticks' = ticks - d
  /\ tTimeCall' = TimeCall("Subtract", d, "SUCCESS")

SubtractTooMuch(d) ==
  /\ ticks < d
  /\ ticks' = 0
  /\ tTimeCall' = TimeCall("Subtract", d, "INVALID_DATA")

(* A conversion puts another time in its place.                            *)
Convert ==
  /\ ticks' \in 0..(TickRange - 1)
  /\ tTimeCall' = TimeCall("Convert", 0, "SUCCESS")

Next ==
  \/ \E d \in Durations : Add(d) \/ Subtract(d) \/ SubtractTooMuch(d)
  \/ Convert

Spec == Init /\ [][Next]_<<ticks, tTimeCall>>
=============================================================================
