----------------------------- MODULE TimeClient -----------------------------
(***************************************************************************)
(* A module that keeps a timestamp: it converts counts and doubles to it,  *)
(* and adds durations to it and subtracts them from it, in place.          *)
(***************************************************************************)
EXTENDS JunoTime

CONSTANTS Durations, Counts, Doubles

ASSUME ClientAssumption ==
  /\ Durations \subseteq Timestamp
  /\ Counts \subseteq 0..CountMax
  /\ Doubles \subseteq Int

VARIABLES
  tRetTime,    \* the timestamp
  tTimeCall,   \* history: the last call, its duration in ticks, its status
  tSource      \* history: the count it was last converted from, or Untracked

timeVars == <<tRetTime, tTimeCall, tSource>>

TimeCall(op, d, status) == [op |-> op, duration |-> d, tStatus |-> status]
Untracked == [iCount |-> 0, iPerSec |-> 0]
Tracked(n, iPerSec) == [iCount |-> n, iPerSec |-> iPerSec]

TimeInit ==
  /\ tRetTime = Zero
  /\ tTimeCall = TimeCall("Convert", 0, "SUCCESS")
  /\ tSource = Untracked

CallAddTime(d) ==
  /\ tRetTime' = AddTime(tRetTime, d)
  /\ tTimeCall' = TimeCall("Add", Ticks(d), "SUCCESS")
  /\ tSource' = Untracked

CallSubtractTime(d) ==
  /\ tRetTime' = SubtractTime(tRetTime, d).tOk
  /\ tTimeCall' = TimeCall("Subtract", Ticks(d), SubtractTime(tRetTime, d).tStatus)
  /\ tSource' = Untracked

ConvertCount(n) ==
  /\ \/ tRetTime' = NanosToTimestamp(n) /\ tSource' = Tracked(n, NanosPerSec)
     \/ tRetTime' = MicrosToTimestamp(n) /\ tSource' = Tracked(n, MicrosPerSec)
     \/ tRetTime' = MillisToTimestamp(n) /\ tSource' = Tracked(n, MillisPerSec)
  /\ tTimeCall' = TimeCall("Convert", 0, "SUCCESS")

(* A double that is refused is not used.                                   *)
ConvertDouble(d) ==
  /\ DoubleToTimestamp(d).tStatus = "SUCCESS"
  /\ tRetTime' = DoubleToTimestamp(d).tOk
  /\ tSource' = Untracked
  /\ tTimeCall' = TimeCall("Convert", 0, "SUCCESS")

TimeNext ==
  \/ \E d \in Durations : CallAddTime(d) \/ CallSubtractTime(d)
  \/ \E n \in Counts : ConvertCount(n)
  \/ \E d \in Doubles : ConvertDouble(d)

TimeClientSpec == TimeInit /\ [][TimeNext]_timeVars

-----------------------------------------------------------------------------
(* Whatever sequence of calls, a timestamp stays within its fields and     *)
(* never holds a whole second of subseconds: carry, borrow and rounding    *)
(* normalize it even when the durations are not normalized.                *)
StampCanonical == tRetTime \in Timestamp /\ Canonical(tRetTime)

Abstract == INSTANCE TimeSpec WITH
  ticks <- Ticks(tRetTime), Durations <- { Ticks(d) : d \in Durations }

(* Seconds and subseconds are one number: carry and borrow are exact, the  *)
(* test for a negative difference compares times, and sums wrap only where *)
(* the seconds field does.                                                 *)
ImplementsTime == Abstract!Spec

(* What a count of any unit becomes on the way to a timestamp and back.    *)
CountSurvives ==
  tSource # Untracked =>
    LET n == tSource.iCount % ((giSECS_MAX + 1) * tSource.iPerSec)
    IN  ToCount(tRetTime, tSource.iPerSec) = [tOk |-> n, tStatus |-> "SUCCESS"]

(* The nearest count, half up, of a whole timestamp.                       *)
Nearest(iPerSec) == (2 * Ticks(tRetTime) * iPerSec + giSUBSECS_MAX) \div (2 * giSUBSECS_MAX)

(* Rounding the fraction alone rounds the time, and a conversion is        *)
(* refused exactly when its result does not fit (time_api.h:36-37, 48-49). *)
RoundsHalfUp ==
  \A c \in {<<TimestampToNanos(tRetTime), NanosPerSec>>,
            <<TimestampToMicros(tRetTime), MicrosPerSec>>,
            <<TimestampToMillis(tRetTime), MillisPerSec>>} :
    LET n == Nearest(c[2])
    IN  c[1] = IF n <= CountMax THEN [tOk |-> n, tStatus |-> "SUCCESS"]
                                ELSE [tOk |-> 0, tStatus |-> "INVALID_DATA"]

(* What a time becomes on the way to a double and back.                    *)
DoubleSurvives ==
  LET d == TimestampToDouble(tRetTime)
      r == DoubleToTimestamp(d)
      off == Ticks(r.tOk) - Ticks(tRetTime)
  IN  IF d <= giSECS_MAX * DoubleGrid
        THEN /\ r.tStatus = "SUCCESS"
             /\ Canonical(r.tOk)
             /\ 2 * DoubleGrid * off <= giSUBSECS_MAX + 2 * DoubleGrid
             /\ -(2 * DoubleGrid * off) <= giSUBSECS_MAX + 2 * DoubleGrid
        ELSE r.tStatus = "INVALID_DATA" /\ tRetTime.iSeconds = giSECS_MAX

(* A count of any unit survives the way to a timestamp and back, up to the *)
(* range of the seconds field.  Through a double and back a time moves by  *)
(* less than a tick and half a double, and only times past giSECS_MAX      *)
(* seconds are refused.                                                    *)
RoundTrips == CountSurvives /\ DoubleSurvives
=============================================================================
