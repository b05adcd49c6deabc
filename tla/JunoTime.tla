------------------------------ MODULE JunoTime ------------------------------
(***************************************************************************)
(* The timestamp arithmetic of juno_time.c.  The widths of the C types are *)
(* parameters: a timestamp has giSUBSECS_MAX ticks to the second (all ones *)
(* of JUNO_TIME_SUBSECONDS_T, not a power of two), seconds wrap at         *)
(* giSECS_MAX + 1, counts of nanos, micros and millis end at CountMax.     *)
(* A double is a number of 1 / DoubleGrid seconds.                         *)
(***************************************************************************)
EXTENDS Integers

CONSTANTS
  giSUBSECS_MAX, giSECS_MAX,
  CountMax,                                     \* ~(JUNO_TIME_NANOS_T)0
  NanosPerSec, MicrosPerSec, MillisPerSec,
  DoubleGrid

Units == {NanosPerSec, MicrosPerSec, MillisPerSec}

(* A count is coarser than the ticks, and the 64-bit products of the       *)
(* conversions do not overflow: 2^32 * 10^9 + 2^31 < 2^64.                 *)
ASSUME WidthAssumption ==
  /\ giSUBSECS_MAX \in Nat /\ giSECS_MAX \in Nat /\ CountMax \in Nat /\ DoubleGrid \in Nat \ {0}
  /\ Units \subseteq Nat \ {0}
  /\ \A iPerSec \in Units :
       /\ iPerSec < giSUBSECS_MAX
       /\ giSUBSECS_MAX * iPerSec + (giSUBSECS_MAX \div 2) <= CountMax

Timestamp == [iSeconds : 0..giSECS_MAX, iSubSeconds : 0..giSUBSECS_MAX]
Stamp(s, sub) == [iSeconds |-> s, iSubSeconds |-> sub]
Zero == Stamp(0, 0)
Wrapped(s) == s % (giSECS_MAX + 1)

(* giSUBSECS_MAX subseconds are a whole second (time_api.h:29-33).         *)
Canonical(t) == t.iSubSeconds < giSUBSECS_MAX
Ticks(t) == t.iSeconds * giSUBSECS_MAX + t.iSubSeconds
TickRange == (giSECS_MAX + 1) * giSUBSECS_MAX

LessThan(l, r) ==
  \/ l.iSeconds < r.iSeconds
  \/ l.iSeconds = r.iSeconds /\ l.iSubSeconds < r.iSubSeconds
GreaterThan(l, r) ==
  \/ l.iSeconds > r.iSeconds
  \/ l.iSeconds = r.iSeconds /\ l.iSubSeconds > r.iSubSeconds
Equals(l, r) == l.iSeconds = r.iSeconds /\ l.iSubSeconds = r.iSubSeconds

-----------------------------------------------------------------------------
(* Mutant: a sum of exactly giSUBSECS_MAX is not carried.                  *)
AddTimeNoCarryAtMax(t, d) ==
  LET iDifference == giSUBSECS_MAX - t.iSubSeconds IN
  IF d.iSubSeconds <= iDifference
    THEN Stamp(Wrapped(t.iSeconds + d.iSeconds), t.iSubSeconds + d.iSubSeconds)
    ELSE Stamp(Wrapped(t.iSeconds + d.iSeconds + 1), d.iSubSeconds - iDifference)

AddTime(t, d) ==
  LET iDifference == giSUBSECS_MAX - t.iSubSeconds IN
  IF d.iSubSeconds < iDifference
    THEN Stamp(Wrapped(t.iSeconds + d.iSeconds), t.iSubSeconds + d.iSubSeconds)
    ELSE Stamp(Wrapped(t.iSeconds + d.iSeconds + 1), d.iSubSeconds - iDifference)

(* Mutant: the borrow is a second of giSUBSECS_MAX + 1 ticks.              *)
SubtractTimeBinary(t, d) ==
  IF LessThan(t, d)
    THEN [tOk |-> Zero, tStatus |-> "INVALID_DATA"]
  ELSE IF t.iSubSeconds < d.iSubSeconds
    THEN [tOk |-> Stamp(t.iSeconds - d.iSeconds - 1,
                        giSUBSECS_MAX + 1 - (d.iSubSeconds - t.iSubSeconds)),
          tStatus |-> "SUCCESS"]
  ELSE [tOk |-> Stamp(t.iSeconds - d.iSeconds, t.iSubSeconds - d.iSubSeconds),
        tStatus |-> "SUCCESS"]

(* A difference below zero is answered with an error and becomes zero.     *)
SubtractTime(t, d) ==
  IF LessThan(t, d)
    THEN [tOk |-> Zero, tStatus |-> "INVALID_DATA"]
  ELSE IF t.iSubSeconds < d.iSubSeconds
    THEN [tOk |-> Stamp(t.iSeconds - d.iSeconds - 1,
                        giSUBSECS_MAX - (d.iSubSeconds - t.iSubSeconds)),
          tStatus |-> "SUCCESS"]
  ELSE [tOk |-> Stamp(t.iSeconds - d.iSeconds, t.iSubSeconds - d.iSubSeconds),
        tStatus |-> "SUCCESS"]

-----------------------------------------------------------------------------
(* Mutant: only the seconds are checked against CountMax.                  *)
ToCountNoSumGuard(t, iPerSec) ==
  LET iFrac == (t.iSubSeconds * iPerSec + (giSUBSECS_MAX \div 2)) \div giSUBSECS_MAX
  IN  IF t.iSeconds > CountMax \div iPerSec
        THEN [tOk |-> 0, tStatus |-> "INVALID_DATA"]
        ELSE [tOk |-> (t.iSeconds * iPerSec + iFrac) % (CountMax + 1), tStatus |-> "SUCCESS"]

(* What the three conversions to a count share: the fraction is rounded,   *)
(* then the seconds and the sum are checked against CountMax.              *)
ToCount(t, iPerSec) ==
  LET iFrac == (t.iSubSeconds * iPerSec + (giSUBSECS_MAX \div 2)) \div giSUBSECS_MAX
      iBase == t.iSeconds * iPerSec
  IN  IF t.iSeconds > CountMax \div iPerSec \/ iFrac > CountMax - iBase
        THEN [tOk |-> 0, tStatus |-> "INVALID_DATA"]
        ELSE [tOk |-> iBase + iFrac, tStatus |-> "SUCCESS"]

TimestampToNanos(t)  == ToCount(t, NanosPerSec)
TimestampToMicros(t) == ToCount(t, MicrosPerSec)
TimestampToMillis(t) == ToCount(t, MillisPerSec)

(* Mutant: the remainder is taken of the seconds the field could hold.     *)
FromCountWrapsFirst(n, iPerSec) ==
  Stamp(Wrapped(n \div iPerSec),
        ((n - Wrapped(n \div iPerSec) * iPerSec) * giSUBSECS_MAX + (iPerSec \div 2)) \div iPerSec)

(* What the three conversions from a count share.  A count of more seconds *)
(* than the field holds loses them without an error.                       *)
FromCount(n, iPerSec) ==
  Stamp(Wrapped(n \div iPerSec),
        ((n % iPerSec) * giSUBSECS_MAX + (iPerSec \div 2)) \div iPerSec)

NanosToTimestamp(n)  == FromCount(n, NanosPerSec)
MicrosToTimestamp(n) == FromCount(n, MicrosPerSec)
MillisToTimestamp(n) == FromCount(n, MillisPerSec)

(* The nearest double.                                                     *)
TimestampToDouble(t) ==
  t.iSeconds * DoubleGrid
    + (2 * t.iSubSeconds * DoubleGrid + giSUBSECS_MAX) \div (2 * giSUBSECS_MAX)

(* Mutant: the last tick of a second becomes the first one.                *)
DoubleToTimestampNoCarry(d) ==
  LET iSeconds == d \div DoubleGrid
      fraction == d % DoubleGrid
  IN  IF d < 0 \/ d > giSECS_MAX * DoubleGrid
        THEN [tOk |-> Zero, tStatus |-> "INVALID_DATA"]
      ELSE IF fraction * giSUBSECS_MAX < (giSUBSECS_MAX - 1) * DoubleGrid
        THEN [tOk |-> Stamp(iSeconds, (fraction * giSUBSECS_MAX) \div DoubleGrid),
              tStatus |-> "SUCCESS"]
      ELSE [tOk |-> Stamp(iSeconds, 0), tStatus |-> "SUCCESS"]

(* Negative and too large doubles are refused; the fraction is truncated,  *)
(* except that the last tick of a second becomes the next second.          *)
DoubleToTimestamp(d) ==
  LET iSeconds == d \div DoubleGrid
      fraction == d % DoubleGrid
  IN  IF d < 0 \/ d > giSECS_MAX * DoubleGrid
        THEN [tOk |-> Zero, tStatus |-> "INVALID_DATA"]
      ELSE IF fraction * giSUBSECS_MAX < (giSUBSECS_MAX - 1) * DoubleGrid
        THEN [tOk |-> Stamp(iSeconds, (fraction * giSUBSECS_MAX) \div DoubleGrid),
              tStatus |-> "SUCCESS"]
      ELSE [tOk |-> Stamp(iSeconds + 1, 0), tStatus |-> "SUCCESS"]
=============================================================================
