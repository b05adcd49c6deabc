--------------------------- MODULE AlgorithmProofs ---------------------------
(***************************************************************************)
(* Proofs about the pure algorithms in use.  Time: for every set of        *)
(* durations, counts and doubles it is used with, a timestamp stays        *)
(* canonical and is one number of ticks.  Quaternions and vectors: the     *)
(* Hamilton product is associative and norms multiply, so however long a   *)
(* sequence of rotations is, the reciprocals undo it.                      *)
(***************************************************************************)
EXTENDS TimeClient, VecClient, JunoTimeProofs

(* Whatever calls are made of it, a timestamp stays within its fields and  *)
(* holds no whole second of subseconds.                                    *)
THEOREM StampStaysCanonical == TimeClientSpec => []StampCanonical
<1>1. TimeInit => StampCanonical
  BY Widths DEF TimeInit, StampCanonical, Zero, Stamp, Timestamp, Canonical
<1>2. StampCanonical /\ [TimeNext]_timeVars => StampCanonical'
  <2> SUFFICES ASSUME StampCanonical, [TimeNext]_timeVars PROVE StampCanonical'
    OBVIOUS
  <2>0. tRetTime \in Timestamp /\ Canonical(tRetTime)
    BY DEF StampCanonical
  <2>1. ASSUME NEW d \in Durations, CallAddTime(d) PROVE StampCanonical'
    BY <2>0, <2>1, AddExact, ClientAssumption DEF CallAddTime, StampCanonical, Canonical
  <2>2. ASSUME NEW d \in Durations, CallSubtractTime(d) PROVE StampCanonical'
    BY <2>0, <2>2, SubtractExact, ClientAssumption DEF CallSubtractTime, StampCanonical, Canonical
  <2>3. ASSUME NEW n \in Counts, ConvertCount(n) PROVE StampCanonical'
    <3>1. n \in Nat
      BY ClientAssumption, WidthAssumption
    <3>2. \E p \in Units : tRetTime' = FromCount(n, p)
      BY <2>3 DEF ConvertCount, NanosToTimestamp, MicrosToTimestamp, MillisToTimestamp, Units
    <3>3. QED BY <3>1, <3>2, CountCanonical DEF StampCanonical, Canonical
  <2>4. ASSUME NEW d \in Doubles, ConvertDouble(d) PROVE StampCanonical'
    BY <2>4, DoubleCanonical, ClientAssumption DEF ConvertDouble, StampCanonical, Canonical
  <2>5. CASE UNCHANGED timeVars
    BY <2>0, <2>5 DEF timeVars, StampCanonical, Canonical
  <2>6. QED BY <2>1, <2>2, <2>3, <2>4, <2>5 DEF TimeNext
<1>3. QED BY <1>1, <1>2, PTL DEF TimeClientSpec

(* Seconds and subseconds are one number: carry and borrow are exact, the  *)
(* test for a negative difference compares times, and sums wrap only where *)
(* the seconds field does.                                                 *)
THEOREM TimeRefinement == TimeClientSpec => ImplementsTime
<1>1. TimeInit => Abstract!Init
  BY Widths DEF TimeInit, Abstract!Init, Zero, Stamp, Ticks, TimeCall, Abstract!TimeCall
<1>2. StampCanonical /\ StampCanonical' /\ [TimeNext]_timeVars
        => [Abstract!Next]_<<Ticks(tRetTime), tTimeCall>>
  <2> SUFFICES ASSUME StampCanonical, StampCanonical', [TimeNext]_timeVars
               PROVE  [Abstract!Next]_<<Ticks(tRetTime), tTimeCall>>
    OBVIOUS
  <2>0. tRetTime \in Timestamp /\ Canonical(tRetTime) /\ tRetTime' \in Timestamp /\ Canonical(tRetTime')
    BY DEF StampCanonical, Canonical
  <2>1. ASSUME NEW d \in Durations, CallAddTime(d) PROVE Abstract!Next
    <3>1. Abstract!Add(Ticks(d))
      BY <2>0, <2>1, AddExact, ClientAssumption
         DEF CallAddTime, Abstract!Add, TimeCall, Abstract!TimeCall, Ticks
    <3>2. QED BY <3>1 DEF Abstract!Next
  <2>2. ASSUME NEW d \in Durations, CallSubtractTime(d) PROVE Abstract!Next
    <3>1. d \in Timestamp /\ Ticks(d) \in Nat /\ Ticks(tRetTime) \in Nat
      BY <2>0, TicksBound, ClientAssumption
    <3>2. Abstract!Subtract(Ticks(d)) \/ Abstract!SubtractTooMuch(Ticks(d))
      <4>1. CASE Ticks(d) <= Ticks(tRetTime)
        BY <2>0, <2>2, <3>1, <4>1, SubtractExact
           DEF CallSubtractTime, Abstract!Subtract, TimeCall, Abstract!TimeCall, Ticks
      <4>2. CASE Ticks(tRetTime) < Ticks(d)
        BY <2>0, <2>2, <3>1, <4>2, SubtractExact
           DEF CallSubtractTime, Abstract!SubtractTooMuch, TimeCall, Abstract!TimeCall, Ticks
      <4>3. QED BY <3>1, <4>1, <4>2
    <3>3. QED BY <3>2 DEF Abstract!Next
  <2>3. CASE (\E n \in Counts : ConvertCount(n)) \/ (\E d \in Doubles : ConvertDouble(d))
    <3>1. Ticks(tRetTime') \in 0..(TickRange - 1)
      BY <2>0, TicksBound, Widths
    <3>2. tTimeCall' = TimeCall("Convert", 0, "SUCCESS")
      BY <2>3 DEF ConvertCount, ConvertDouble
    <3>3. Abstract!Convert
      BY <3>1, <3>2 DEF Abstract!Convert, TimeCall, Abstract!TimeCall, Ticks
    <3>4. QED BY <3>3 DEF Abstract!Next
  <2>4. CASE UNCHANGED timeVars
    BY <2>4 DEF timeVars, Ticks
  <2>5. QED BY <2>1, <2>2, <2>3, <2>4 DEF TimeNext
<1>3. QED BY <1>1, <1>2, StampStaysCanonical, PTL DEF TimeClientSpec, ImplementsTime, Abstract!Spec

(* A conversion to nanos, micros or millis is the whole time rounded half  *)
(* up, and is refused exactly when that does not fit.                      *)
THEOREM ConversionsRound == TimeClientSpec => []RoundsHalfUp
<1>1. StampCanonical => RoundsHalfUp
  <2> SUFFICES ASSUME StampCanonical, NEW p \in Units
               PROVE  ToCount(tRetTime, p) =
                        IF Nearest(p) <= CountMax THEN [tOk |-> Nearest(p), tStatus |-> "SUCCESS"]
                        ELSE [tOk |-> 0, tStatus |-> "INVALID_DATA"]
    BY DEF RoundsHalfUp, TimestampToNanos, TimestampToMicros, TimestampToMillis, Units
  <2>1. QED BY RoundedCount DEF StampCanonical, Nearest
<1>2. QED BY <1>1, StampStaysCanonical, PTL

(* A timestamp that remembers a count is what the count was converted to.  *)
SourceInv ==
  tSource # Untracked =>
    \E n \in Counts, p \in Units : tSource = Tracked(n, p) /\ tRetTime = FromCount(n, p)

(* A count of any unit comes back from a timestamp, and a time comes back  *)
(* from a double but for less than a tick and half a double.               *)
THEOREM ConversionsComeBack == TimeClientSpec => []RoundTrips
<1>1. TimeInit => SourceInv
  BY DEF TimeInit, SourceInv
<1>2. SourceInv /\ [TimeNext]_timeVars => SourceInv'
  <2> SUFFICES ASSUME SourceInv, [TimeNext]_timeVars PROVE SourceInv'
    OBVIOUS
  <2>1. ASSUME NEW n \in Counts, ConvertCount(n) PROVE SourceInv'
    <3>1. \E p \in Units : tSource' = Tracked(n, p) /\ tRetTime' = FromCount(n, p)
      BY <2>1 DEF ConvertCount, NanosToTimestamp, MicrosToTimestamp, MillisToTimestamp, Units
    <3>2. QED BY <3>1 DEF SourceInv
  <2>2. CASE tSource' = Untracked
    BY <2>2 DEF SourceInv, Untracked
  <2>3. CASE UNCHANGED timeVars
    BY <2>3 DEF SourceInv, timeVars, Untracked
  <2>4. QED BY <2>1, <2>2, <2>3 DEF TimeNext, CallAddTime, CallSubtractTime, ConvertDouble
<1>3. StampCanonical /\ SourceInv => RoundTrips
  <2> SUFFICES ASSUME StampCanonical, SourceInv PROVE CountSurvives /\ DoubleSurvives
    BY DEF RoundTrips
  <2>1. CountSurvives
    <3> SUFFICES ASSUME tSource # Untracked
                 PROVE  ToCount(tRetTime, tSource.iPerSec) =
                          [tOk |-> tSource.iCount % ((giSECS_MAX + 1) * tSource.iPerSec),
                           tStatus |-> "SUCCESS"]
      BY DEF CountSurvives
    <3>1. PICK n \in Counts, p \in Units : tSource = Tracked(n, p) /\ tRetTime = FromCount(n, p)
      BY DEF SourceInv
    <3>2. tSource.iCount = n /\ tSource.iPerSec = p
      BY <3>1 DEF Tracked
    <3>3. n \in 0..CountMax
      BY ClientAssumption
    <3>4. QED BY <3>1, <3>2, <3>3, CountComesBack
  <2>2. DoubleSurvives
    BY DoubleComesBack DEF DoubleSurvives, StampCanonical
  <2>3. QED BY <2>1, <2>2
<1>4. QED BY <1>1, <1>2, <1>3, StampStaysCanonical, PTL DEF TimeClientSpec

-----------------------------------------------------------------------------
LEMMA Components ==
  ASSUME NEW q \in RQuat_F64
  PROVE  q[1] \in Int /\ q[2] \in Int /\ q[3] \in Int /\ q[4] \in Int
BY DEF RQuat_F64

LEMMA HamProdType ==
  ASSUME NEW p \in RQuat_F64, NEW q \in RQuat_F64
  PROVE  RQuat_HamProd(p, q) \in RQuat_F64
BY DEF RQuat_F64, RQuat_HamProd

LEMMA SameComponents ==
  ASSUME NEW q \in RQuat_F64, NEW r \in RQuat_F64,
         q[1] = r[1], q[2] = r[2], q[3] = r[3], q[4] = r[4]
  PROVE  q = r
BY DEF RQuat_F64

(* The Hamilton product is associative, component by component.            *)
LEMMA Associative ==
  ASSUME NEW p \in RQuat_F64, NEW q \in RQuat_F64, NEW r \in RQuat_F64
  PROVE  RQuat_HamProd(RQuat_HamProd(p, q), r) = RQuat_HamProd(p, RQuat_HamProd(q, r))
<1> DEFINE a == RQuat_HamProd(p, q)
           b == RQuat_HamProd(q, r)
           l == RQuat_HamProd(a, r)
           m == RQuat_HamProd(p, b)
<1>1. /\ p[1] \in Int /\ p[2] \in Int /\ p[3] \in Int /\ p[4] \in Int
      /\ q[1] \in Int /\ q[2] \in Int /\ q[3] \in Int /\ q[4] \in Int
      /\ r[1] \in Int /\ r[2] \in Int /\ r[3] \in Int /\ r[4] \in Int
  BY Components
<1>2. /\ a[1] = p[1] * q[1] - p[2] * q[2] - p[3] * q[3] - p[4] * q[4]
      /\ a[2] = p[1] * q[2] + p[2] * q[1] + p[3] * q[4] - p[4] * q[3]
      /\ a[3] = p[1] * q[3] - p[2] * q[4] + p[3] * q[1] + p[4] * q[2]
      /\ a[4] = p[1] * q[4] + p[2] * q[3] - p[3] * q[2] + p[4] * q[1]
  BY DEF RQuat_HamProd
<1>3. /\ b[1] = q[1] * r[1] - q[2] * r[2] - q[3] * r[3] - q[4] * r[4]
      /\ b[2] = q[1] * r[2] + q[2] * r[1] + q[3] * r[4] - q[4] * r[3]
      /\ b[3] = q[1] * r[3] - q[2] * r[4] + q[3] * r[1] + q[4] * r[2]
      /\ b[4] = q[1] * r[4] + q[2] * r[3] - q[3] * r[2] + q[4] * r[1]
  BY DEF RQuat_HamProd
<1>4. l[1] = m[1]
  <2>1. l[1] = a[1] * r[1] - a[2] * r[2] - a[3] * r[3] - a[4] * r[4]
    BY DEF RQuat_HamProd
  <2>2. m[1] = p[1] * b[1] - p[2] * b[2] - p[3] * b[3] - p[4] * b[4]
    BY DEF RQuat_HamProd
  <2> HIDE DEF a, b, l, m
  <2>3. QED BY <1>1, <1>2, <1>3, <2>1, <2>2
<1>5. l[2] = m[2]
  <2>1. l[2] = a[1] * r[2] + a[2] * r[1] + a[3] * r[4] - a[4] * r[3]
    BY DEF RQuat_HamProd
  <2>2. m[2] = p[1] * b[2] + p[2] * b[1] + p[3] * b[4] - p[4] * b[3]
    BY DEF RQuat_HamProd
  <2> HIDE DEF a, b, l, m
  <2>3. QED BY <1>1, <1>2, <1>3, <2>1, <2>2
<1>6. l[3] = m[3]
  <2>1. l[3] = a[1] * r[3] - a[2] * r[4] + a[3] * r[1] + a[4] * r[2]
    BY DEF RQuat_HamProd
  <2>2. m[3] = p[1] * b[3] - p[2] * b[4] + p[3] * b[1] + p[4] * b[2]
    BY DEF RQuat_HamProd
  <2> HIDE DEF a, b, l, m
  <2>3. QED BY <1>1, <1>2, <1>3, <2>1, <2>2
<1>7. l[4] = m[4]
  <2>1. l[4] = a[1] * r[4] + a[2] * r[3] - a[3] * r[2] + a[4] * r[1]
    BY DEF RQuat_HamProd
  <2>2. m[4] = p[1] * b[4] + p[2] * b[3] - p[3] * b[2] + p[4] * b[1]
    BY DEF RQuat_HamProd
  <2> HIDE DEF a, b, l, m
  <2>3. QED BY <1>1, <1>2, <1>3, <2>1, <2>2
<1>8. l \in RQuat_F64 /\ m \in RQuat_F64
  BY HamProdType
<1>9. QED
  <2> HIDE DEF l, m
  <2>1. l = m
    BY <1>4, <1>5, <1>6, <1>7, <1>8, SameComponents
  <2>2. QED BY <2>1 DEF l, m

(* Euler's identity of four squares.                                       *)
LEMMA FourSquares ==
  ASSUME NEW a \in Int, NEW b \in Int, NEW c \in Int, NEW d \in Int,
         NEW e \in Int, NEW f \in Int, NEW g \in Int, NEW h \in Int
  PROVE  (a * e - b * f - c * g - d * h) * (a * e - b * f - c * g - d * h)
           + (a * f + b * e + c * h - d * g) * (a * f + b * e + c * h - d * g)
           + (a * g - b * h + c * e + d * f) * (a * g - b * h + c * e + d * f)
           + (a * h + b * g - c * f + d * e) * (a * h + b * g - c * f + d * e)
         = (a * a + b * b + c * c + d * d) * (e * e + f * f + g * g + h * h)
OBVIOUS

(* The squared norm of a product is the product of the squared norms.      *)
LEMMA NormsMultiply ==
  ASSUME NEW p \in RQuat_F64, NEW q \in RQuat_F64
  PROVE  RQuat_L2Norm2(RQuat_HamProd(p, q)) = RQuat_L2Norm2(p) * RQuat_L2Norm2(q)
<1> DEFINE a == RQuat_HamProd(p, q)
<1>1. /\ p[1] \in Int /\ p[2] \in Int /\ p[3] \in Int /\ p[4] \in Int
      /\ q[1] \in Int /\ q[2] \in Int /\ q[3] \in Int /\ q[4] \in Int
  BY Components
<1>2. /\ a[1] = p[1] * q[1] - p[2] * q[2] - p[3] * q[3] - p[4] * q[4]
      /\ a[2] = p[1] * q[2] + p[2] * q[1] + p[3] * q[4] - p[4] * q[3]
      /\ a[3] = p[1] * q[3] - p[2] * q[4] + p[3] * q[1] + p[4] * q[2]
      /\ a[4] = p[1] * q[4] + p[2] * q[3] - p[3] * q[2] + p[4] * q[1]
  BY DEF RQuat_HamProd
<1> HIDE DEF a
<1>3. RQuat_L2Norm2(a) = a[1] * a[1] + a[2] * a[2] + a[3] * a[3] + a[4] * a[4]
  BY DEF RQuat_L2Norm2
<1>4. RQuat_L2Norm2(p) * RQuat_L2Norm2(q) =
        (p[1] * p[1] + p[2] * p[2] + p[3] * p[3] + p[4] * p[4])
          * (q[1] * q[1] + q[2] * q[2] + q[3] * q[3] + q[4] * q[4])
  BY DEF RQuat_L2Norm2
<1>5. RQuat_L2Norm2(a) = RQuat_L2Norm2(p) * RQuat_L2Norm2(q)
  BY <1>1, <1>2, <1>3, <1>4, FourSquares
<1>6. QED BY <1>5 DEF a

LEMMA ConjType ==
  ASSUME NEW q \in RQuat_F64
  PROVE  RQuat_Conj(q) \in RQuat_F64 /\ RQuat_L2Norm2(q) \in Int
BY Components DEF RQuat_Conj, RQuat_L2Norm2, RQuat_F64

(* A quaternion times its conjugate times r is r, as often as its squared  *)
(* norm says.                                                              *)
LEMMA ConjCancels ==
  ASSUME NEW q \in RQuat_F64, NEW r \in RQuat_F64
  PROVE  RQuat_HamProd(q, RQuat_HamProd(RQuat_Conj(q), r)) = RQuat_Mult(r, RQuat_L2Norm2(q))
<1> DEFINE c == RQuat_Conj(q)
           u == RQuat_HamProd(q, c)
           n == RQuat_L2Norm2(q)
<1>1. /\ q[1] \in Int /\ q[2] \in Int /\ q[3] \in Int /\ q[4] \in Int
      /\ r[1] \in Int /\ r[2] \in Int /\ r[3] \in Int /\ r[4] \in Int
  BY Components
<1>2. n \in Int /\ c \in RQuat_F64
  BY ConjType
<1>3. c[1] = q[1] /\ c[2] = -q[2] /\ c[3] = -q[3] /\ c[4] = -q[4]
  BY DEF RQuat_Conj
<1>4. u[1] = n /\ u[2] = 0 /\ u[3] = 0 /\ u[4] = 0
  <2>1. /\ u[1] = q[1] * c[1] - q[2] * c[2] - q[3] * c[3] - q[4] * c[4]
        /\ u[2] = q[1] * c[2] + q[2] * c[1] + q[3] * c[4] - q[4] * c[3]
        /\ u[3] = q[1] * c[3] - q[2] * c[4] + q[3] * c[1] + q[4] * c[2]
        /\ u[4] = q[1] * c[4] + q[2] * c[3] - q[3] * c[2] + q[4] * c[1]
    BY DEF RQuat_HamProd
  <2>2. n = q[1] * q[1] + q[2] * q[2] + q[3] * q[3] + q[4] * q[4]
    BY DEF RQuat_L2Norm2
  <2>3. \A x, y \in Int : x * (-y) = -(x * y) /\ x * y = y * x
    OBVIOUS
  <2> HIDE DEF c, u, n
  <2>4. /\ q[2] * c[2] = -(q[2] * q[2]) /\ q[3] * c[3] = -(q[3] * q[3]) /\ q[4] * c[4] = -(q[4] * q[4])
        /\ q[1] * c[2] = -(q[1] * q[2]) /\ q[1] * c[3] = -(q[1] * q[3]) /\ q[1] * c[4] = -(q[1] * q[4])
        /\ q[3] * c[4] = -(q[3] * q[4]) /\ q[4] * c[3] = -(q[3] * q[4])
        /\ q[2] * c[4] = -(q[2] * q[4]) /\ q[4] * c[2] = -(q[2] * q[4])
        /\ q[2] * c[3] = -(q[2] * q[3]) /\ q[3] * c[2] = -(q[2] * q[3])
        /\ q[2] * c[1] = q[1] * q[2] /\ q[3] * c[1] = q[1] * q[3] /\ q[4] * c[1] = q[1] * q[4]
        /\ q[1] * c[1] = q[1] * q[1]
    BY <1>1, <1>3, <2>3
  <2>5. u[1] = n
    <3>1. /\ q[1] * q[1] \in Int /\ q[2] * q[2] \in Int
          /\ q[3] * q[3] \in Int /\ q[4] * q[4] \in Int
      BY <1>1
    <3>2. \A w, x, y, z \in Int : w - (-x) - (-y) - (-z) = w + x + y + z
      OBVIOUS
    <3>3. u[1] = q[1] * q[1] - (-(q[2] * q[2])) - (-(q[3] * q[3])) - (-(q[4] * q[4]))
      BY <2>1, <2>4
    <3>4. QED BY <2>2, <3>1, <3>2, <3>3
  <2>6. u[2] = 0 /\ u[3] = 0 /\ u[4] = 0
    BY <1>1, <2>1, <2>4
  <2>7. QED BY <2>5, <2>6
<1> HIDE DEF u, n
<1>5. RQuat_HamProd(u, r) = RQuat_Mult(r, n)
  <2>1. RQuat_HamProd(u, r) = << n * r[1], n * r[2], n * r[3], n * r[4] >>
    BY <1>1, <1>2, <1>4 DEF RQuat_HamProd
  <2>2. /\ n * r[1] = r[1] * n /\ n * r[2] = r[2] * n
        /\ n * r[3] = r[3] * n /\ n * r[4] = r[4] * n
    BY <1>1, <1>2
  <2>3. QED BY <2>1, <2>2 DEF RQuat_Mult
<1>6. QED BY <1>2, <1>5, Associative DEF u, n

(* Factors that are numbers come out of a product.                         *)
LEMMA MultComesOut ==
  ASSUME NEW p \in RQuat_F64, NEW q \in RQuat_F64, NEW d \in Int
  PROVE  RQuat_HamProd(p, RQuat_Mult(q, d)) = RQuat_Mult(RQuat_HamProd(p, q), d)
<1> DEFINE a == RQuat_HamProd(p, q)
           m == RQuat_Mult(q, d)
           l == RQuat_HamProd(p, m)
           r == RQuat_Mult(a, d)
<1>1. /\ p[1] \in Int /\ p[2] \in Int /\ p[3] \in Int /\ p[4] \in Int
      /\ q[1] \in Int /\ q[2] \in Int /\ q[3] \in Int /\ q[4] \in Int
  BY Components
<1>2. m[1] = q[1] * d /\ m[2] = q[2] * d /\ m[3] = q[3] * d /\ m[4] = q[4] * d
  BY DEF RQuat_Mult
<1>3. r[1] = a[1] * d /\ r[2] = a[2] * d /\ r[3] = a[3] * d /\ r[4] = a[4] * d
  BY DEF RQuat_Mult
<1>4. /\ a[1] = p[1] * q[1] - p[2] * q[2] - p[3] * q[3] - p[4] * q[4]
      /\ a[2] = p[1] * q[2] + p[2] * q[1] + p[3] * q[4] - p[4] * q[3]
      /\ a[3] = p[1] * q[3] - p[2] * q[4] + p[3] * q[1] + p[4] * q[2]
      /\ a[4] = p[1] * q[4] + p[2] * q[3] - p[3] * q[2] + p[4] * q[1]
  BY DEF RQuat_HamProd
<1>5. /\ l[1] = p[1] * m[1] - p[2] * m[2] - p[3] * m[3] - p[4] * m[4]
      /\ l[2] = p[1] * m[2] + p[2] * m[1] + p[3] * m[4] - p[4] * m[3]
      /\ l[3] = p[1] * m[3] - p[2] * m[4] + p[3] * m[1] + p[4] * m[2]
      /\ l[4] = p[1] * m[4] + p[2] * m[3] - p[3] * m[2] + p[4] * m[1]
  BY DEF RQuat_HamProd
<1>6. l = << l[1], l[2], l[3], l[4] >> /\ r = << r[1], r[2], r[3], r[4] >>
  BY DEF RQuat_HamProd, RQuat_Mult
<1> HIDE DEF a, m, l, r
<1>7. l[1] = r[1]
  BY <1>1, <1>2, <1>3, <1>4, <1>5
<1>8. l[2] = r[2]
  BY <1>1, <1>2, <1>3, <1>4, <1>5
<1>9. l[3] = r[3]
  BY <1>1, <1>2, <1>3, <1>4, <1>5
<1>10. l[4] = r[4]
  BY <1>1, <1>2, <1>3, <1>4, <1>5
<1>11. l = r
  BY <1>6, <1>7, <1>8, <1>9, <1>10
<1>12. QED BY <1>11 DEF a, m, l, r

-----------------------------------------------------------------------------
(* What makes RotationsUndone inductive: attitude and undoing product are  *)
(* quaternions.                                                            *)
VecInv ==
  /\ tAttitude \in RQuat_F64
  /\ tUndo.num \in RQuat_F64
  /\ tUndo.den \in Int
  /\ RotationsUndone

(* Every sequence of rotations is undone by the product of the reciprocals *)
(* and has the product of the norms: product, conjugate, reciprocal and    *)
(* norm agree on handedness and sign, for every quaternion.                *)
THEOREM RotationsAlwaysUndone == VecSpec => []RotationsUndone
<1>1. VecInit => VecInv
  <2> SUFFICES ASSUME VecInit PROVE VecInv
    OBVIOUS
  <2>1. One \in RQuat_F64
    BY DEF One, RQuat_F64
  <2>2. RQuat_HamProd(One, One) = RQuat_Mult(One, 1) /\ RQuat_L2Norm2(One) = 1
    BY DEF One, RQuat_HamProd, RQuat_Mult, RQuat_L2Norm2
  <2>3. QED BY <2>1, <2>2 DEF VecInit, VecInv, RotationsUndone
<1>2. VecInv /\ [VecNext]_vecVars => VecInv'
  <2> SUFFICES ASSUME VecInv, [VecNext]_vecVars PROVE VecInv'
    OBVIOUS
  <2>1. ASSUME NEW q \in Rotations, Rotate(q) PROVE VecInv'
    <3> DEFINE c == RQuat_Conj(q)
               n == RQuat_L2Norm2(q)
               A == tAttitude
               U == tUndo.num
               d == tUndo.den
    <3>1. /\ q \in RQuat_F64 /\ c \in RQuat_F64 /\ n \in Int
          /\ A \in RQuat_F64 /\ U \in RQuat_F64 /\ d \in Int
      BY ConjType, VecClientAssumption DEF VecInv
    <3>2. /\ tAttitude' = RQuat_HamProd(A, q)
          /\ tUndo'.num = RQuat_HamProd(c, U)
          /\ tUndo'.den = n * d
      BY <2>1 DEF Rotate, RQuat_Recip
    <3>3. /\ RQuat_HamProd(A, U) = RQuat_Mult(One, d)
          /\ RQuat_L2Norm2(A) = d
      BY DEF VecInv, RotationsUndone
    <3> HIDE DEF c, n, A, U, d
    <3>4. RQuat_HamProd(RQuat_HamProd(A, q), RQuat_HamProd(c, U))
            = RQuat_HamProd(A, RQuat_HamProd(q, RQuat_HamProd(c, U)))
      BY <3>1, HamProdType, Associative
    <3>5. RQuat_HamProd(q, RQuat_HamProd(c, U)) = RQuat_Mult(U, n)
      BY <3>1, ConjCancels DEF c, n
    <3>6. RQuat_HamProd(A, RQuat_Mult(U, n)) = RQuat_Mult(RQuat_HamProd(A, U), n)
      BY <3>1, MultComesOut
    <3>7. RQuat_Mult(RQuat_Mult(One, d), n) = RQuat_Mult(One, n * d)
      <4>1. /\ (1 * d) * n = 1 * (n * d)
            /\ (0 * d) * n = 0 * (n * d)
        BY <3>1
      <4>2. QED BY <4>1 DEF RQuat_Mult, One
    <3>8. RQuat_HamProd(tAttitude', tUndo'.num) = RQuat_Mult(One, tUndo'.den)
      BY <3>2, <3>3, <3>4, <3>5, <3>6, <3>7
    <3>9. RQuat_L2Norm2(tAttitude') = tUndo'.den
      <4>1. RQuat_L2Norm2(tAttitude') = d * n
        BY <3>1, <3>2, <3>3, NormsMultiply DEF n
      <4>2. QED BY <3>1, <3>2, <4>1
    <3>10. /\ tAttitude' \in RQuat_F64 /\ tUndo'.num \in RQuat_F64 /\ tUndo'.den \in Int
      BY <3>1, <3>2, HamProdType
    <3>11. QED BY <3>8, <3>9, <3>10 DEF VecInv, RotationsUndone, One
  <2>2. CASE UNCHANGED <<tAttitude, tUndo>>
    BY <2>2 DEF VecInv, RotationsUndone, One
  <2>3. QED BY <2>1, <2>2 DEF VecNext, vecVars, Multiply, Load
<1>3. VecInv => RotationsUndone
  BY DEF VecInv
<1>4. QED BY <1>1, <1>2, <1>3, PTL DEF VecSpec

-----------------------------------------------------------------------------
(* Lagrange's identity, and the cross product at right angles to its       *)
(* factors, for the components of two vectors.                             *)
LEMMA Lagrange ==
  ASSUME NEW a \in Int, NEW b \in Int, NEW c \in Int,
         NEW x \in Int, NEW y \in Int, NEW z \in Int
  PROVE  LET p == b * z - c * y
             q == c * x - a * z
             r == a * y - b * x
             d == a * x + b * y + c * z
         IN  /\ p * p + q * q + r * r + d * d = (a * a + b * b + c * c) * (x * x + y * y + z * z)
             /\ a * p + b * q + c * r = 0
             /\ x * p + y * q + z * r = 0
OBVIOUS

(* The product of two int32 numbers whose squares are a third of the width *)
(* is within a third of it too.                                            *)
LEMMA SmallProduct ==
  ASSUME NEW m \in Nat, NEW x \in Int, NEW y \in Int, 3 * x * x <= m, 3 * y * y <= m
  PROVE  /\ x * y \in Int
         /\ 3 * (x * y) <= m /\ -(3 * (x * y)) <= m
<1>1. (x - y) * (x - y) >= 0 /\ (x + y) * (x + y) >= 0
  <2>1. \A e \in Int : e * e >= 0
    OBVIOUS
  <2>2. x - y \in Int /\ x + y \in Int
    OBVIOUS
  <2>3. QED BY <2>1, <2>2
<1>2. /\ (x - y) * (x - y) = x * x - 2 * (x * y) + y * y
      /\ (x + y) * (x + y) = x * x + 2 * (x * y) + y * y
      /\ 3 * x * x = 3 * (x * x) /\ 3 * y * y = 3 * (y * y)
  OBVIOUS
<1>3. x * x \in Int /\ y * y \in Int /\ x * y \in Int
  OBVIOUS
<1>4. QED BY <1>1, <1>2, <1>3

(* Results of int32 arithmetic that stay within the width are exact.       *)
LEMMA Int32Exact ==
  ASSUME NEW a \in Int, NEW b \in Int
  PROVE  /\ Plus(a, b) # Undefined <=> a + b \in I32
         /\ Minus(a, b) # Undefined <=> a - b \in I32
         /\ Times(a, b) # Undefined <=> a * b \in I32
         /\ a + b \in I32 => Plus(a, b) = a + b
         /\ a - b \in I32 => Minus(a, b) = a - b
         /\ a * b \in I32 => Times(a, b) = a * b
<1>1. Undefined \notin Int
  BY VecAssumption
<1>2. a + b \in Int /\ a - b \in Int /\ a * b \in Int
  OBVIOUS
<1>3. QED BY <1>1, <1>2 DEF Plus, Minus, Times

LEMMA Int32Components ==
  ASSUME NEW v \in Vec3_I32
  PROVE  /\ v[1] \in I32 /\ v[2] \in I32 /\ v[3] \in I32
         /\ v[1] \in Int /\ v[2] \in Int /\ v[3] \in Int
BY VecAssumption DEF Vec3_I32, I32

(* The Hamilton product of two pure quaternions is made of the dot and the *)
(* cross product of their vectors, and the plane is a part of space.       *)
LEMMA SpaceAlgebra ==
  ASSUME NEW q \in RQuat_F64, NEW v \in Vec3_I32
  PROVE  LET u == Im(q)
             r == Vec3_F64_Ops(u, v, 0)
             p == Vec2_F64_Ops(u, v, 0)
             s == Vec3_F64_Ops(<<u[1], u[2], 0>>, <<v[1], v[2], 0>>, 0)
         IN  /\ RQuat_HamProd(Pure(u), Pure(v)) = << -r.Dot, r.Cross[1], r.Cross[2], r.Cross[3] >>
             /\ Vec3_F64_Ops(u, r.Cross, 0).Dot = 0 /\ Vec3_F64_Ops(v, r.Cross, 0).Dot = 0
             /\ Vec3_F64_Ops(r.Cross, v, 0).L2Norm2 + r.Dot * r.Dot
                  = r.L2Norm2 * Vec3_F64_Ops(v, v, 0).L2Norm2
             /\ p.Cross = s.Cross[3] /\ p.Dot = s.Dot /\ p.L2Norm2 = s.L2Norm2
<1> DEFINE u == Im(q)
           r == Vec3_F64_Ops(u, v, 0)
           p == Vec2_F64_Ops(u, v, 0)
           s == Vec3_F64_Ops(<<u[1], u[2], 0>>, <<v[1], v[2], 0>>, 0)
<1>1. PICK a \in Int, b \in Int, c \in Int : u[1] = a /\ u[2] = b /\ u[3] = c
  BY Components DEF Im
<1>2. PICK x \in Int, y \in Int, z \in Int : v[1] = x /\ v[2] = y /\ v[3] = z
  BY Int32Components
<1>3. /\ r.Cross[1] = b * z - c * y
      /\ r.Cross[2] = c * x - a * z
      /\ r.Cross[3] = a * y - b * x
      /\ r.Dot = a * x + b * y + c * z
      /\ r.L2Norm2 = a * a + b * b + c * c
  BY <1>1, <1>2 DEF Vec3_F64_Ops
<1>4. Vec3_F64_Ops(v, v, 0).L2Norm2 = x * x + y * y + z * z
  BY <1>2 DEF Vec3_F64_Ops
<1>5. RQuat_HamProd(Pure(u), Pure(v)) = << -r.Dot, r.Cross[1], r.Cross[2], r.Cross[3] >>
  <2> DEFINE h == RQuat_HamProd(Pure(u), Pure(v))
  <2>1. /\ Pure(u)[1] = 0 /\ Pure(u)[2] = a /\ Pure(u)[3] = b /\ Pure(u)[4] = c
        /\ Pure(v)[1] = 0 /\ Pure(v)[2] = x /\ Pure(v)[3] = y /\ Pure(v)[4] = z
    BY <1>1, <1>2 DEF Pure
  <2>2. h = << 0 * 0 - a * x - b * y - c * z, 0 * x + a * 0 + b * z - c * y,
               0 * y - a * z + b * 0 + c * x, 0 * z + a * y - b * x + c * 0 >>
    BY <2>1 DEF RQuat_HamProd
  <2> HIDE DEF r, h
  <2>3. /\ 0 * 0 - a * x - b * y - c * z = -r.Dot
        /\ 0 * x + a * 0 + b * z - c * y = r.Cross[1]
        /\ 0 * y - a * z + b * 0 + c * x = r.Cross[2]
        /\ 0 * z + a * y - b * x + c * 0 = r.Cross[3]
    BY <1>3
  <2>4. QED BY <2>2, <2>3 DEF h
<1>6. /\ Vec3_F64_Ops(u, r.Cross, 0).Dot = a * r.Cross[1] + b * r.Cross[2] + c * r.Cross[3]
      /\ Vec3_F64_Ops(v, r.Cross, 0).Dot = x * r.Cross[1] + y * r.Cross[2] + z * r.Cross[3]
      /\ Vec3_F64_Ops(r.Cross, v, 0).L2Norm2
           = r.Cross[1] * r.Cross[1] + r.Cross[2] * r.Cross[2] + r.Cross[3] * r.Cross[3]
  <2> HIDE DEF r, u
  <2>1. QED BY <1>1, <1>2 DEF Vec3_F64_Ops
<1>7. p.Cross = s.Cross[3] /\ p.Dot = s.Dot /\ p.L2Norm2 = s.L2Norm2
  <2> HIDE DEF u
  <2>1. p.Cross = a * y - b * x /\ p.Dot = a * x + b * y /\ p.L2Norm2 = a * a + b * b
    BY <1>1, <1>2 DEF Vec2_F64_Ops
  <2>2. /\ s.Cross[3] = a * y - b * x
        /\ s.Dot = a * x + b * y + 0 * 0
        /\ s.L2Norm2 = a * a + b * b + 0 * 0
    BY <1>1, <1>2 DEF Vec3_F64_Ops
  <2>3. QED BY <2>1, <2>2
<1> HIDE DEF r, u, p, s
<1>8. /\ Vec3_F64_Ops(u, r.Cross, 0).Dot = 0 /\ Vec3_F64_Ops(v, r.Cross, 0).Dot = 0
      /\ Vec3_F64_Ops(r.Cross, v, 0).L2Norm2 + r.Dot * r.Dot
           = r.L2Norm2 * Vec3_F64_Ops(v, v, 0).L2Norm2
  BY <1>3, <1>4, <1>6, Lagrange
<1>9. QED BY <1>5, <1>7, <1>8 DEF r, u, p, s

(* While no partial result leaves the width, int32 arithmetic is exact;    *)
(* none does when the squares of the components add up within it.          *)
LEMMA Int32Algebra ==
  ASSUME NEW w \in Vec3_I32, NEW v \in Vec3_I32
  PROVE  LET i == Vec3_I32_Ops(w, v, 0)
         IN  /\ i.Dot # Undefined => i.Dot = Vec3_F64_Ops(w, v, 0).Dot
             /\ (\A c, e \in 1..3 : 3 * w[c] * w[c] <= I32_MAX /\ 3 * v[e] * v[e] <= I32_MAX)
                  => i.Dot # Undefined /\ i.Cross \in Vec3_I32 /\ i.L2Norm2 # Undefined
<1> DEFINE i == Vec3_I32_Ops(w, v, 0)
<1>1. PICK a \in Int, b \in Int, c \in Int : w[1] = a /\ w[2] = b /\ w[3] = c
  BY Int32Components
<1>2. PICK x \in Int, y \in Int, z \in Int : v[1] = x /\ v[2] = y /\ v[3] = z
  BY Int32Components
<1>3. /\ i.Dot = Plus(Plus(Times(a, x), Times(b, y)), Times(c, z))
      /\ i.Cross = << Minus(Times(b, z), Times(c, y)), Minus(Times(c, x), Times(a, z)),
                      Minus(Times(a, y), Times(b, x)) >>
      /\ i.L2Norm2 = Plus(Plus(Times(a, a), Times(b, b)), Times(c, c))
  BY <1>1, <1>2 DEF Vec3_I32_Ops
<1>4. Vec3_F64_Ops(w, v, 0).Dot = a * x + b * y + c * z
  BY <1>1, <1>2 DEF Vec3_F64_Ops
<1>5. Undefined \notin Int /\ I32_MAX \in Nat /\ I32 = (-I32_MAX - 1)..I32_MAX
  BY VecAssumption DEF I32
<1> HIDE DEF i
<1>6. ASSUME i.Dot # Undefined PROVE i.Dot = a * x + b * y + c * z
  <2>1. Times(a, x) # Undefined /\ Times(b, y) # Undefined /\ Times(c, z) # Undefined
        /\ Plus(Times(a, x), Times(b, y)) # Undefined
    BY <1>3, <1>6 DEF Plus
  <2>2. PICK d \in Int, e \in Int, f \in Int :
          /\ d = a * x /\ e = b * y /\ f = c * z
          /\ Times(a, x) = d /\ Times(b, y) = e /\ Times(c, z) = f
    BY <2>1, Int32Exact
  <2>3. Plus(d, e) = d + e /\ Plus(d + e, f) # Undefined
    BY <1>3, <1>6, <2>1, <2>2, Int32Exact
  <2>4. Plus(d + e, f) = d + e + f
    <3>1. d + e \in Int
      OBVIOUS
    <3>2. QED BY <2>3, <3>1, Int32Exact
  <2>5. QED BY <1>3, <2>2, <2>3, <2>4
<1>7. ASSUME \A k, e \in 1..3 : 3 * w[k] * w[k] <= I32_MAX /\ 3 * v[e] * v[e] <= I32_MAX
      PROVE  i.Dot # Undefined /\ i.Cross \in Vec3_I32 /\ i.L2Norm2 # Undefined
  <2> DEFINE Small(d) == d \in Int /\ 3 * d <= I32_MAX /\ -(3 * d) <= I32_MAX
  <2>1. /\ 3 * a * a <= I32_MAX /\ 3 * b * b <= I32_MAX /\ 3 * c * c <= I32_MAX
        /\ 3 * x * x <= I32_MAX /\ 3 * y * y <= I32_MAX /\ 3 * z * z <= I32_MAX
    BY <1>1, <1>2, <1>7
  <2>2. /\ Small(a * x) /\ Small(b * y) /\ Small(c * z)
        /\ Small(b * z) /\ Small(c * y) /\ Small(c * x)
        /\ Small(a * z) /\ Small(a * y) /\ Small(b * x)
        /\ Small(a * a) /\ Small(b * b) /\ Small(c * c)
    BY <1>5, <2>1, SmallProduct
  <2>3. ASSUME NEW d, NEW e, Small(d), Small(e)
        PROVE  d \in I32 /\ d + e \in I32 /\ d - e \in I32
    BY <1>5, <2>3
  <2>4. ASSUME NEW d, NEW e, NEW f, Small(d), Small(e), Small(f)
        PROVE  d + e \in Int /\ d + e + f \in I32
    BY <1>5, <2>4
  <2>5. ASSUME NEW d, NEW e, NEW f, Small(d), Small(e), Small(f)
        PROVE  Plus(Plus(d, e), f) # Undefined
    <3>1. d \in Int /\ e \in Int /\ f \in Int
      BY <2>5
    <3>2. Plus(d, e) = d + e
      BY <2>3, <2>5, <3>1, Int32Exact
    <3>3. Plus(d + e, f) # Undefined
      BY <2>4, <2>5, <3>1, Int32Exact
    <3>4. QED BY <3>2, <3>3
  <2>6. ASSUME NEW d, NEW e, Small(d), Small(e) PROVE Minus(d, e) \in I32
    <3>1. d \in Int /\ e \in Int
      BY <2>6
    <3>2. QED BY <2>3, <2>6, <3>1, Int32Exact
  <2>7. \A d, e \in Int : Small(d * e) => Times(d, e) = d * e
    <3> SUFFICES ASSUME NEW d \in Int, NEW e \in Int, Small(d * e) PROVE Times(d, e) = d * e
      OBVIOUS
    <3>1. d * e \in I32
      BY <2>3
    <3>2. QED BY <3>1, Int32Exact
  <2> HIDE DEF Small
  <2>8. i.Dot # Undefined /\ i.L2Norm2 # Undefined
    BY <1>3, <2>2, <2>5, <2>7
  <2>9. PICK r, s, t :
          /\ r = Minus(Times(b, z), Times(c, y)) /\ s = Minus(Times(c, x), Times(a, z))
          /\ t = Minus(Times(a, y), Times(b, x))
          /\ r \in I32 /\ s \in I32 /\ t \in I32
    BY <2>2, <2>6, <2>7
  <2>10. <<r, s, t>> \in Vec3_I32
    BY <2>9 DEF Vec3_I32
  <2>11. QED BY <1>3, <2>8, <2>9, <2>10
<1>8. QED BY <1>4, <1>6, <1>7 DEF i

(* The quaternions are quaternions and the int32 vector is one or          *)
(* undefined, and so dot product, cross product and norms of every vector  *)
(* fit the Hamilton product, and int32 arithmetic is exact while defined.  *)
THEOREM VectorsAndQuaternionsAgree == VecSpec => []OneAlgebra
<1> DEFINE VecTypes == tAttitude \in RQuat_F64 /\ (tVec # Undefined => tVec \in Vec3_I32)
<1>1. VecInit => VecTypes
  BY VecClientAssumption DEF VecInit, One, RQuat_F64
<1>2. VecTypes /\ [VecNext]_vecVars => VecTypes'
  <2> SUFFICES ASSUME VecTypes, [VecNext]_vecVars PROVE VecTypes'
    OBVIOUS
  <2>1. ASSUME NEW q \in Rotations, Rotate(q) PROVE VecTypes'
    BY <2>1, HamProdType, VecClientAssumption DEF Rotate
  <2>2. ASSUME NEW v \in Vectors, Multiply(v) PROVE VecTypes'
    BY <2>2 DEF Multiply
  <2>3. ASSUME NEW v \in Vectors, Load(v) PROVE VecTypes'
    BY <2>3, VecClientAssumption DEF Load
  <2>4. QED BY <2>1, <2>2, <2>3 DEF VecNext, vecVars
<1>3. VecTypes => OneAlgebra
  BY SpaceAlgebra, Int32Algebra, VecClientAssumption DEF OneAlgebra
<1>4. QED BY <1>1, <1>2, <1>3, PTL DEF VecSpec
=============================================================================
