--------------------------- MODULE JunoTimeProofs ---------------------------
(***************************************************************************)
(* Facts about the timestamp arithmetic, for every width of the fields and *)
(* every number of ticks to the second: AddTime and SubtractTime add and   *)
(* subtract ticks, and no conversion makes a whole second of subseconds.   *)
(***************************************************************************)
EXTENDS JunoTime, TLAPS

(* What the assumption says of the fields: a second has two ticks or more. *)
LEMMA Widths ==
  /\ giSUBSECS_MAX \in Nat /\ giSUBSECS_MAX >= 2
  /\ giSECS_MAX \in Nat
  /\ DoubleGrid \in Nat \ {0}
  /\ \A p \in Units : p \in Nat \ {0} /\ p < giSUBSECS_MAX
  /\ TickRange \in Nat \ {0} /\ TickRange = (giSECS_MAX + 1) * giSUBSECS_MAX
<1>1. NanosPerSec \in Nat \ {0} /\ NanosPerSec < giSUBSECS_MAX
  BY WidthAssumption DEF Units
<1>2. giSUBSECS_MAX \in Nat /\ giSUBSECS_MAX >= 2 /\ giSECS_MAX + 1 \in Nat \ {0}
  BY <1>1, WidthAssumption
<1>3. \A a, b \in Nat \ {0} : a * b \in Nat \ {0}
  OBVIOUS
<1>4. QED BY <1>2, <1>3, WidthAssumption DEF TickRange, Units

LEMMA DivisionAlgorithm ==
  ASSUME NEW n \in Nat, NEW p \in Nat \ {0}
  PROVE  /\ n \div p \in Nat
         /\ n % p \in 0..(p - 1)
         /\ n = p * (n \div p) + (n % p)
OBVIOUS

LEMMA DivBelow ==
  ASSUME NEW n \in Nat, NEW p \in Nat \ {0}, NEW q \in Nat, n < p * q
  PROVE  n \div p \in Nat /\ n \div p < q
<1>1. n \div p \in Nat /\ p * (n \div p) <= n
  BY DivisionAlgorithm
<1>2. SUFFICES ASSUME n \div p >= q PROVE FALSE
  BY <1>1
<1>3. p * (n \div p) >= p * q
  BY <1>1, <1>2
<1>4. QED BY <1>1, <1>3

LEMMA ModOnce ==
  ASSUME NEW n \in Nat, NEW p \in Nat \ {0}, n < 2 * p
  PROVE  n % p = IF n < p THEN n ELSE n - p
OBVIOUS

(* Ticks of a whole number of seconds, and of one second more.             *)
LEMMA Distribute ==
  ASSUME NEW a \in Int, NEW b \in Int, NEW s \in Nat
  PROVE  /\ (a + b) * s = a * s + b * s
         /\ (a - b) * s = a * s - b * s
         /\ a <= b => a * s <= b * s
         /\ a * s \in Int
OBVIOUS

LEMMA TicksBound ==
  ASSUME NEW t \in Timestamp
  PROVE  /\ Ticks(t) \in Nat
         /\ Ticks(t) <= TickRange
         /\ Canonical(t) => Ticks(t) < TickRange
<1>1. t.iSeconds \in 0..giSECS_MAX /\ t.iSubSeconds \in 0..giSUBSECS_MAX
  BY DEF Timestamp
<1>2. t.iSeconds * giSUBSECS_MAX <= giSECS_MAX * giSUBSECS_MAX
  BY <1>1, Widths, Distribute
<1>3. TickRange = giSECS_MAX * giSUBSECS_MAX + giSUBSECS_MAX
  BY Widths, Distribute
<1>4. t.iSeconds * giSUBSECS_MAX \in Nat /\ giSECS_MAX * giSUBSECS_MAX \in Nat
  BY <1>1, Widths
<1>5. QED BY <1>1, <1>2, <1>3, <1>4, Widths DEF Ticks, Canonical

-----------------------------------------------------------------------------
(* AddTime adds ticks, modulo the range of the seconds field.              *)
LEMMA AddExact ==
  ASSUME NEW t \in Timestamp, Canonical(t), NEW d \in Timestamp
  PROVE  /\ AddTime(t, d) \in Timestamp
         /\ Canonical(AddTime(t, d))
         /\ Ticks(AddTime(t, d)) = (Ticks(t) + Ticks(d)) % TickRange
<1> DEFINE sub  == t.iSubSeconds + d.iSubSeconds
           over == sub >= giSUBSECS_MAX
           sum  == t.iSeconds + d.iSeconds + (IF over THEN 1 ELSE 0)
           rest == IF over THEN sub - giSUBSECS_MAX ELSE sub
           full == giSECS_MAX + 1
           secs == IF sum < full THEN sum ELSE sum - full
<1>1. /\ t.iSeconds \in 0..giSECS_MAX /\ t.iSubSeconds \in 0..(giSUBSECS_MAX - 1)
      /\ d.iSeconds \in 0..giSECS_MAX /\ d.iSubSeconds \in 0..giSUBSECS_MAX
  BY Widths DEF Timestamp, Canonical
<1>2. /\ sum \in Nat /\ sum < 2 * full /\ full \in Nat \ {0}
      /\ rest \in 0..(giSUBSECS_MAX - 1)
      /\ secs \in 0..giSECS_MAX
  BY <1>1, Widths
<1>3. Wrapped(sum) = secs
  <2>1. sum % full = secs
    <3> HIDE DEF sum, full
    <3>1. QED BY <1>2, ModOnce
  <2>2. QED BY <2>1 DEF Wrapped
<1>4. AddTime(t, d) = Stamp(Wrapped(sum), rest)
  BY <1>1, Widths DEF AddTime
<1>5. AddTime(t, d) \in Timestamp /\ Canonical(AddTime(t, d))
  BY <1>2, <1>3, <1>4, Widths DEF Stamp, Timestamp, Canonical
<1>6. Ticks(AddTime(t, d)) = secs * giSUBSECS_MAX + rest
  BY <1>3, <1>4 DEF Ticks, Stamp
<1>7. Ticks(t) + Ticks(d) = sum * giSUBSECS_MAX + rest
  <2>1. (t.iSeconds + d.iSeconds) * giSUBSECS_MAX
          = t.iSeconds * giSUBSECS_MAX + d.iSeconds * giSUBSECS_MAX
    BY <1>1, Widths, Distribute
  <2>2. (t.iSeconds + d.iSeconds + 1) * giSUBSECS_MAX
          = (t.iSeconds + d.iSeconds) * giSUBSECS_MAX + giSUBSECS_MAX
    BY <1>1, Widths, Distribute
  <2>3. t.iSeconds * giSUBSECS_MAX \in Int /\ d.iSeconds * giSUBSECS_MAX \in Int
    BY <1>1, Widths
  <2>4. QED BY <1>1, <2>1, <2>2, <2>3, Widths DEF Ticks
<1>8. secs * giSUBSECS_MAX + rest = (sum * giSUBSECS_MAX + rest) % TickRange
  <2> DEFINE n == sum * giSUBSECS_MAX + rest
  <2>1. TickRange \in Nat \ {0} /\ TickRange = full * giSUBSECS_MAX
    BY Widths
  <2>2. n \in Nat
    BY <1>2, Widths
  <2>3. sum < full => n < TickRange
    <3>1. SUFFICES ASSUME sum + 1 <= full PROVE n < TickRange
      BY <1>2
    <3> HIDE DEF sum, full, rest
    <3>2. (sum + 1) * giSUBSECS_MAX <= full * giSUBSECS_MAX
      BY <1>2, <3>1, Widths, Distribute
    <3>3. (sum + 1) * giSUBSECS_MAX = sum * giSUBSECS_MAX + giSUBSECS_MAX
      BY <1>2, Widths, Distribute
    <3>4. QED BY <1>2, <2>1, <3>2, <3>3, Widths
  <2>4. sum >= full => n - TickRange = (sum - full) * giSUBSECS_MAX + rest
    <3> HIDE DEF sum, full, rest
    <3>1. (sum - full) * giSUBSECS_MAX = sum * giSUBSECS_MAX - full * giSUBSECS_MAX
      BY <1>2, Widths, Distribute
    <3>2. QED BY <1>2, <2>1, <3>1, Widths
  <2>5. sum >= full => n >= TickRange
    <3> HIDE DEF sum, full, rest
    <3>1. sum >= full => full * giSUBSECS_MAX <= sum * giSUBSECS_MAX
      BY <1>2, Widths, Distribute
    <3>2. QED BY <1>2, <2>1, <3>1, Widths
  <2>6. n < 2 * TickRange
    <3>1. n = Ticks(t) + Ticks(d)
      BY <1>7
    <3>2. Ticks(t) \in Nat /\ Ticks(t) < TickRange /\ Ticks(d) \in Nat /\ Ticks(d) <= TickRange
      BY TicksBound
    <3> HIDE DEF n
    <3>3. QED BY <2>1, <3>1, <3>2
  <2>7. n % TickRange = IF n < TickRange THEN n ELSE n - TickRange
    <3> HIDE DEF n
    <3>1. QED BY <2>1, <2>2, <2>6, ModOnce
  <2>8. QED
    <3> HIDE DEF sum, full, rest
    <3>1. CASE sum < full
      BY <2>3, <2>7, <3>1
    <3>2. CASE ~(sum < full)
      <4>1. sum >= full
        BY <1>2, <3>2
      <4>2. n \in Nat /\ n >= TickRange /\ TickRange \in Nat
        BY <2>1, <2>2, <2>5, <4>1
      <4>3. n % TickRange = n - TickRange
        BY <2>7, <4>2
      <4>4. QED BY <2>4, <3>2, <4>1, <4>3
    <3>3. QED BY <3>1, <3>2
<1>9. QED BY <1>5, <1>6, <1>7, <1>8

(* SubtractTime subtracts ticks, and refuses exactly what is below zero.   *)
LEMMA SubtractExact ==
  ASSUME NEW t \in Timestamp, Canonical(t), NEW d \in Timestamp
  PROVE  /\ SubtractTime(t, d).tOk \in Timestamp
         /\ Canonical(SubtractTime(t, d).tOk)
         /\ Ticks(d) <= Ticks(t) =>
              /\ Ticks(SubtractTime(t, d).tOk) = Ticks(t) - Ticks(d)
              /\ SubtractTime(t, d).tStatus = "SUCCESS"
         /\ Ticks(t) < Ticks(d) =>
              /\ Ticks(SubtractTime(t, d).tOk) = 0
              /\ SubtractTime(t, d).tStatus = "INVALID_DATA"
<1> DEFINE ts == t.iSeconds
           ds == d.iSeconds
<1>1. /\ ts \in 0..giSECS_MAX /\ t.iSubSeconds \in 0..(giSUBSECS_MAX - 1)
      /\ ds \in 0..giSECS_MAX /\ d.iSubSeconds \in 0..giSUBSECS_MAX
  BY Widths DEF Timestamp, Canonical
<1>2. /\ ts * giSUBSECS_MAX \in Int /\ ds * giSUBSECS_MAX \in Int
      /\ (ts - ds) * giSUBSECS_MAX = ts * giSUBSECS_MAX - ds * giSUBSECS_MAX
      /\ (ts - ds - 1) * giSUBSECS_MAX = ts * giSUBSECS_MAX - ds * giSUBSECS_MAX - giSUBSECS_MAX
      /\ ts + 1 <= ds => ts * giSUBSECS_MAX + giSUBSECS_MAX <= ds * giSUBSECS_MAX
      /\ ds + 1 <= ts => ds * giSUBSECS_MAX + giSUBSECS_MAX <= ts * giSUBSECS_MAX
  <2> HIDE DEF ts, ds
  <2>1. ts \in Int /\ ds \in Int /\ ts - ds \in Int /\ ts + 1 \in Int /\ ds + 1 \in Int
    BY <1>1
  <2>2. (ts - ds) * giSUBSECS_MAX = ts * giSUBSECS_MAX - ds * giSUBSECS_MAX
    BY <2>1, Widths, Distribute
  <2>3. (ts - ds - 1) * giSUBSECS_MAX = (ts - ds) * giSUBSECS_MAX - giSUBSECS_MAX
    BY <2>1, Widths, Distribute
  <2>4. /\ (ts + 1) * giSUBSECS_MAX = ts * giSUBSECS_MAX + giSUBSECS_MAX
        /\ (ds + 1) * giSUBSECS_MAX = ds * giSUBSECS_MAX + giSUBSECS_MAX
    BY <2>1, Widths, Distribute
  <2>5. /\ ts + 1 <= ds => (ts + 1) * giSUBSECS_MAX <= ds * giSUBSECS_MAX
        /\ ds + 1 <= ts => (ds + 1) * giSUBSECS_MAX <= ts * giSUBSECS_MAX
    BY <2>1, Widths, Distribute
  <2>6. ts * giSUBSECS_MAX \in Int /\ ds * giSUBSECS_MAX \in Int
    BY <2>1, Widths
  <2>7. QED BY <2>2, <2>3, <2>4, <2>5, <2>6
<1>3. Ticks(t) = ts * giSUBSECS_MAX + t.iSubSeconds /\ Ticks(d) = ds * giSUBSECS_MAX + d.iSubSeconds
  BY DEF Ticks
<1>4. CASE LessThan(t, d)
  <2>1. Ticks(t) < Ticks(d)
    <3>1. CASE ts < ds
      <4>1. ts + 1 <= ds
        BY <1>1, <3>1
      <4>2. QED BY <1>1, <1>2, <1>3, <4>1, Widths
    <3>2. CASE ts = ds /\ t.iSubSeconds < d.iSubSeconds
      BY <1>1, <1>2, <1>3, <3>2
    <3>3. QED BY <1>4, <3>1, <3>2 DEF LessThan
  <2>2. SubtractTime(t, d) = [tOk |-> Zero, tStatus |-> "INVALID_DATA"]
    BY <1>4 DEF SubtractTime
  <2>3. Zero \in Timestamp /\ Canonical(Zero) /\ Ticks(Zero) = 0
    BY Widths DEF Zero, Stamp, Timestamp, Canonical, Ticks
  <2>4. Ticks(t) \in Nat /\ Ticks(d) \in Nat
    BY TicksBound
  <2>5. QED BY <2>1, <2>2, <2>3, <2>4
<1>5. CASE ~LessThan(t, d)
  <2> DEFINE borrow == t.iSubSeconds < d.iSubSeconds
             secs   == ts - ds - (IF borrow THEN 1 ELSE 0)
             rest   == t.iSubSeconds - d.iSubSeconds + (IF borrow THEN giSUBSECS_MAX ELSE 0)
  <2>1. ds <= ts /\ (borrow => ds + 1 <= ts)
    BY <1>1, <1>5 DEF LessThan
  <2>2. secs \in 0..giSECS_MAX /\ rest \in 0..(giSUBSECS_MAX - 1)
    BY <1>1, <2>1, Widths
  <2>3. SubtractTime(t, d) = [tOk |-> Stamp(secs, rest), tStatus |-> "SUCCESS"]
    BY <1>1, <1>5, Widths DEF SubtractTime
  <2>4. Stamp(secs, rest) \in Timestamp /\ Canonical(Stamp(secs, rest))
    BY <2>2, Widths DEF Stamp, Timestamp, Canonical
  <2>5. Ticks(Stamp(secs, rest)) = Ticks(t) - Ticks(d)
    <3>1. CASE borrow
      <4>1. secs = ts - ds - 1 /\ rest = t.iSubSeconds - d.iSubSeconds + giSUBSECS_MAX
        BY <1>1, <3>1, Widths
      <4>2. Ticks(Stamp(secs, rest)) = (ts - ds - 1) * giSUBSECS_MAX + rest
        BY <4>1 DEF Stamp, Ticks
      <4>3. QED BY <1>1, <1>2, <1>3, <4>1, <4>2, Widths
    <3>2. CASE ~borrow
      <4>1. secs = ts - ds /\ rest = t.iSubSeconds - d.iSubSeconds
        BY <1>1, <3>2, Widths
      <4>2. Ticks(Stamp(secs, rest)) = (ts - ds) * giSUBSECS_MAX + rest
        BY <4>1 DEF Stamp, Ticks
      <4>3. QED BY <1>1, <1>2, <1>3, <4>1, <4>2, Widths
    <3>3. QED BY <3>1, <3>2
  <2>6. Ticks(Stamp(secs, rest)) \in Nat /\ Ticks(t) \in Nat /\ Ticks(d) \in Nat
    BY <2>4, TicksBound
  <2>7. Ticks(d) <= Ticks(t)
    BY <2>5, <2>6
  <2>8. QED BY <2>3, <2>4, <2>5, <2>6, <2>7
<1>6. QED BY <1>4, <1>5

-----------------------------------------------------------------------------
(* Rounding to the nearest subsecond never makes a whole second: a count   *)
(* is coarser than the ticks.                                              *)
LEMMA CountCanonical ==
  ASSUME NEW n \in Nat, NEW p \in Units
  PROVE  FromCount(n, p) \in Timestamp /\ Canonical(FromCount(n, p))
<1> DEFINE r == n % p
           h == p \div 2
           x == r * giSUBSECS_MAX + h
<1>1. p \in Nat \ {0} /\ p < giSUBSECS_MAX
  BY Widths
<1>2. r \in 0..(p - 1) /\ h \in Nat /\ 2 * h <= p
  BY <1>1, DivisionAlgorithm
<1>3. x \in Nat /\ x < p * giSUBSECS_MAX
  <2>1. (r + 1) * giSUBSECS_MAX = r * giSUBSECS_MAX + giSUBSECS_MAX
    BY <1>1, <1>2, Widths, Distribute
  <2>2. (r + 1) * giSUBSECS_MAX <= p * giSUBSECS_MAX
    BY <1>1, <1>2, Widths, Distribute
  <2>3. r * giSUBSECS_MAX \in Nat /\ p * giSUBSECS_MAX \in Nat /\ h < giSUBSECS_MAX
    BY <1>1, <1>2, Widths
  <2> HIDE DEF r, h
  <2>4. QED BY <1>1, <1>2, <2>1, <2>2, <2>3, Widths
<1>4. x \div p \in Nat /\ x \div p < giSUBSECS_MAX
  <2> HIDE DEF x
  <2>1. QED BY <1>1, <1>3, Widths, DivBelow
<1>5. n \div p \in Nat
  BY <1>1, DivisionAlgorithm
<1>6. Wrapped(n \div p) \in 0..giSECS_MAX
  <2> DEFINE s == n \div p
  <2>1. s \in Nat /\ giSECS_MAX + 1 \in Nat \ {0}
    BY <1>5, Widths
  <2> HIDE DEF s
  <2>2. s % (giSECS_MAX + 1) \in 0..giSECS_MAX
    BY <2>1, Widths, DivisionAlgorithm
  <2>3. QED BY <2>2 DEF Wrapped, s
<1>7. FromCount(n, p) = Stamp(Wrapped(n \div p), x \div p)
  BY DEF FromCount
<1>8. QED BY <1>4, <1>6, <1>7, Widths DEF Stamp, Timestamp, Canonical

(* The carry of the last tick of a second stays within the seconds field.  *)
LEMMA DoubleCanonical ==
  ASSUME NEW d \in Int, DoubleToTimestamp(d).tStatus = "SUCCESS"
  PROVE  /\ DoubleToTimestamp(d).tOk \in Timestamp
         /\ Canonical(DoubleToTimestamp(d).tOk)
<1> DEFINE s == d \div DoubleGrid
           f == d % DoubleGrid
<1>1. d \in Nat /\ d <= giSECS_MAX * DoubleGrid
  BY Widths DEF DoubleToTimestamp
<1>2. s \in Nat /\ f \in 0..(DoubleGrid - 1) /\ d = DoubleGrid * s + f
  BY <1>1, Widths, DivisionAlgorithm
<1>3. s <= giSECS_MAX /\ (f > 0 => s + 1 <= giSECS_MAX)
  <2>1. SUFFICES ASSUME s > giSECS_MAX \/ (f > 0 /\ s >= giSECS_MAX) PROVE FALSE
    BY <1>2, Widths
  <2> HIDE DEF s, f
  <2>2. /\ giSECS_MAX <= s => giSECS_MAX * DoubleGrid <= s * DoubleGrid
        /\ giSECS_MAX + 1 <= s => (giSECS_MAX + 1) * DoubleGrid <= s * DoubleGrid
        /\ (giSECS_MAX + 1) * DoubleGrid = giSECS_MAX * DoubleGrid + DoubleGrid
        /\ s * DoubleGrid = DoubleGrid * s
        /\ giSECS_MAX * DoubleGrid \in Nat /\ s * DoubleGrid \in Nat
    BY <1>2, Widths, Distribute
  <2>3. QED BY <1>1, <1>2, <2>1, <2>2, Widths
<1>4. CASE f * giSUBSECS_MAX < (giSUBSECS_MAX - 1) * DoubleGrid
  <2> DEFINE x == f * giSUBSECS_MAX
  <2>1. DoubleToTimestamp(d).tOk = Stamp(s, x \div DoubleGrid)
    BY <1>1, <1>4 DEF DoubleToTimestamp
  <2>2. x \in Nat /\ x < DoubleGrid * (giSUBSECS_MAX - 1)
    BY <1>2, <1>4, Widths
  <2>3. x \div DoubleGrid \in Nat /\ x \div DoubleGrid < giSUBSECS_MAX - 1
    <3>1. giSUBSECS_MAX - 1 \in Nat /\ DoubleGrid \in Nat \ {0}
      BY Widths
    <3> HIDE DEF x
    <3>2. QED BY <2>2, <3>1, DivBelow
  <2>4. QED BY <1>2, <1>3, <2>1, <2>3, Widths DEF Stamp, Timestamp, Canonical
<1>5. CASE ~(f * giSUBSECS_MAX < (giSUBSECS_MAX - 1) * DoubleGrid)
  <2>1. DoubleToTimestamp(d).tOk = Stamp(s + 1, 0)
    BY <1>1, <1>5 DEF DoubleToTimestamp
  <2>2. f > 0
    <3>1. (giSUBSECS_MAX - 1) * DoubleGrid \in Nat \ {0}
      <4>1. giSUBSECS_MAX - 1 \in Nat \ {0} /\ DoubleGrid \in Nat \ {0}
        BY Widths
      <4>2. \A a, b \in Nat \ {0} : a * b \in Nat \ {0}
        OBVIOUS
      <4>3. QED BY <4>1, <4>2
    <3>2. f = 0 => f * giSUBSECS_MAX = 0
      BY Widths
    <3>3. QED BY <1>2, <1>5, <3>1, <3>2
  <2>3. QED BY <1>2, <1>3, <2>1, <2>2, Widths DEF Stamp, Timestamp, Canonical
<1>6. QED BY <1>4, <1>5

-----------------------------------------------------------------------------
(* A quotient is known by the multiples its dividend lies between.         *)
LEMMA QuotientIs ==
  ASSUME NEW n \in Nat, NEW p \in Nat \ {0}, NEW q \in Nat, p * q <= n, n < p * q + p
  PROVE  n \div p = q /\ n % p = n - p * q
<1>1. n \div p \in Nat /\ n % p \in 0..(p - 1) /\ n = p * (n \div p) + (n % p)
  BY DivisionAlgorithm
<1>2. PICK d \in Nat, r \in 0..(p - 1) : n \div p = d /\ n % p = r /\ n = p * d + r
  BY <1>1
<1>3. d < q => p * d + p <= p * q
  <2>1. SUFFICES ASSUME d < q PROVE p * (d + 1) <= p * q /\ p * (d + 1) = p * d + p
    OBVIOUS
  <2>2. QED BY <2>1
<1>4. q < d => p * q + p <= p * d
  <2>1. SUFFICES ASSUME q < d PROVE p * (q + 1) <= p * d /\ p * (q + 1) = p * q + p
    OBVIOUS
  <2>2. QED BY <2>1
<1>5. p * d \in Nat /\ p * q \in Nat
  OBVIOUS
<1>6. d = q
  BY <1>2, <1>3, <1>4, <1>5
<1>7. QED BY <1>2, <1>5, <1>6

(* Half of a width, rounded down.                                          *)
LEMMA Half ==
  ASSUME NEW n \in Nat
  PROVE  n \div 2 \in Nat /\ 2 * (n \div 2) <= n /\ n <= 2 * (n \div 2) + 1
OBVIOUS

(* Rounding with the truncated half is rounding half up.                   *)
LEMMA HalfUp ==
  ASSUME NEW x \in Nat, NEW m \in Nat \ {0}
  PROVE  /\ (x + (m \div 2)) \div m \in Nat
         /\ (2 * x + m) \div (2 * m) = (x + (m \div 2)) \div m
<1>1. PICK h \in Nat : h = m \div 2 /\ 2 * h <= m /\ m <= 2 * h + 1
  BY Half
<1>2. PICK q \in Nat, r \in 0..(m - 1) : q = (x + h) \div m /\ x + h = m * q + r
  <2>1. x + h \in Nat
    BY <1>1
  <2>2. QED BY <2>1, DivisionAlgorithm
<1>3. m * q \in Nat /\ (2 * m) * q = 2 * (m * q)
  OBVIOUS
<1>4. (2 * m) * q <= 2 * x + m /\ 2 * x + m < (2 * m) * q + 2 * m
  BY <1>1, <1>2, <1>3
<1>5. (2 * x + m) \div (2 * m) = q
  <2>1. 2 * x + m \in Nat /\ 2 * m \in Nat \ {0}
    OBVIOUS
  <2>2. QED BY <1>4, <2>1, QuotientIs
<1>6. QED BY <1>1, <1>2, <1>5

(* The guards of a conversion to a count refuse exactly the sums that are  *)
(* too large, and never let iBase pass CountMax unnoticed.                 *)
LEMMA CountGuards ==
  ASSUME NEW s \in Nat, NEW p \in Nat \ {0}, NEW f \in Nat, NEW c \in Nat
  PROVE  (s > c \div p \/ f > c - s * p) <=> s * p + f > c
<1>1. PICK q \in Nat, r \in 0..(p - 1) : q = c \div p /\ c = p * q + r
  BY DivisionAlgorithm
<1>2. p * q \in Nat /\ s * p \in Nat
  OBVIOUS
<1>3. s > q => s * p >= p * q + p
  <2>1. SUFFICES ASSUME s > q PROVE s * p >= (q + 1) * p /\ (q + 1) * p = p * q + p
    OBVIOUS
  <2>2. QED BY <2>1
<1>4. s > q => s * p > c
  BY <1>1, <1>2, <1>3
<1>5. QED BY <1>1, <1>2, <1>4

(* A conversion to a count rounds the whole time half up.                  *)
LEMMA RoundedCount ==
  ASSUME NEW t \in Timestamp, NEW p \in Units
  PROVE  LET n == (2 * Ticks(t) * p + giSUBSECS_MAX) \div (2 * giSUBSECS_MAX)
         IN  /\ n \in Nat
             /\ ToCount(t, p) = IF n <= CountMax THEN [tOk |-> n, tStatus |-> "SUCCESS"]
                                ELSE [tOk |-> 0, tStatus |-> "INVALID_DATA"]
<1> DEFINE M == giSUBSECS_MAX
           s == t.iSeconds
           u == t.iSubSeconds
           f == (u * p + (M \div 2)) \div M
<1>1. /\ p \in Nat \ {0} /\ M \in Nat \ {0} /\ CountMax \in Nat
      /\ s \in Nat /\ u \in Nat
  BY Widths, WidthAssumption DEF Timestamp
<1>2. u * p \in Nat /\ s * p \in Nat /\ s * M \in Nat
  BY <1>1
<1>3. f \in Nat /\ f = (2 * (u * p) + M) \div (2 * M)
  <2>1. \A x \in Nat : (x + (M \div 2)) \div M \in Nat
                         /\ (2 * x + M) \div (2 * M) = (x + (M \div 2)) \div M
    BY <1>1, HalfUp
  <2>2. QED BY <1>2, <2>1
<1>4. 2 * Ticks(t) * p + M = (2 * M) * (s * p) + (2 * (u * p) + M)
  <2>1. 2 * (s * M + u) * p = 2 * M * (s * p) + 2 * (u * p)
    <3> HIDE DEF M, s, u
    <3>1. QED BY <1>1
  <2>2. Ticks(t) = s * M + u
    BY DEF Ticks
  <2> HIDE DEF M, s, u
  <2>3. QED BY <1>1, <2>1, <2>2
<1>5. (2 * Ticks(t) * p + M) \div (2 * M) = s * p + f
  <2> DEFINE y == 2 * (u * p) + M
             D == 2 * M
             g == s * p
  <2>1. y \in Nat /\ D \in Nat \ {0} /\ g \in Nat
    BY <1>1, <1>2
  <2>2. f = y \div D
    BY <1>3
  <2>3. 2 * Ticks(t) * p + M = D * g + y
    BY <1>4
  <2> HIDE DEF y, D, g, f
  <2>4. PICK r \in 0..(D - 1) : y = D * f + r
    BY <2>1, <2>2, DivisionAlgorithm
  <2>5. D * (g + f) = D * g + D * f /\ D * g \in Nat /\ D * f \in Nat /\ g + f \in Nat
    BY <1>3, <2>1
  <2>6. D * (g + f) <= D * g + y /\ D * g + y < D * (g + f) + D /\ D * g + y \in Nat
    BY <2>1, <2>4, <2>5
  <2>7. (D * g + y) \div D = g + f
    BY <2>1, <2>5, <2>6, QuotientIs
  <2>8. (2 * Ticks(t) * p + M) \div D = g + f
    BY <2>3, <2>7
  <2>9. QED BY <2>8 DEF D, g
<1>6. (s > CountMax \div p \/ f > CountMax - s * p) <=> ~(s * p + f <= CountMax)
  <2> HIDE DEF f, s
  <2>1. (s > CountMax \div p \/ f > CountMax - s * p) <=> s * p + f > CountMax
    BY <1>1, <1>3, CountGuards
  <2>2. QED BY <1>1, <1>2, <1>3, <2>1
<1>7. ToCount(t, p) = IF s > CountMax \div p \/ f > CountMax - s * p
                        THEN [tOk |-> 0, tStatus |-> "INVALID_DATA"]
                        ELSE [tOk |-> s * p + f, tStatus |-> "SUCCESS"]
  BY DEF ToCount
<1>8. s * p + f \in Nat
  BY <1>2, <1>3
<1> HIDE DEF M, s, u, f
<1>9. QED BY <1>5, <1>6, <1>7, <1>8 DEF M

(* A count converted to a timestamp and back is the count, but for the     *)
(* seconds that the field cannot hold.                                     *)
LEMMA CountComesBack ==
  ASSUME NEW n \in 0..CountMax, NEW p \in Units
  PROVE  ToCount(FromCount(n, p), p) =
           [tOk |-> n % ((giSECS_MAX + 1) * p), tStatus |-> "SUCCESS"]
<1> DEFINE M == giSUBSECS_MAX
           S == giSECS_MAX + 1
<1>1. /\ p \in Nat \ {0} /\ M \in Nat \ {0} /\ p < M /\ S \in Nat \ {0}
      /\ CountMax \in Nat /\ n \in Nat /\ n <= CountMax
  BY Widths, WidthAssumption
<1>2. PICK a \in Nat, r \in 0..(p - 1) : a = n \div p /\ r = n % p /\ n = p * a + r
  BY <1>1, DivisionAlgorithm
<1>3. PICK b \in Nat, s \in 0..(S - 1) : s = a % S /\ a = S * b + s
  <2>1. a \in Nat /\ S \in Nat \ {0}
    BY <1>1, <1>2
  <2> HIDE DEF S
  <2>2. a \div S \in Nat /\ a % S \in 0..(S - 1) /\ a = S * (a \div S) + (a % S)
    BY <2>1, DivisionAlgorithm
  <2>3. QED BY <2>2
<1>4. PICK h \in Nat : h = p \div 2 /\ 2 * h <= p /\ p <= 2 * h + 1
  BY <1>1, Half
<1>5. PICK k \in Nat : k = M \div 2 /\ 2 * k <= M /\ M <= 2 * k + 1
  BY <1>1, Half
<1>6. r * M \in Nat
  BY <1>1, <1>2
<1>7. PICK u \in Nat, x \in 0..(p - 1) : u = (r * M + h) \div p /\ r * M + h = p * u + x
  <2> DEFINE y == r * M + h
  <2>1. y \in Nat /\ p \in Nat \ {0}
    BY <1>1, <1>4, <1>6
  <2> HIDE DEF y
  <2>2. y \div p \in Nat /\ y % p \in 0..(p - 1) /\ y = p * (y \div p) + (y % p)
    BY <2>1, DivisionAlgorithm
  <2>3. PICK u \in Nat, x \in 0..(p - 1) : u = y \div p /\ y = p * u + x
    BY <2>2
  <2>4. QED BY <2>3 DEF y
<1>8. FromCount(n, p) = Stamp(s, u)
  BY <1>2, <1>3, <1>4, <1>7 DEF FromCount, Wrapped
<1> HIDE DEF M, S
<1>9. (u * p + k) \div M = r
  <2>1. u * p = p * u /\ r * M = M * r /\ p * u \in Nat /\ M * r \in Nat
    BY <1>1, <1>2
  <2>2. M * r <= u * p + k /\ u * p + k < M * r + M /\ u * p + k \in Nat /\ r \in Nat
    BY <1>1, <1>2, <1>4, <1>5, <1>7, <2>1
  <2>3. QED BY <1>1, <2>2, QuotientIs
<1>10. s * p + r <= n /\ s * p \in Nat /\ s \in Nat
  <2>1. a * p = p * a /\ s * p <= a * p /\ s * p \in Nat /\ p * a \in Nat
    <3>1. s <= a /\ s \in Nat
      <4>1. S * b \in Nat
        BY <1>1
      <4>2. QED BY <1>1, <1>3, <4>1
    <3>2. QED BY <1>1, <3>1, Distribute
  <2>2. QED BY <1>2, <1>3, <2>1
<1>11. n % (S * p) = s * p + r
  <2>1. p * a = (S * p) * b + s * p /\ (S * p) * b \in Nat
    <3>1. p * (S * b + s) = (S * p) * b + s * p
      BY <1>1, <1>3
    <3>2. QED BY <1>1, <1>3, <3>1
  <2>2. S * p \in Nat \ {0} /\ s * p + p <= S * p
    <3>1. (s + 1) * p <= S * p /\ (s + 1) * p = s * p + p
      BY <1>1, <1>3, Distribute
    <3>2. S * p \in Nat
      BY <1>1
    <3>3. QED BY <1>1, <1>10, <3>1, <3>2
  <2>3. (S * p) * b <= n /\ n < (S * p) * b + S * p
    BY <1>1, <1>2, <1>10, <2>1, <2>2
  <2>4. n % (S * p) = n - (S * p) * b
    <3> DEFINE d == S * p
    <3>1. d \in Nat \ {0} /\ d * b <= n /\ n < d * b + d
      BY <2>2, <2>3
    <3> HIDE DEF d
    <3>2. n % d = n - d * b
      BY <1>1, <3>1, QuotientIs
    <3>3. QED BY <3>2 DEF d
  <2>5. QED BY <1>1, <1>2, <1>10, <2>1, <2>4
<1>12. ~(s > CountMax \div p \/ r > CountMax - s * p)
  <2>1. ~(s * p + r > CountMax)
    BY <1>1, <1>2, <1>10
  <2>2. r \in Nat
    BY <1>2
  <2>3. QED BY <1>1, <1>10, <2>1, <2>2, CountGuards
<1>13. ToCount(Stamp(s, u), p) = [tOk |-> s * p + r, tStatus |-> "SUCCESS"]
  <2>1. Stamp(s, u).iSeconds = s /\ Stamp(s, u).iSubSeconds = u
    BY DEF Stamp
  <2>2. QED BY <1>5, <1>9, <1>12, <2>1 DEF ToCount, M
<1>14. QED BY <1>8, <1>11, <1>13 DEF S

(* Through a double and back a time moves by less than a tick and half a   *)
(* double; only a time whose double is past giSECS_MAX seconds is refused. *)
LEMMA DoubleComesBack ==
  ASSUME NEW t \in Timestamp, Canonical(t)
  PROVE  LET d == TimestampToDouble(t)
             r == DoubleToTimestamp(d)
             off == Ticks(r.tOk) - Ticks(t)
         IN  IF d <= giSECS_MAX * DoubleGrid
               THEN /\ r.tStatus = "SUCCESS"
                    /\ Canonical(r.tOk)
                    /\ 2 * DoubleGrid * off <= giSUBSECS_MAX + 2 * DoubleGrid
                    /\ -(2 * DoubleGrid * off) <= giSUBSECS_MAX + 2 * DoubleGrid
               ELSE r.tStatus = "INVALID_DATA" /\ t.iSeconds = giSECS_MAX
<1> DEFINE M == giSUBSECS_MAX
           G == DoubleGrid
           S == giSECS_MAX
           s == t.iSeconds
           u == t.iSubSeconds
           d == TimestampToDouble(t)
           r == DoubleToTimestamp(d)
<1>1. /\ M \in Nat /\ M >= 2 /\ G \in Nat \ {0} /\ S \in Nat
      /\ s \in 0..S /\ s \in Nat /\ u \in Nat /\ u <= M - 1
  BY Widths DEF Timestamp, Canonical
<1>2. /\ s * G \in Nat /\ u * G \in Nat /\ S * G \in Nat /\ 2 * u * G = 2 * (u * G)
      /\ 2 * M \in Nat \ {0} /\ s * M \in Nat
  <2> HIDE DEF M, G, S, s, u
  <2>1. QED BY <1>1
<1>3. PICK f \in Nat, x \in 0..(2 * M - 1) :
        f = (2 * (u * G) + M) \div (2 * M) /\ 2 * (u * G) + M = (2 * M) * f + x
  <2> HIDE DEF M, G, S, s, u
  <2>1. 2 * (u * G) + M \in Nat
    BY <1>1, <1>2
  <2>2. QED BY <1>2, <2>1, DivisionAlgorithm
<1>4. d = s * G + f
  BY <1>2, <1>3 DEF TimestampToDouble
<1>5. M * f \in Nat /\ (2 * M) * f = 2 * (M * f)
  BY <1>1
<1>6. f <= G
  <2>1. SUFFICES ASSUME f >= G + 1 PROVE FALSE
    BY <1>1
  <2>2. u * G <= (M - 1) * G /\ (M - 1) * G = M * G - G /\ M * G \in Nat
    BY <1>1, Distribute
  <2>3. (G + 1) * M <= f * M /\ (G + 1) * M = M * G + M /\ f * M = M * f
    BY <1>1, <2>1, Distribute
  <2>4. QED BY <1>1, <1>2, <1>3, <1>5, <2>2, <2>3
<1>7. d \in Nat
  BY <1>2, <1>4
<1>8. CASE ~(d <= S * G)
  <2>1. r.tStatus = "INVALID_DATA"
    <3>1. d > S * G
      BY <1>2, <1>7, <1>8
    <3>2. QED BY <3>1 DEF DoubleToTimestamp
  <2>2. s = S
    <3>1. SUFFICES ASSUME s + 1 <= S PROVE FALSE
      BY <1>1
    <3>2. (s + 1) * G <= S * G /\ (s + 1) * G = s * G + G
      BY <1>1, <3>1, Distribute
    <3>3. d <= S * G
      BY <1>1, <1>2, <1>4, <1>6, <3>2
    <3>4. QED BY <1>8, <3>3
  <2>3. QED BY <1>8, <2>1, <2>2
<1>9. CASE d <= S * G
  <2> SUFFICES /\ r.tStatus = "SUCCESS" /\ Canonical(r.tOk)
               /\ 2 * G * (Ticks(r.tOk) - Ticks(t)) <= M + 2 * G
               /\ -(2 * G * (Ticks(r.tOk) - Ticks(t))) <= M + 2 * G
    BY <1>9
  <2>1. r = LET iSeconds == d \div G
                fraction == d % G
            IN  IF fraction * M < (M - 1) * G
                  THEN [tOk |-> Stamp(iSeconds, (fraction * M) \div G), tStatus |-> "SUCCESS"]
                ELSE [tOk |-> Stamp(iSeconds + 1, 0), tStatus |-> "SUCCESS"]
    <3>1. ~(d < 0 \/ d > S * G)
      BY <1>2, <1>7, <1>9
    <3>2. QED BY <3>1 DEF DoubleToTimestamp
  <2>2. Ticks(t) = s * M + u
    BY DEF Ticks
  <2>3. G * s = s * G /\ f * M = M * f /\ (M - 1) * G = M * G - G /\ M * G \in Nat
        /\ 0 * M = 0 /\ M * G >= 2 * G /\ G * M = M * G
    BY <1>1, Distribute
  <2> HIDE DEF d, M, G, S, s, u, r
  <2>4. CASE f = G
    <3>1. d \div G = s + 1 /\ d % G = 0
      <4>1. G * (s + 1) = G * s + G
        BY <1>1
      <4>2. G * (s + 1) <= d /\ d < G * (s + 1) + G /\ s + 1 \in Nat /\ d - G * (s + 1) = 0
        BY <1>1, <1>2, <1>4, <2>3, <2>4, <4>1
      <4>3. QED BY <1>1, <1>7, <4>2, QuotientIs
    <3>2. 0 * M < (M - 1) * G /\ (0 * M) \div G = 0
      <4>1. 0 \div G = 0
        BY <1>1
      <4>2. QED BY <1>1, <2>3, <4>1
    <3>3. r = [tOk |-> Stamp(s + 1, 0), tStatus |-> "SUCCESS"]
      BY <2>1, <3>1, <3>2
    <3>4. Ticks(r.tOk) - Ticks(t) = M - u
      <4>1. (s + 1) * M = s * M + M
        BY <1>1
      <4>2. Ticks(r.tOk) = (s + 1) * M + 0
        BY <3>3 DEF Ticks, Stamp, M
      <4>3. QED BY <1>1, <1>2, <2>2, <4>1, <4>2
    <3>5. 2 * G * (M - u) = 2 * (M * G) - 2 * (u * G)
      BY <1>1
    <3>6. 2 * (M * G) - 2 * (u * G) <= M /\ 2 * (M * G) - 2 * (u * G) >= 0
      <4>1. M * f = M * G
        BY <2>4
      <4>2. u * G <= M * G
        BY <1>1, Distribute
      <4>3. QED BY <1>1, <1>2, <1>3, <1>5, <2>3, <4>1, <4>2
    <3>7. Canonical(r.tOk)
      BY <1>1, <3>3 DEF Canonical, Stamp, M
    <3>8. 2 * G * (Ticks(r.tOk) - Ticks(t)) = 2 * (M * G) - 2 * (u * G)
      BY <3>4, <3>5
    <3>9. QED BY <1>1, <1>2, <2>3, <3>3, <3>6, <3>7, <3>8
  <2>5. CASE f < G
    <3>1. d \div G = s /\ d % G = f
      <4>1. G * s <= d /\ d < G * s + G /\ d - G * s = f
        BY <1>1, <1>2, <1>3, <1>4, <2>3, <2>5
      <4>2. QED BY <1>1, <1>7, <4>1, QuotientIs
    <3>2. CASE f * M < (M - 1) * G
      <4>1. PICK v \in Nat, y \in 0..(G - 1) : v = (f * M) \div G /\ f * M = G * v + y
        <5>1. f * M \in Nat
          BY <1>5, <2>3
        <5>2. QED BY <1>1, <5>1, DivisionAlgorithm
      <4>2. r = [tOk |-> Stamp(s, v), tStatus |-> "SUCCESS"]
        BY <2>1, <3>1, <3>2, <4>1
      <4>3. G * v \in Nat
        BY <1>1
      <4>4. v < M
        <5>1. SUFFICES ASSUME M <= v PROVE FALSE
          BY <1>1
        <5>2. M * G <= v * G /\ v * G = G * v
          BY <1>1, <5>1, Distribute
        <5>3. QED BY <1>1, <1>5, <2>3, <3>2, <4>1, <4>3, <5>2
      <4>5. Canonical(r.tOk)
        BY <4>2, <4>4 DEF Canonical, Stamp, M
      <4>6. Ticks(r.tOk) - Ticks(t) = v - u
        <5>1. Ticks(r.tOk) = s * M + v
          BY <4>2 DEF Ticks, Stamp, M
        <5>2. QED BY <1>1, <1>2, <2>2, <5>1
      <4>7. 2 * G * (v - u) = 2 * (G * v) - 2 * (u * G)
        BY <1>1
      <4>8. 2 * G * (Ticks(r.tOk) - Ticks(t)) = 2 * (G * v) - 2 * (u * G)
        BY <4>6, <4>7
      <4>9. QED BY <1>1, <1>2, <1>3, <1>5, <2>3, <4>1, <4>2, <4>3, <4>5, <4>8
    <3>3. CASE ~(f * M < (M - 1) * G)
      <4>1. r = [tOk |-> Stamp(s + 1, 0), tStatus |-> "SUCCESS"]
        BY <2>1, <3>1, <3>3
      <4>2. Ticks(r.tOk) - Ticks(t) = M - u
        <5>1. (s + 1) * M = s * M + M
          BY <1>1
        <5>2. Ticks(r.tOk) = (s + 1) * M + 0
          BY <4>1 DEF Ticks, Stamp, M
        <5>3. QED BY <1>1, <1>2, <2>2, <5>1, <5>2
      <4>3. 2 * G * (M - u) = 2 * (M * G) - 2 * (u * G)
        BY <1>1
      <4>4. 2 * G * (Ticks(r.tOk) - Ticks(t)) = 2 * (M * G) - 2 * (u * G)
        BY <4>2, <4>3
      <4>5. u * G <= M * G
        BY <1>1, Distribute
      <4>6. Canonical(r.tOk)
        BY <1>1, <4>1 DEF Canonical, Stamp, M
      <4>7. QED BY <1>1, <1>2, <1>3, <1>5, <2>3, <3>3, <4>1, <4>4, <4>5, <4>6
    <3>4. QED BY <3>2, <3>3
  <2>6. QED BY <1>1, <1>3, <1>6, <2>4, <2>5
<1>10. QED BY <1>8, <1>9
=============================================================================
