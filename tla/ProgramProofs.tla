--------------------------- MODULE ProgramProofs ----------------------------
(***************************************************************************)
(* Proofs about the example programs, for every clock, noise and width of  *)
(* the time fields, and about the index of the editor, for all files.      *)
(***************************************************************************)
EXTENDS ExampleProject, TrafficLight, WorkspaceIndexer, JunoTimeProofs

(* A pipe one message deep.                                                *)
PipeOfOne(q) ==
  /\ q.iStartIndex = 0
  /\ q.zLength \in {0, 1}
  /\ DOMAIN q.slots = {0}

LEMMA InitEmpties ==
  ASSUME NEW slots, DOMAIN slots = {0}
  PROVE  PipeOfOne(QueueInit(slots)) /\ IsEmpty(QueueInit(slots))
BY DEF PipeOfOne, QueueInit, IsEmpty

LEMMA PublishFills ==
  ASSUME NEW q, PipeOfOne(q), IsEmpty(q), NEW m
  PROVE  /\ PipeOfOne(Published(q, m))
         /\ ~IsEmpty(Published(q, m))
         /\ Oldest(Published(q, m)) = m
         /\ Contents(Published(q, m)) = <<m>>
<1>1. zCapacity = 1 /\ q.iStartIndex = 0 /\ q.zLength = 0 /\ DOMAIN q.slots = {0}
  BY ExampleAssumption DEF PipeOfOne, IsEmpty
<1>2. Back(q) = 0 /\ ~Full(q)
  BY <1>1 DEF Back, Full
<1> DEFINE r == [iStartIndex |-> q.iStartIndex, zLength |-> q.zLength + 1,
                 slots |-> [q.slots EXCEPT ![0] = m]]
<1>3. Published(q, m) = r
  BY <1>2 DEF Published, Push, SetAt
<1>4. r.iStartIndex = 0 /\ r.zLength = 1 /\ DOMAIN r.slots = {0} /\ r.slots[0] = m
  BY <1>1
<1> HIDE DEF r
<1>5. SlotOf(r, 1) = 0
  BY <1>1, <1>4 DEF SlotOf
<1>6. Contents(r) = [k \in 1..1 |-> m]
  BY <1>4, <1>5 DEF Contents, GetAt
<1>7. [k \in 1..1 |-> m] = <<m>>
  OBVIOUS
<1>8. QED BY <1>3, <1>4, <1>6, <1>7 DEF PipeOfOne, IsEmpty, Oldest, GetAt

LEMMA PopEmpties ==
  ASSUME NEW q, PipeOfOne(q), ~IsEmpty(q)
  PROVE  PipeOfOne(Pop(q)) /\ IsEmpty(Pop(q))
BY ExampleAssumption DEF PipeOfOne, IsEmpty, Pop, ResetAt

(* The clock's stamp is a canonical timestamp.                             *)
LEMMA NowCanonical ==
  ASSUME NEW n \in Nat
  PROVE  Now(n) \in Timestamp /\ Canonical(Now(n))
<1>1. NanosPerSec \in Units /\ NanosPerSec \in Nat \ {0}
  BY Widths DEF Units
<1>2. n % NanosPerSec \in Nat /\ n \div NanosPerSec \in Nat
  <2>1. n % NanosPerSec \in 0..(NanosPerSec - 1)
    BY <1>1, DivisionAlgorithm
  <2>2. \A p \in Nat \ {0} : \A r \in 0..(p - 1) : r \in Nat
    OBVIOUS
  <2>3. n \div NanosPerSec \in Nat
    BY <1>1, DivisionAlgorithm
  <2>4. QED BY <1>1, <2>1, <2>2, <2>3
<1>3. /\ NanosToTimestamp(n % NanosPerSec) \in Timestamp
      /\ Canonical(NanosToTimestamp(n % NanosPerSec))
  BY <1>1, <1>2, CountCanonical DEF NanosToTimestamp
<1>4. Wrapped(n \div NanosPerSec) \in 0..giSECS_MAX
  <2> DEFINE s == n \div NanosPerSec
  <2>1. s \in Nat /\ giSECS_MAX + 1 \in Nat \ {0}
    BY <1>2, Widths
  <2> HIDE DEF s
  <2>2. s % (giSECS_MAX + 1) \in 0..giSECS_MAX
    BY <2>1, Widths, DivisionAlgorithm
  <2>3. QED BY <2>2 DEF Wrapped, s
<1>5. QED BY <1>3, <1>4 DEF Now, Stamp, Timestamp, Canonical

(* Every canonical timestamp is a count of millis: SystemManager never     *)
(* returns without a command.                                              *)
LEMMA MillisFit ==
  ASSUME NEW t \in Timestamp, Canonical(t)
  PROVE  TimestampToMillis(t).tStatus = "SUCCESS"
<1> DEFINE p == MillisPerSec
           x == t.iSubSeconds * p + (giSUBSECS_MAX \div 2)
           frac == x \div giSUBSECS_MAX
           base == t.iSeconds * p
<1>1. p \in Nat \ {0} /\ giSUBSECS_MAX \in Nat /\ giSUBSECS_MAX >= 2 /\ giSECS_MAX \in Nat /\ CountMax \in Nat
  BY Widths, WidthAssumption DEF Units
<1>2. t.iSeconds \in 0..giSECS_MAX /\ t.iSubSeconds \in 0..(giSUBSECS_MAX - 1)
  BY Widths DEF Timestamp, Canonical
<1>3. x \in Nat /\ x < giSUBSECS_MAX * (p + 1)
  <2>1. giSUBSECS_MAX \div 2 \in Nat /\ giSUBSECS_MAX \div 2 < giSUBSECS_MAX
    BY <1>1
  <2>2. t.iSubSeconds * p <= giSUBSECS_MAX * p /\ t.iSubSeconds * p \in Nat
    BY <1>1, <1>2, Distribute
  <2>3. giSUBSECS_MAX * (p + 1) = giSUBSECS_MAX * p + giSUBSECS_MAX /\ giSUBSECS_MAX * p \in Nat
    BY <1>1
  <2>4. QED BY <1>1, <2>1, <2>2, <2>3
<1>4. frac \in Nat /\ frac <= p
  <2> HIDE DEF x
  <2>1. frac \in Nat /\ frac < p + 1
    BY <1>1, <1>3, DivBelow
  <2>2. QED BY <1>1, <2>1
<1>5. base \in Nat /\ base + p <= CountMax
  <2>1. (t.iSeconds + 1) * p <= (giSECS_MAX + 1) * p
    BY <1>1, <1>2, Distribute
  <2>2. (t.iSeconds + 1) * p = t.iSeconds * p + p /\ t.iSeconds * p \in Nat
    BY <1>1, <1>2
  <2>3. (giSECS_MAX + 1) * p <= CountMax /\ (giSECS_MAX + 1) * p \in Nat
    BY <1>1, ExampleAssumption
  <2>4. QED BY <1>1, <2>1, <2>2, <2>3
<1>6. ~(t.iSeconds > CountMax \div p)
  <2>1. t.iSeconds * p <= CountMax
    BY <1>1, <1>4, <1>5
  <2>2. CountMax = p * (CountMax \div p) + (CountMax % p)
        /\ CountMax \div p \in Nat /\ CountMax % p \in 0..(p - 1)
    BY <1>1, DivisionAlgorithm
  <2> DEFINE c == CountMax \div p
  <2>3. SUFFICES ASSUME t.iSeconds >= c + 1 PROVE FALSE
    BY <1>2, <2>2
  <2>4. (c + 1) * p <= t.iSeconds * p /\ (c + 1) * p = p * c + p
    BY <1>1, <1>2, <2>2, <2>3, Distribute
  <2>5. QED BY <1>1, <1>2, <2>1, <2>2, <2>4
<1>7. ~(frac > CountMax - base)
  BY <1>1, <1>4, <1>5
<1>8. QED BY <1>6, <1>7 DEF TimestampToMillis, ToCount

-----------------------------------------------------------------------------
(* The invariant behind OneMessageUnderWay and TargetLeadsByOneStep: what  *)
(* telemetry there is carries a canonical stamp, and nothing is under way  *)
(* before main has started both apps.                                      *)
ExampleInv ==
  /\ started \in BOOLEAN /\ iCounter \in {0, 1}
  /\ clock \in Nat
  /\ fTargetRpm \in Int /\ fCurrentRpm \in Int
  /\ tEngineStart \in Timestamp /\ Canonical(tEngineStart)
  /\ PipeOfOne(tCmdPipe) /\ PipeOfOne(tEngineTlmPipe)
  /\ ~IsEmpty(tEngineTlmPipe) =>
       /\ Oldest(tEngineTlmPipe).tTimestamp \in Timestamp
       /\ Canonical(Oldest(tEngineTlmPipe).tTimestamp)
  /\ ~started => IsEmpty(tCmdPipe) /\ IsEmpty(tEngineTlmPipe) /\ fTargetRpm = 0
  /\ iCounter = 0 => IsEmpty(tCmdPipe)
  /\ started /\ iCounter = 1 =>
       /\ IsEmpty(tEngineTlmPipe) /\ ~IsEmpty(tCmdPipe)
       /\ Oldest(tCmdPipe) = [fRpm |-> fTargetRpm]
       /\ Contents(tCmdPipe) = <<[fRpm |-> fTargetRpm]>>
  /\ fTargetRpm - fCurrentRpm \in IF iCounter = 0 THEN {0} ELSE {0, 10}

LEMMA ExampleStarts == ExampleInit => ExampleInv
<1> SUFFICES ASSUME ExampleInit PROVE ExampleInv
  OBVIOUS
<1>1. DOMAIN EmptySlots = {0}
  BY ExampleAssumption DEF EmptySlots, Slots
<1>2. PipeOfOne(QueueInit(EmptySlots)) /\ IsEmpty(QueueInit(EmptySlots))
  BY <1>1, InitEmpties
<1>3. Zero \in Timestamp /\ Canonical(Zero)
  BY Widths DEF Zero, Stamp, Timestamp, Canonical
<1>4. /\ started = FALSE /\ iCounter = 0 /\ clock \in {0, 1}
      /\ fTargetRpm = 0 /\ fCurrentRpm = 0 /\ tEngineStart = Zero
      /\ tCmdPipe = QueueInit(EmptySlots) /\ tEngineTlmPipe = QueueInit(EmptySlots)
  BY DEF ExampleInit
<1>5. fTargetRpm - fCurrentRpm \in IF iCounter = 0 THEN {0} ELSE {0, 10}
  BY <1>4
<1>6. /\ PipeOfOne(tCmdPipe) /\ IsEmpty(tCmdPipe)
      /\ PipeOfOne(tEngineTlmPipe) /\ IsEmpty(tEngineTlmPipe)
      /\ tEngineStart \in Timestamp /\ Canonical(tEngineStart)
  BY <1>2, <1>3, <1>4
<1>7. iCounter \in {0, 1} /\ clock \in Nat
      /\ fTargetRpm \in Int /\ fCurrentRpm \in Int /\ iCounter # 1
  <2>1. iCounter = 0 /\ clock \in {0, 1} /\ fTargetRpm = 0 /\ fCurrentRpm = 0
    BY <1>4
  <2>2. QED BY <2>1
<1>8. started \in BOOLEAN
  BY <1>4, Zenon
<1>9. QED BY <1>4, <1>5, <1>6, <1>7, <1>8, Zenon DEF ExampleInv

LEMMA ExampleSteps == ExampleInv /\ [ExampleNext]_exampleVars => ExampleInv'
<1> SUFFICES ASSUME ExampleInv, [ExampleNext]_exampleVars PROVE ExampleInv'
  OBVIOUS
<1> USE DEF ExampleInv
<1>0. ReadClock => clock' \in Nat
  BY ExampleAssumption DEF ReadClock
<1>1. CASE SystemManagerOnStart
  <2>1. PipeOfOne(tEngineTlmPipe') /\ IsEmpty(tEngineTlmPipe')
    BY <1>1, InitEmpties DEF SystemManagerOnStart, PipeOfOne
  <2>2. tEngineStart' \in Timestamp /\ Canonical(tEngineStart')
    BY <1>0, <1>1, NowCanonical DEF SystemManagerOnStart
  <2>3. fTargetRpm' - fCurrentRpm' = 0
    BY <1>1 DEF SystemManagerOnStart
  <2>4. QED BY <1>0, <1>1, <2>1, <2>2, <2>3 DEF SystemManagerOnStart
<1>2. CASE EngineOnStart
  <2>1. PipeOfOne(tCmdPipe') /\ IsEmpty(tCmdPipe')
    BY <1>2, InitEmpties DEF EngineOnStart, PipeOfOne
  <2>2. fTargetRpm' = 0 /\ fCurrentRpm' = 0
    BY <1>2 DEF EngineOnStart
  <2>3. /\ started' = TRUE /\ iCounter' = 0 /\ UNCHANGED <<clock, tEngineStart, tEngineTlmPipe>>
        /\ IsEmpty(tEngineTlmPipe)
    BY <1>2 DEF EngineOnStart
  <2>4. fTargetRpm' - fCurrentRpm' \in IF iCounter' = 0 THEN {0} ELSE {0, 10}
    BY <2>2, <2>3
  <2>5. PipeOfOne(tEngineTlmPipe') /\ IsEmpty(tEngineTlmPipe')
    BY <2>3
  <2>6. tEngineStart' \in Timestamp /\ Canonical(tEngineStart')
    BY <2>3
  <2>7. fTargetRpm' \in Int /\ fCurrentRpm' \in Int /\ iCounter' \in {0, 1} /\ iCounter' # 1
        /\ started' \in BOOLEAN /\ clock' \in Nat
    BY <2>2, <2>3
  <2>8. QED BY <2>1, <2>3, <2>4, <2>5, <2>6, <2>7, Zenon
<1>3. CASE SystemManagerOnProcess
  <2>1. /\ started' /\ started /\ iCounter = 0 /\ iCounter' = 1 /\ IsEmpty(tCmdPipe)
        /\ UNCHANGED <<clock, tEngineStart, fCurrentRpm>>
        /\ fTargetRpm = fCurrentRpm
    BY <1>3 DEF SystemManagerOnProcess
  <2>2. fTargetRpm' \in {fTargetRpm, fTargetRpm + 10}
    BY <1>3 DEF SystemManagerOnProcess, Raised
  <2>3. PipeOfOne(tEngineTlmPipe') /\ IsEmpty(tEngineTlmPipe')
    BY <1>3, PopEmpties DEF SystemManagerOnProcess
  <2>4. tCmdPipe' = Published(tCmdPipe, [fRpm |-> fTargetRpm'])
    <3>1. CASE IsEmpty(tEngineTlmPipe)
      BY <1>3, <3>1 DEF SystemManagerOnProcess
    <3>2. CASE ~IsEmpty(tEngineTlmPipe)
      <4> DEFINE elapsed == SubtractTime(Oldest(tEngineTlmPipe).tTimestamp, tEngineStart)
      <4>1. elapsed.tOk \in Timestamp /\ Canonical(elapsed.tOk)
        BY <3>2, SubtractExact
      <4>2. TimestampToMillis(elapsed.tOk).tStatus = "SUCCESS"
        <5> HIDE DEF elapsed
        <5>1. QED BY <4>1, MillisFit
      <4>3. QED BY <1>3, <3>2, <4>2 DEF SystemManagerOnProcess
    <3>3. QED BY <3>1, <3>2
  <2>5. /\ PipeOfOne(tCmdPipe') /\ ~IsEmpty(tCmdPipe')
        /\ Oldest(tCmdPipe') = [fRpm |-> fTargetRpm']
        /\ Contents(tCmdPipe') = <<[fRpm |-> fTargetRpm']>>
    BY <2>1, <2>4, PublishFills
  <2>6. fTargetRpm' \in Int /\ fTargetRpm' - fCurrentRpm' \in {0, 10}
    <3>1. fTargetRpm \in Int /\ fCurrentRpm' = fTargetRpm
      BY <2>1
    <3>2. \A x \in Int : \A y \in {x, x + 10} : y \in Int /\ y - x \in {0, 10}
      OBVIOUS
    <3>3. QED BY <2>2, <3>1, <3>2, Zenon
  <2>7. /\ started' \in BOOLEAN /\ iCounter' \in {0, 1} /\ iCounter' # 0 /\ started'
        /\ clock' \in Nat /\ fCurrentRpm' \in Int
        /\ tEngineStart' \in Timestamp /\ Canonical(tEngineStart')
        /\ fTargetRpm' - fCurrentRpm' \in IF iCounter' = 0 THEN {0} ELSE {0, 10}
    BY <2>1, <2>6
  <2>8. QED BY <2>3, <2>5, <2>6, <2>7, Zenon
<1>4. CASE EngineOnProcess
  <2>1. started' /\ started /\ iCounter = 1 /\ iCounter' = 0 /\ UNCHANGED <<fTargetRpm, tEngineStart>>
    BY <1>4 DEF EngineOnProcess
  <2>2. fCurrentRpm' = fTargetRpm
    <3>1. Oldest(tCmdPipe).fRpm = fTargetRpm
      BY <2>1
    <3>2. QED BY <1>4, <2>1, <3>1 DEF EngineOnProcess, Obeyed
  <2>3. PipeOfOne(tCmdPipe') /\ IsEmpty(tCmdPipe')
    BY <1>4, <2>1, PopEmpties DEF EngineOnProcess
  <2>4. PICK n : tEngineTlmPipe' =
                   Published(tEngineTlmPipe, [fRpm |-> fCurrentRpm' + n, tTimestamp |-> Now(clock')])
    BY <1>4 DEF EngineOnProcess
  <2>5. /\ PipeOfOne(tEngineTlmPipe') /\ ~IsEmpty(tEngineTlmPipe')
        /\ Oldest(tEngineTlmPipe') = [fRpm |-> fCurrentRpm' + n, tTimestamp |-> Now(clock')]
    BY <2>1, <2>4, PublishFills
  <2>6. clock' \in Nat
    BY <1>0, <1>4 DEF EngineOnProcess
  <2>7. Now(clock') \in Timestamp /\ Canonical(Now(clock'))
    BY <2>6, NowCanonical
  <2>8. fTargetRpm' - fCurrentRpm' = 0
    BY <2>1, <2>2
  <2>9. /\ Oldest(tEngineTlmPipe').tTimestamp \in Timestamp
        /\ Canonical(Oldest(tEngineTlmPipe').tTimestamp)
    BY <2>5, <2>7
  <2>10. /\ started' \in BOOLEAN /\ iCounter' \in {0, 1} /\ iCounter' # 1 /\ started'
         /\ clock' \in Nat /\ fTargetRpm' \in Int /\ fCurrentRpm' \in Int
         /\ tEngineStart' \in Timestamp /\ Canonical(tEngineStart')
         /\ fTargetRpm' - fCurrentRpm' \in IF iCounter' = 0 THEN {0} ELSE {0, 10}
    BY <2>1, <2>2, <2>6, <2>8
  <2>11. QED BY <2>3, <2>5, <2>9, <2>10, Zenon
<1>5. CASE UNCHANGED exampleVars
  BY <1>5 DEF exampleVars, Oldest, IsEmpty, Contents, SlotOf, PipeOfOne, Canonical, GetAt
<1>6. QED BY <1>1, <1>2, <1>3, <1>4, <1>5 DEF ExampleNext

(* Pipes one message deep are enough: whoever publishes finds the pipe of  *)
(* its reader empty, although nobody reads the status of Publish.          *)
THEOREM PipesSuffice == ExampleSpec => []OneMessageUnderWay
<1>1. ExampleInv => OneMessageUnderWay
  BY DEF ExampleInv, OneMessageUnderWay
<1>2. QED BY <1>1, ExampleStarts, ExampleSteps, PTL DEF ExampleSpec

(* The target is raised only once the engine has obeyed the command        *)
(* before, for every noise and every clock.                                *)
THEOREM TargetNeverRunsAway == ExampleSpec => []TargetLeadsByOneStep
<1>1. ExampleInv => TargetLeadsByOneStep
  BY DEF ExampleInv, TargetLeadsByOneStep
<1>2. QED BY <1>1, ExampleStarts, ExampleSteps, PTL DEF ExampleSpec

-----------------------------------------------------------------------------
LEMMA QuotientMonotone ==
  ASSUME NEW a \in Nat, NEW b \in Nat, a <= b, NEW p \in Nat \ {0}
  PROVE  a \div p \in Nat /\ b \div p \in Nat /\ a \div p <= b \div p
<1>1. PICK q \in Nat, x \in 0..(p - 1) : q = a \div p /\ a = p * q + x
  BY DivisionAlgorithm
<1>2. PICK r \in Nat, y \in 0..(p - 1) : r = b \div p /\ b = p * r + y
  BY DivisionAlgorithm
<1>3. SUFFICES ASSUME r + 1 <= q PROVE FALSE
  BY <1>1, <1>2
<1>4. p * (r + 1) <= p * q /\ p * (r + 1) = p * r + p /\ p * r \in Nat /\ p * q \in Nat
  BY <1>3
<1>5. QED BY <1>1, <1>2, <1>4

(* While the clock is within the seconds field, its stamp is its value in  *)
(* ticks, rounded; it does not go back when the clock does not.            *)
ClockRange == (giSECS_MAX + 1) * NanosPerSec

LEMMA NowTicks ==
  ASSUME NEW n \in Nat, n < ClockRange
  PROVE  Ticks(Now(n)) = (n * giSUBSECS_MAX + (NanosPerSec \div 2)) \div NanosPerSec
<1> DEFINE M == giSUBSECS_MAX
           N == NanosPerSec
           S == giSECS_MAX
<1>1. M \in Nat \ {0} /\ N \in Nat \ {0} /\ S \in Nat
  BY Widths DEF Units
<1>2. PICK a \in Nat, r \in 0..(N - 1) : a = n \div N /\ r = n % N /\ n = N * a + r
  BY <1>1, DivisionAlgorithm
<1>3. PICK h \in Nat : h = N \div 2
  BY <1>1, Half
<1> HIDE DEF M, N, S
<1>4. Wrapped(a) = a
  <2>1. n < (S + 1) * N
    BY DEF ClockRange, S, N
  <2>2. a <= S
    <3>1. SUFFICES ASSUME S + 1 <= a PROVE FALSE
      BY <1>1
    <3>2. (S + 1) * N <= a * N /\ a * N = N * a /\ N * a \in Nat /\ (S + 1) * N \in Nat
      BY <1>1, <3>1, Distribute
    <3>3. QED BY <1>1, <1>2, <2>1, <3>2
  <2>3. a % (S + 1) = a
    <3>1. (S + 1) * 0 = 0 /\ S + 1 \in Nat \ {0}
      BY <1>1
    <3>2. a % (S + 1) = a - (S + 1) * 0
      <4>1. (S + 1) * 0 <= a /\ a < (S + 1) * 0 + (S + 1)
        BY <1>1, <2>2, <3>1
      <4>2. QED BY <3>1, <4>1, QuotientIs
    <3>3. QED BY <3>1, <3>2
  <2>4. QED BY <2>3 DEF Wrapped, S
<1>5. r % N = r
  <2>1. N * 0 <= r /\ r < N * 0 + N /\ r \in Nat
    BY <1>1, <1>2
  <2>2. r % N = r - N * 0
    BY <1>1, <2>1, QuotientIs
  <2>3. QED BY <1>1, <1>2, <2>2
<1>6. PICK u \in Nat, x \in 0..(N - 1) : u = (r * M + h) \div N /\ r * M + h = N * u + x
  <2>1. r * M + h \in Nat
    BY <1>1, <1>2, <1>3
  <2>2. QED BY <1>1, <2>1, DivisionAlgorithm
<1>7. Ticks(Now(n)) = a * M + u
  <2>1. NanosToTimestamp(r).iSubSeconds = u
    BY <1>3, <1>5, <1>6 DEF NanosToTimestamp, FromCount, Stamp, M, N
  <2>2. Now(n) = Stamp(a, u)
    BY <1>2, <1>4, <2>1 DEF Now, N
  <2>3. QED BY <2>2 DEF Ticks, Stamp, M
<1>8. (n * M + h) \div N = a * M + u
  <2>1. n * M = N * (a * M) + r * M /\ N * (a * M) \in Nat /\ r * M \in Nat /\ a * M \in Nat
    <3>1. (N * a + r) * M = N * (a * M) + r * M
      BY <1>1, <1>2
    <3>2. QED BY <1>1, <1>2, <3>1
  <2>2. N * (a * M + u) = N * (a * M) + N * u /\ N * u \in Nat
    BY <1>1, <2>1
  <2>3. /\ N * (a * M + u) <= n * M + h /\ n * M + h < N * (a * M + u) + N
        /\ n * M + h \in Nat /\ a * M + u \in Nat
    BY <1>1, <1>3, <1>6, <2>1, <2>2
  <2>4. QED BY <1>1, <2>3, QuotientIs
<1>9. QED BY <1>3, <1>7, <1>8 DEF M, N

LEMMA NowMonotone ==
  ASSUME NEW c \in Nat, NEW d \in Nat, c <= d, d < ClockRange
  PROVE  Ticks(Now(c)) <= Ticks(Now(d))
<1>1. giSUBSECS_MAX \in Nat /\ NanosPerSec \in Nat \ {0} /\ ClockRange \in Int
  <2>1. giSUBSECS_MAX \in Nat /\ NanosPerSec \in Nat \ {0} /\ giSECS_MAX \in Nat
    BY Widths DEF Units
  <2>2. QED BY <2>1 DEF ClockRange
<1>2. c < ClockRange
  BY <1>1
<1>3. PICK h \in Nat : h = NanosPerSec \div 2
  BY <1>1, Half
<1>4. c * giSUBSECS_MAX <= d * giSUBSECS_MAX /\ c * giSUBSECS_MAX \in Nat /\ d * giSUBSECS_MAX \in Nat
  BY <1>1, Distribute
<1>5. /\ c * giSUBSECS_MAX + h \in Nat /\ d * giSUBSECS_MAX + h \in Nat
      /\ c * giSUBSECS_MAX + h <= d * giSUBSECS_MAX + h
  BY <1>3, <1>4
<1>6. (c * giSUBSECS_MAX + h) \div NanosPerSec <= (d * giSUBSECS_MAX + h) \div NanosPerSec
  BY <1>1, <1>5, QuotientMonotone
<1>7. QED BY <1>2, <1>3, <1>6, NowTicks

(* So many ticks in millis, rounded.                                       *)
InMillis(x) == (2 * x * MillisPerSec + giSUBSECS_MAX) \div (2 * giSUBSECS_MAX)

LEMMA InMillisMonotone ==
  ASSUME NEW x \in Nat, NEW y \in Nat, x <= y
  PROVE  InMillis(x) \in Nat /\ InMillis(y) \in Nat /\ InMillis(x) <= InMillis(y)
<1>1. MillisPerSec \in Nat /\ giSUBSECS_MAX \in Nat \ {0} /\ 2 * giSUBSECS_MAX \in Nat \ {0}
  <2>1. MillisPerSec \in Units
    BY DEF Units
  <2>2. MillisPerSec \in Nat /\ giSUBSECS_MAX \in Nat /\ giSUBSECS_MAX >= 2
    BY <2>1, Widths
  <2>3. QED BY <2>2
<1>2. PICK v \in Nat, w \in Nat : v = 2 * x * MillisPerSec /\ w = 2 * y * MillisPerSec /\ v <= w
  <2>1. 2 * x \in Nat /\ 2 * y \in Nat /\ 2 * x <= 2 * y
    OBVIOUS
  <2>2. \A i, j \in Nat : i <= j => i * MillisPerSec <= j * MillisPerSec
    BY <1>1, Distribute
  <2>3. \A i \in Nat : i * MillisPerSec \in Nat
    BY <1>1
  <2>4. QED BY <2>1, <2>2, <2>3
<1>3. v + giSUBSECS_MAX \in Nat /\ w + giSUBSECS_MAX \in Nat /\ v + giSUBSECS_MAX <= w + giSUBSECS_MAX
  BY <1>1, <1>2
<1>4. /\ (v + giSUBSECS_MAX) \div (2 * giSUBSECS_MAX) \in Nat
      /\ (w + giSUBSECS_MAX) \div (2 * giSUBSECS_MAX) \in Nat
      /\ (v + giSUBSECS_MAX) \div (2 * giSUBSECS_MAX) <= (w + giSUBSECS_MAX) \div (2 * giSUBSECS_MAX)
  BY <1>1, <1>3, QuotientMonotone
<1>5. QED BY <1>2, <1>4 DEF InMillis

(* What SystemManager logs of a canonical elapsed time.                    *)
LEMMA MillisAre ==
  ASSUME NEW t \in Timestamp, Canonical(t)
  PROVE  TimestampToMillis(t).tOk = InMillis(Ticks(t)) /\ InMillis(Ticks(t)) \in Nat
<1>1. MillisPerSec \in Units
  BY DEF Units
<1>2. TimestampToMillis(t).tStatus = "SUCCESS"
  BY MillisFit
<1>3. /\ InMillis(Ticks(t)) \in Nat
      /\ ToCount(t, MillisPerSec) =
           IF InMillis(Ticks(t)) <= CountMax THEN [tOk |-> InMillis(Ticks(t)), tStatus |-> "SUCCESS"]
           ELSE [tOk |-> 0, tStatus |-> "INVALID_DATA"]
  BY <1>1, RoundedCount DEF InMillis
<1>4. QED BY <1>2, <1>3 DEF TimestampToMillis

(* The invariant behind ElapsedMonotone: telemetry under way carries the   *)
(* stamp of the clock, and what was logged last is no more than the clock  *)
(* would give now.                                                         *)
ElapsedInv ==
  /\ tMillis \in Nat
  /\ ~started => tMillis = 0
  /\ ~IsEmpty(tEngineTlmPipe) => Oldest(tEngineTlmPipe).tTimestamp = Now(clock)
  /\ clock < ClockRange /\ (started \/ iCounter = 1) =>
       /\ Ticks(tEngineStart) <= Ticks(Now(clock))
       /\ tMillis <= InMillis(Ticks(Now(clock)) - Ticks(tEngineStart))

LEMMA LaterClock ==
  ASSUME ExampleInv, NEW c \in Nat, NEW d \in Nat, c <= d, d < ClockRange,
         Ticks(tEngineStart) <= Ticks(Now(c))
  PROVE  /\ Ticks(tEngineStart) <= Ticks(Now(d))
         /\ InMillis(Ticks(Now(c)) - Ticks(tEngineStart)) \in Nat
         /\ InMillis(Ticks(Now(d)) - Ticks(tEngineStart)) \in Nat
         /\ InMillis(Ticks(Now(c)) - Ticks(tEngineStart)) <= InMillis(Ticks(Now(d)) - Ticks(tEngineStart))
<1>1. PICK s \in Nat, x \in Nat, y \in Nat :
        s = Ticks(tEngineStart) /\ x = Ticks(Now(c)) /\ y = Ticks(Now(d)) /\ x <= y /\ s <= x
  BY NowCanonical, TicksBound, NowMonotone DEF ExampleInv
<1>2. x - s \in Nat /\ y - s \in Nat /\ x - s <= y - s
  BY <1>1
<1>3. InMillis(x - s) \in Nat /\ InMillis(y - s) \in Nat /\ InMillis(x - s) <= InMillis(y - s)
  BY <1>2, InMillisMonotone
<1>4. QED BY <1>1, <1>3

LEMMA ElapsedSteps ==
  ASSUME ExampleInv, ElapsedInv, [ExampleNext]_exampleVars
  PROVE  ElapsedInv' /\ (clock < ClockRange => tMillis' >= tMillis)
<1> USE DEF ElapsedInv
<1>0. ClockRange \in Int /\ clock \in Nat
  <2>1. NanosPerSec \in Nat /\ giSECS_MAX \in Nat
    BY Widths DEF Units
  <2>2. QED BY <2>1 DEF ClockRange, ExampleInv
<1>1. ReadClock => clock' \in Nat /\ clock <= clock'
  BY <1>0, ExampleAssumption DEF ReadClock
<1>2. CASE SystemManagerOnStart
  <2>1. /\ ~started' /\ tMillis' = 0 /\ tMillis' = tMillis /\ IsEmpty(tEngineTlmPipe')
        /\ tEngineStart' = Now(clock') /\ clock' \in Nat
    BY <1>1, <1>2 DEF SystemManagerOnStart, QueueInit, IsEmpty
  <2>2. PICK s \in Nat : s = Ticks(Now(clock'))
    BY <2>1, NowCanonical, TicksBound
  <2>3. s <= s /\ s - s = 0 /\ InMillis(0) \in Nat
    BY <2>2, InMillisMonotone
  <2>4. Ticks(tEngineStart') <= Ticks(Now(clock')) /\ 0 <= InMillis(Ticks(Now(clock')) - Ticks(tEngineStart'))
    BY <2>1, <2>2, <2>3
  <2>5. QED BY <2>1, <2>4
<1>3. CASE EngineOnStart
  <2>1. /\ tMillis' = 0 /\ tMillis = 0 /\ iCounter = 1 /\ IsEmpty(tEngineTlmPipe')
        /\ UNCHANGED <<clock, tEngineStart, tEngineTlmPipe>> /\ started'
    BY <1>3 DEF EngineOnStart, ExampleInv
  <2>2. QED BY <2>1
<1>4. CASE SystemManagerOnProcess
  <2>1. /\ started /\ started' /\ UNCHANGED <<clock, tEngineStart>>
    BY <1>4 DEF SystemManagerOnProcess
  <2>2. CASE IsEmpty(tEngineTlmPipe)
    BY <1>4, <2>1, <2>2 DEF SystemManagerOnProcess
  <2>3. CASE ~IsEmpty(tEngineTlmPipe)
    <3> DEFINE now == Now(clock)
               elapsed == SubtractTime(now, tEngineStart)
    <3>1. Oldest(tEngineTlmPipe).tTimestamp = now
      BY <2>3
    <3>2. /\ now \in Timestamp /\ Canonical(now)
          /\ tEngineStart \in Timestamp
      BY <1>0, NowCanonical DEF ExampleInv
    <3>3. IsEmpty(tEngineTlmPipe')
      BY <1>4, <2>3, PopEmpties DEF SystemManagerOnProcess, ExampleInv
    <3>4. tMillis' \in {tMillis, TimestampToMillis(elapsed.tOk).tOk}
      BY <1>4, <2>3, <3>1 DEF SystemManagerOnProcess
    <3>5. elapsed.tOk \in Timestamp /\ Canonical(elapsed.tOk)
      BY <3>2, SubtractExact
    <3>6. /\ TimestampToMillis(elapsed.tOk).tOk = InMillis(Ticks(elapsed.tOk))
          /\ InMillis(Ticks(elapsed.tOk)) \in Nat
      <4> HIDE DEF elapsed
      <4>1. QED BY <3>5, MillisAre
    <3>7. tMillis' \in Nat
      BY <3>4, <3>6
    <3>8. clock < ClockRange => Ticks(elapsed.tOk) = Ticks(now) - Ticks(tEngineStart)
      BY <2>1, <3>2, SubtractExact
    <3> HIDE DEF elapsed, now
    <3>9. clock < ClockRange =>
            /\ Ticks(tEngineStart) <= Ticks(now)
            /\ tMillis <= InMillis(Ticks(now) - Ticks(tEngineStart))
            /\ tMillis' \in {tMillis, InMillis(Ticks(now) - Ticks(tEngineStart))}
            /\ InMillis(Ticks(now) - Ticks(tEngineStart)) \in Nat
      BY <2>1, <3>4, <3>6, <3>8 DEF now
    <3>10. clock < ClockRange =>
             tMillis' >= tMillis /\ tMillis' <= InMillis(Ticks(now) - Ticks(tEngineStart))
      BY <3>9
    <3>11. QED BY <2>1, <3>3, <3>7, <3>9, <3>10 DEF now
  <2>4. QED BY <2>2, <2>3
<1>5. CASE EngineOnProcess
  <2>1. /\ started /\ started' /\ UNCHANGED <<tEngineStart, tMillis>> /\ IsEmpty(tEngineTlmPipe)
        /\ clock' \in Nat /\ clock <= clock'
    BY <1>1, <1>5 DEF EngineOnProcess, ExampleInv
  <2>2. PICK n : tEngineTlmPipe' =
                   Published(tEngineTlmPipe, [fRpm |-> fCurrentRpm' + n, tTimestamp |-> Now(clock')])
    BY <1>5 DEF EngineOnProcess
  <2>3. Oldest(tEngineTlmPipe').tTimestamp = Now(clock')
    <3>1. Oldest(tEngineTlmPipe') = [fRpm |-> fCurrentRpm' + n, tTimestamp |-> Now(clock')]
      BY <2>1, <2>2, PublishFills DEF ExampleInv
    <3>2. QED BY <3>1
  <2>4. ASSUME clock' < ClockRange
        PROVE  /\ Ticks(tEngineStart) <= Ticks(Now(clock'))
               /\ tMillis <= InMillis(Ticks(Now(clock')) - Ticks(tEngineStart))
    <3>1. clock < ClockRange
      BY <1>0, <2>1, <2>4
    <3>2. Ticks(tEngineStart) <= Ticks(Now(clock))
          /\ tMillis <= InMillis(Ticks(Now(clock)) - Ticks(tEngineStart))
      BY <2>1, <3>1
    <3>3. /\ Ticks(tEngineStart) <= Ticks(Now(clock'))
          /\ InMillis(Ticks(Now(clock)) - Ticks(tEngineStart)) \in Nat
          /\ InMillis(Ticks(Now(clock')) - Ticks(tEngineStart)) \in Nat
          /\ InMillis(Ticks(Now(clock)) - Ticks(tEngineStart)) <= InMillis(Ticks(Now(clock')) - Ticks(tEngineStart))
      BY <1>0, <2>1, <2>4, <3>2, LaterClock
    <3>4. QED BY <3>2, <3>3
  <2>5. QED BY <2>1, <2>3, <2>4
<1>6. CASE UNCHANGED exampleVars
  BY <1>6 DEF exampleVars, IsEmpty, Oldest, GetAt
<1>7. QED BY <1>2, <1>3, <1>4, <1>5, <1>6 DEF ExampleNext

(* The elapsed time that is logged never goes back while the clock is      *)
(* within the seconds field.                                               *)
THEOREM ElapsedNeverGoesBack == ExampleSpec => ElapsedMonotone
<1>1. ExampleInit => ElapsedInv
  <2> SUFFICES ASSUME ExampleInit PROVE ElapsedInv
    OBVIOUS
  <2>1. IsEmpty(tEngineTlmPipe)
    BY DEF ExampleInit, QueueInit, IsEmpty
  <2>2. QED BY <2>1 DEF ExampleInit, ElapsedInv
<1>2. ExampleInv /\ ElapsedInv /\ [ExampleNext]_exampleVars
        => ElapsedInv' /\ [clock < ClockRange => tMillis' >= tMillis]_exampleVars
  BY ElapsedSteps
<1>3. ElapsedMonotone <=> [][clock < ClockRange => tMillis' >= tMillis]_exampleVars
  BY PTL DEF ElapsedMonotone, ClockRange
<1>4. QED BY <1>1, <1>2, <1>3, ExampleStarts, ExampleSteps, PTL DEF ExampleSpec

-----------------------------------------------------------------------------
(* The types that make FreshLights inductive.                              *)
LightInv ==
  /\ ptCurrentState \in Lights \cup {NULL}
  /\ tStates \in [Lights -> [bLinked : BOOLEAN, tSome : Lights \cup {NULL}, iCounter : 0..ExitCount]]
  /\ FreshLights
  /\ lightMain = 0 => \A l \in Lights : tStates[l].iCounter = 0
  /\ lightMain \in Nat

(* The equality test of ShouldExit cannot be stepped over, and no light    *)
(* keeps a count for its next turn.                                        *)
THEOREM LightsEnterFresh == LightSpec => []FreshLights
<1> USE DEF ExitCount
<1>1. LightInit => LightInv
  BY DEF LightInit, LightInv, FreshLights, Static
<1>2. LightInv /\ [LightNext]_lightVars => LightInv'
  <2> SUFFICES ASSUME LightInv, [LightNext]_lightVars PROVE LightInv'
    OBVIOUS
  <2> USE DEF LightInv
  <2>1. CASE JunoSm_Init
    <3>1. \A l \in Lights : tStates'[l].iCounter = 0
      BY <2>1 DEF JunoSm_Init
    <3>2. FreshLights'
      BY <3>1 DEF FreshLights
    <3>3. lightMain' = 1 /\ ptCurrentState' \in Lights \cup {NULL} /\ tStates' = tStates
      BY <2>1 DEF JunoSm_Init, Lights
    <3>4. QED BY <3>2, <3>3
  <2>2. CASE InitState
    <3>1. lightMain \in 1..3 /\ lightMain' = lightMain + 1
      BY <2>2 DEF InitState, LightOrder
    <3>2. lightMain' \in Nat /\ lightMain' # 0
      BY <3>1
    <3>3. PICK l \in Lights, s \in Lights :
              tStates' = [tStates EXCEPT ![l].bLinked = TRUE, ![l].tSome = s]
      <4>1. LightOrder[lightMain] \in Lights
        BY <3>1 DEF Lights, LightOrder
      <4>2. NextLight(LightOrder[lightMain]) \in Lights
        BY <4>1 DEF NextLight, Lights
      <4>3. QED BY <2>2, <4>1, <4>2, Zenon DEF InitState, JunoSm_StateInit
    <3>4. /\ UNCHANGED ptCurrentState
          /\ tStates' \in [Lights -> [bLinked : BOOLEAN, tSome : Lights \cup {NULL}, iCounter : 0..ExitCount]]
          /\ \A t \in Lights : tStates'[t].iCounter = tStates[t].iCounter
      BY <2>2, <3>3 DEF InitState
    <3>5. FreshLights'
      BY <3>4 DEF FreshLights
    <3>6. QED BY <3>2, <3>4, <3>5
  <2>3. CASE StateAction
    BY <2>3 DEF StateAction, Round, ShouldExit, JunoSm_Verify, FreshLights, Lights
  <2>4. CASE Transition
    BY <2>4 DEF Transition, JunoSm_TransitionState, Round, JunoSm_Verify, FreshLights, Lights
  <2>5. CASE UNCHANGED lightVars
    BY <2>5 DEF lightVars, FreshLights
  <2>6. QED BY <2>1, <2>2, <2>3, <2>4, <2>5 DEF LightNext
<1>3. LightInv => FreshLights
  BY DEF LightInv
<1>4. QED BY <1>1, <1>2, <1>3, PTL DEF LightSpec

-----------------------------------------------------------------------------
(* The index.                                                              *)
Text == Texts \cup {Absent}
Index ==
  [fileHashes          : [Files -> Text],
   functionDefinitions : SUBSET [file : Files, text : Text],
   vtableAssignments   : SUBSET [file : Files, assignmentFile : Files]]
Consistent == { idx \in Index : HashVouches(idx) /\ LocationsDefined(idx) }

Scan == [kind : {"full", "load"}, todo : SUBSET Files, at : Files \cup {Absent},
         text : Text \cup {Unread}, deferred : SUBSET (Positional \cap Files), changed : BOOLEAN]

(* Whatever is kept of the index is consistent, in memory and on disk, and *)
(* only files initialised by position wait for the end of a pass.          *)
IndexerInv ==
  /\ disk \in [Files -> Text]
  /\ index \in Consistent
  /\ cacheFile \in Consistent \cup {NoCache}
  /\ saves \in Seq([snapshot : Consistent, alone : BOOLEAN])
  /\ jobs \in Seq([file : Files, text : Text \cup {Unread}])
  /\ scan.kind # "none" => scan \in Scan

(* Dropping a file's definitions drops what leads to them.                 *)
LEMMA RemovedConsistent ==
  ASSUME NEW idx \in Consistent, NEW f
  PROVE  removeFileRecords(idx, f) \in Consistent
<1> DEFINE new == removeFileRecords(idx, f)
<1>1. /\ idx \in Index /\ HashVouches(idx) /\ LocationsDefined(idx)
  BY DEF Consistent
<1>2. /\ new.fileHashes = idx.fileHashes
      /\ new.functionDefinitions = { d \in idx.functionDefinitions : d.file # f }
      /\ new.vtableAssignments = { l \in idx.vtableAssignments : l.file # f }
      /\ new \in Index
  BY <1>1 DEF Index, removeFileRecords
<1> HIDE DEF new
<1>3. HashVouches(new)
  BY <1>1, <1>2 DEF HashVouches
<1>4. LocationsDefined(new)
  BY <1>1, <1>2 DEF LocationsDefined
<1>5. QED BY <1>2, <1>3, <1>4 DEF Consistent, new

(* A file without definitions may lose its hash.                           *)
LEMMA ForgottenConsistent ==
  ASSUME NEW idx \in Consistent, NEW f \in Files
  PROVE  Forgotten(idx, f) \in Consistent
<1> DEFINE old == removeFileRecords(idx, f)
           new == Forgotten(idx, f)
<1>1. old \in Index /\ HashVouches(old) /\ LocationsDefined(old)
  BY RemovedConsistent DEF Consistent
<1>2. \A d \in old.functionDefinitions : d.file # f /\ d.file \in Files
  BY <1>1 DEF Index, Consistent, removeFileRecords
<1>3. new = [old EXCEPT !.fileHashes[f] = Absent]
  BY DEF Forgotten
<1> HIDE DEF old, new
<1>4. /\ new.fileHashes = [old.fileHashes EXCEPT ![f] = Absent]
      /\ new.functionDefinitions = old.functionDefinitions
      /\ new.vtableAssignments = old.vtableAssignments
      /\ new \in Index
  BY <1>1, <1>3 DEF Index, Text
<1>5. HashVouches(new)
  <2> SUFFICES ASSUME NEW d \in old.functionDefinitions
               PROVE  [file |-> d.file, text |-> new.fileHashes[d.file]] \in old.functionDefinitions
    BY <1>4 DEF HashVouches
  <2>1. new.fileHashes[d.file] = old.fileHashes[d.file]
    BY <1>1, <1>2, <1>4 DEF Index
  <2>2. QED BY <1>1, <2>1 DEF HashVouches
<1>6. LocationsDefined(new)
  BY <1>1, <1>4 DEF LocationsDefined
<1>7. QED BY <1>4, <1>5, <1>6 DEF Consistent, new

(* An assignment is recorded at a file that has definitions, or at itself. *)
LEMMA LocationResolved ==
  ASSUME NEW idx \in Index, NEW f \in Files
  PROVE  LET l == resolveDefinitionLocation(idx, f) IN
         /\ l \in [file : Files, assignmentFile : Files] /\ l.assignmentFile = f
         /\ l.file = f \/ \E d \in idx.functionDefinitions : d.file = l.file
BY DEF Index, resolveDefinitionLocation

LEMMA MergedConsistent ==
  ASSUME NEW idx \in Consistent, NEW f \in Files, NEW text \in Text
  PROVE  mergeInto(idx, f, text) \in Consistent
<1> DEFINE new == mergeInto(idx, f, text)
           own == [file |-> f, text |-> text]
           l   == resolveDefinitionLocation(idx, f)
<1>1. idx \in Index /\ HashVouches(idx) /\ LocationsDefined(idx)
  BY DEF Consistent
<1>2. /\ l \in [file : Files, assignmentFile : Files] /\ l.assignmentFile = f
      /\ l.file = f \/ \E d \in idx.functionDefinitions : d.file = l.file
  BY <1>1, LocationResolved
<1>3. /\ new.fileHashes = [idx.fileHashes EXCEPT ![f] = text]
      /\ new.functionDefinitions = idx.functionDefinitions \cup {own}
      /\ new.vtableAssignments \in {idx.vtableAssignments, idx.vtableAssignments \cup {l}}
      /\ new = [fileHashes |-> new.fileHashes, functionDefinitions |-> new.functionDefinitions,
                vtableAssignments |-> new.vtableAssignments]
  BY DEF mergeInto
<1> HIDE DEF new, l
<1>4. new \in Index
  <2>1. new.fileHashes \in [Files -> Text]
    BY <1>1, <1>3 DEF Index
  <2>2. new.functionDefinitions \in SUBSET [file : Files, text : Text]
    BY <1>1, <1>3 DEF Index
  <2>3. new.vtableAssignments \in SUBSET [file : Files, assignmentFile : Files]
    BY <1>1, <1>2, <1>3 DEF Index
  <2>4. QED BY <1>3, <2>1, <2>2, <2>3 DEF Index
<1>5. HashVouches(new)
  <2> SUFFICES ASSUME NEW d \in new.functionDefinitions
               PROVE  [file |-> d.file, text |-> new.fileHashes[d.file]] \in new.functionDefinitions
    BY DEF HashVouches
  <2>1. d.file \in Files /\ new.fileHashes[d.file] = IF d.file = f THEN text ELSE idx.fileHashes[d.file]
    BY <1>1, <1>3, <1>4 DEF Index
  <2>2. CASE d.file = f
    BY <1>3, <2>1, <2>2
  <2>3. CASE d.file # f
    <3>1. d \in idx.functionDefinitions
      BY <1>3, <2>3
    <3>2. QED BY <1>1, <1>3, <2>1, <2>3, <3>1 DEF HashVouches
  <2>4. QED BY <2>2, <2>3
<1>6. LocationsDefined(new)
  <2> SUFFICES ASSUME NEW m \in new.vtableAssignments
               PROVE  \/ \E d \in new.functionDefinitions : d.file = m.file
                      \/ m.file = m.assignmentFile /\ m.file \in Positional
    BY DEF LocationsDefined
  <2>1. CASE m = l
    <3>1. own \in new.functionDefinitions /\ own.file = f
      BY <1>3
    <3>2. \A d \in idx.functionDefinitions : d \in new.functionDefinitions
      BY <1>3
    <3> HIDE DEF own
    <3>3. QED BY <1>2, <2>1, <3>1, <3>2
  <2>2. CASE m \in idx.vtableAssignments
    BY <1>1, <1>3, <2>2 DEF LocationsDefined
  <2>3. QED BY <1>3, <2>1, <2>2
<1>7. QED BY <1>4, <1>5, <1>6 DEF Consistent, new

LEMMA IndexedConsistent ==
  ASSUME NEW idx \in Consistent, NEW f \in Files, NEW text \in Text
  PROVE  indexFile(idx, f, text) \in Consistent
BY MergedConsistent DEF indexFile

(* What waited for the end of the pass leads to a file with definitions,   *)
(* or to itself.                                                           *)
LEMMA DeferredConsistent ==
  ASSUME NEW idx \in Consistent, NEW D \in SUBSET (Positional \cap Files)
  PROVE  resolveDeferred(idx, D) \in Consistent
<1> DEFINE new == resolveDeferred(idx, D)
           more == { resolveDefinitionLocation(idx, f) : f \in D }
<1>1. idx \in Index /\ HashVouches(idx) /\ LocationsDefined(idx)
  BY DEF Consistent
<1>2. \A l \in more : /\ l \in [file : Files, assignmentFile : Files]
                      /\ \/ \E d \in idx.functionDefinitions : d.file = l.file
                         \/ l.file = l.assignmentFile /\ l.file \in Positional
  <2> SUFFICES ASSUME NEW f \in D, NEW l, l = resolveDefinitionLocation(idx, f)
               PROVE  /\ l \in [file : Files, assignmentFile : Files]
                      /\ \/ \E d \in idx.functionDefinitions : d.file = l.file
                         \/ l.file = l.assignmentFile /\ l.file \in Positional
    OBVIOUS
  <2>1. f \in Files /\ f \in Positional
    OBVIOUS
  <2>2. QED BY <1>1, <2>1, LocationResolved
<1>3. new = [idx EXCEPT !.vtableAssignments = @ \cup more]
  BY DEF resolveDeferred
<1> HIDE DEF new, more
<1>4. /\ new.fileHashes = idx.fileHashes
      /\ new.functionDefinitions = idx.functionDefinitions
      /\ new.vtableAssignments = idx.vtableAssignments \cup more
      /\ new \in Index
  BY <1>1, <1>2, <1>3 DEF Index
<1>5. HashVouches(new)
  BY <1>1, <1>4 DEF HashVouches
<1>6. LocationsDefined(new)
  BY <1>1, <1>2, <1>4 DEF LocationsDefined
<1>7. QED BY <1>4, <1>5, <1>6 DEF Consistent, new

LEMMA EmptyConsistent == Empty \in Consistent
<1>1. Empty \in Index
  BY DEF Empty, Index, Text
<1>2. QED BY <1>1 DEF Empty, Consistent, HashVouches, LocationsDefined

(* The two things about sequences that the steps need.                     *)
LEMMA OfSequence ==
  ASSUME NEW S, NEW s \in Seq(S)
  PROVE  DOMAIN s = 1..Len(s) /\ Len(s) \in Nat /\ \A i \in DOMAIN s : s[i] \in S
OBVIOUS

LEMMA Removed ==
  ASSUME NEW S, NEW s \in Seq(S), NEW i \in DOMAIN s
  PROVE  RemoveAt(s, i) \in Seq(S)
<1>1. i \in 1..Len(s) /\ Len(s) \in Nat
  OBVIOUS
<1>2. SubSeq(s, 1, i - 1) \in Seq(S) /\ SubSeq(s, i + 1, Len(s)) \in Seq(S)
  BY <1>1
<1>3. QED BY <1>2 DEF RemoveAt

(* A snapshot of a consistent index joins those in flight.                 *)
LEMMA SavingConsistent ==
  ASSUME NEW idx \in Consistent, saves \in Seq([snapshot : Consistent, alone : BOOLEAN])
  PROVE  Saving(idx) \in Seq([snapshot : Consistent, alone : BOOLEAN])
<1> DEFINE S == [snapshot : Consistent, alone : BOOLEAN]
           shared == [i \in DOMAIN saves |-> [saves[i] EXCEPT !.alone = FALSE]]
<1>0. saves \in Seq(S)
  OBVIOUS
<1>1. DOMAIN saves = 1..Len(saves) /\ Len(saves) \in Nat /\ \A i \in DOMAIN saves : saves[i] \in S
  <2> HIDE DEF S
  <2>1. QED BY <1>0, OfSequence
<1>2. \A i \in DOMAIN saves : saves[i] \in S
  BY <1>1
<1>3. shared \in [1..Len(saves) -> S]
  <2>1. \A i \in DOMAIN saves : [saves[i] EXCEPT !.alone = FALSE] \in S
    BY <1>2
  <2> HIDE DEF S
  <2>2. QED BY <1>1, <2>1
<1>4. shared \in Seq(S)
  BY <1>1, <1>3
<1>5. [snapshot |-> idx, alone |-> saves = << >>] \in S
  OBVIOUS
<1> HIDE DEF S, shared
<1>6. Append(shared, [snapshot |-> idx, alone |-> saves = << >>]) \in Seq(S)
  BY <1>4, <1>5
<1>7. QED BY <1>6 DEF Saving, S, shared

-----------------------------------------------------------------------------
LEMMA IndexerStarts == IndexerInit => IndexerInv
<1> SUFFICES ASSUME IndexerInit PROVE IndexerInv
  OBVIOUS
<1>1. disk \in [Files -> Text] /\ index \in Consistent
  BY EmptyConsistent DEF IndexerInit, Text
<1>2. saves \in Seq([snapshot : Consistent, alone : BOOLEAN])
  BY DEF IndexerInit
<1>3. jobs \in Seq([file : Files, text : Text \cup {Unread}])
  BY DEF IndexerInit
<1>4. scan.kind = "none" /\ cacheFile = NoCache
  BY DEF IndexerInit, NoScan
<1>5. QED BY <1>1, <1>2, <1>3, <1>4 DEF IndexerInv

(* Once read, a file is merged and the pass goes on with the next.         *)
LEMMA ScanKept ==
  ASSUME scan \in Scan, NEW f \in Files
  PROVE  /\ [scan EXCEPT !.todo = @ \ {f}] \in Scan
         /\ [scan EXCEPT !.todo = @ \ {f}, !.at = f, !.text = Unread, !.changed = TRUE] \in Scan
         /\ \A t \in Text : [scan EXCEPT !.text = t] \in Scan
         /\ [scan EXCEPT !.at = Absent, !.deferred = @ \cup (Positional \cap {f})] \in Scan
         /\ [scan EXCEPT !.at = Absent, !.deferred = @] \in Scan
<1> USE DEF Scan
<1>1. [scan EXCEPT !.todo = @ \ {f}] \in Scan
  OBVIOUS
<1>2. [scan EXCEPT !.todo = @ \ {f}, !.at = f, !.text = Unread, !.changed = TRUE] \in Scan
  OBVIOUS
<1>3. \A t \in Text : [scan EXCEPT !.text = t] \in Scan
  OBVIOUS
<1>4. [scan EXCEPT !.at = Absent, !.deferred = @ \cup (Positional \cap {f})] \in Scan
  OBVIOUS
<1>5. [scan EXCEPT !.at = Absent, !.deferred = @] \in Scan
  OBVIOUS
<1>6. QED BY <1>1, <1>2, <1>3, <1>4, <1>5

LEMMA ScanBegins ==
  ASSUME NEW kind \in {"full", "load"}
  PROVE  Scanning(kind) \in Scan
BY DEF Scanning, Scan, scanFiles

LEMMA ScanSteps == IndexerInv /\ ScanStep => IndexerInv'
<1> SUFFICES ASSUME IndexerInv, ScanStep PROVE IndexerInv'
  OBVIOUS
<1>1. /\ disk \in [Files -> Text] /\ index \in Consistent /\ cacheFile \in Consistent \cup {NoCache}
      /\ saves \in Seq([snapshot : Consistent, alone : BOOLEAN])
      /\ jobs \in Seq([file : Files, text : Text \cup {Unread}])
      /\ scan.kind # "none" => scan \in Scan
  BY DEF IndexerInv
<1>2. UNCHANGED <<disk, jobs, cacheFile>>
  BY DEF ScanStep, ScanMerges, ScanFinishes, ScanSkips, ScanReads
<1>3. ASSUME NEW f \in Files, ScanSkips(f) PROVE IndexerInv'
  <2>1. scan \in Scan
    BY <1>1, <1>3 DEF ScanSkips, Skips
  <2>2. scan' \in Scan /\ UNCHANGED <<index, saves>>
    BY <1>3, <2>1, ScanKept DEF ScanSkips
  <2>3. QED BY <1>1, <1>2, <2>2 DEF IndexerInv
<1>4. ASSUME NEW f \in Files, ScanReads(f) PROVE IndexerInv'
  <2>1. scan \in Scan
    BY <1>1, <1>4 DEF ScanReads
  <2>2. scan' \in Scan /\ saves' = saves
    BY <1>4, <2>1, ScanKept DEF ScanReads
  <2>3. index' \in Consistent
    BY <1>1, <1>4, RemovedConsistent DEF ScanReads
  <2>4. QED BY <1>1, <1>2, <2>2, <2>3 DEF IndexerInv
<1>5. CASE ScanMerges
  <2>1. scan \in Scan /\ scan.at \in Files /\ scan.text \in Text
    <3>1. scan \in Scan
      BY <1>1, <1>5 DEF ScanMerges
    <3>2. QED BY <1>5, <3>1 DEF ScanMerges, Scan
  <2>2. index' \in Consistent /\ saves' = saves
    BY <1>1, <1>5, <2>1, IndexedConsistent DEF ScanMerges
  <2>3. scan' \in Scan
    <3>1. \/ scan' = [scan EXCEPT !.at = Absent, !.deferred = @]
          \/ scan' = [scan EXCEPT !.at = Absent, !.deferred = @ \cup (Positional \cap {scan.at})]
      BY <1>5 DEF ScanMerges
    <3>2. QED BY <2>1, <3>1, ScanKept
  <2>4. QED BY <1>1, <1>2, <2>2, <2>3 DEF IndexerInv
<1>6. CASE ScanFinishes
  <2>1. scan'.kind = "none"
    BY <1>6 DEF ScanFinishes, NoScan
  <2>2. index' \in Consistent /\ saves' \in Seq([snapshot : Consistent, alone : BOOLEAN])
    <3>1. scan.deferred \in SUBSET (Positional \cap Files)
      BY <1>1, <1>6 DEF ScanFinishes, Scan
    <3>2. CASE scan.kind = "full" \/ scan.changed
      <4>1. index' = resolveDeferred(index, scan.deferred) /\ saves' = Saving(index')
        BY <1>6, <3>2 DEF ScanFinishes
      <4>2. index' \in Consistent
        BY <1>1, <3>1, <4>1, DeferredConsistent
      <4>3. \A idx \in Consistent : Saving(idx) \in Seq([snapshot : Consistent, alone : BOOLEAN])
        BY <1>1, SavingConsistent
      <4>4. QED BY <4>1, <4>2, <4>3
    <3>3. CASE ~(scan.kind = "full" \/ scan.changed)
      BY <1>1, <1>6, <3>3 DEF ScanFinishes
    <3>4. QED BY <3>2, <3>3
  <2>3. QED BY <1>1, <1>2, <2>1, <2>2 DEF IndexerInv
<1>7. QED BY <1>3, <1>4, <1>5, <1>6 DEF ScanStep

LEMMA JobSteps == IndexerInv /\ JobStep => IndexerInv'
<1> SUFFICES ASSUME IndexerInv, JobStep PROVE IndexerInv'
  OBVIOUS
<1> DEFINE Js == [file : Files, text : Text \cup {Unread}]
<1>1. /\ disk \in [Files -> Text] /\ index \in Consistent /\ cacheFile \in Consistent \cup {NoCache}
      /\ saves \in Seq([snapshot : Consistent, alone : BOOLEAN])
      /\ jobs \in Seq(Js)
      /\ scan.kind # "none" => scan \in Scan
  BY DEF IndexerInv
<1>2. UNCHANGED <<disk, cacheFile, saves>>
  BY DEF JobStep, Reindexed, Read
<1>3. DOMAIN jobs = 1..Len(jobs) /\ \A i \in DOMAIN jobs : jobs[i] \in Js
  <2> HIDE DEF Js
  <2>1. QED BY <1>1, OfSequence
<1>4. ASSUME NEW i \in DOMAIN jobs, Reindexed(i) PROVE IndexerInv'
  <2> DEFINE f == jobs[i].file
             text == jobs[i].text
             D == IF text = Absent THEN {} ELSE Positional \cap {f}
  <2>1. f \in Files /\ text \in Text
    BY <1>3, <1>4 DEF Reindexed
  <2>2. index' = resolveDeferred(indexFile(index, f, text), D)
    BY <1>4 DEF Reindexed
  <2>3. D \in SUBSET (Positional \cap Files)
    BY <2>1
  <2> HIDE DEF f, text, D
  <2>4. index' \in Consistent
    <3>1. indexFile(index, f, text) \in Consistent
      BY <1>1, <2>1, IndexedConsistent
    <3>2. QED BY <2>2, <2>3, <3>1, DeferredConsistent
  <2>5. jobs' \in Seq(Js) /\ scan' = scan
    <3> HIDE DEF Js
    <3>1. QED BY <1>1, <1>4, Removed DEF Reindexed
  <2>6. QED BY <1>1, <1>2, <2>4, <2>5 DEF IndexerInv
<1>5. CASE Read
  <2>1. UNCHANGED index
    BY <1>5 DEF Read
  <2>2. jobs' \in Seq(Js) /\ (scan'.kind # "none" => scan' \in Scan)
    <3>1. ASSUME NEW i \in DOMAIN jobs, jobs' = [jobs EXCEPT ![i].text = disk[jobs[i].file]], scan' = scan
          PROVE  jobs' \in Seq(Js) /\ (scan'.kind # "none" => scan' \in Scan)
      <4>1. [jobs[i] EXCEPT !.text = disk[jobs[i].file]] \in Js
        BY <1>1, <1>3
      <4>2. jobs' = [jobs EXCEPT ![i] = [jobs[i] EXCEPT !.text = disk[jobs[i].file]]]
        BY <3>1
      <4> HIDE DEF Js
      <4>3. jobs' \in Seq(Js)
        BY <1>1, <4>1, <4>2
      <4>4. QED BY <1>1, <3>1, <4>3
    <3>2. ASSUME scan.kind # "none", scan.at # Absent, scan' = [scan EXCEPT !.text = disk[scan.at]], jobs' = jobs
          PROVE  jobs' \in Seq(Js) /\ (scan'.kind # "none" => scan' \in Scan)
      <4>1. scan \in Scan /\ scan.at \in Files
        BY <1>1, <3>2 DEF Scan
      <4>2. disk[scan.at] \in Text
        BY <1>1, <4>1
      <4>3. QED BY <1>1, <3>2, <4>1, <4>2, ScanKept
    <3>3. QED BY <1>5, <3>1, <3>2 DEF Read
  <2>3. QED BY <1>1, <1>2, <2>1, <2>2 DEF IndexerInv
<1>6. QED BY <1>4, <1>5 DEF JobStep

LEMMA SaveSteps == IndexerInv /\ SaveStep => IndexerInv'
<1> SUFFICES ASSUME IndexerInv, SaveStep PROVE IndexerInv'
  OBVIOUS
<1> DEFINE Ss == [snapshot : Consistent, alone : BOOLEAN]
<1>1. index \in Consistent /\ cacheFile \in Consistent \cup {NoCache} /\ saves \in Seq(Ss)
  BY DEF IndexerInv
<1>2. UNCHANGED <<disk, index, jobs, scan>>
  BY DEF SaveStep, Save, TimerFires
<1>3. cacheFile' \in Consistent \cup {NoCache} /\ saves' \in Seq(Ss)
  <2>1. ASSUME NEW i \in DOMAIN saves, Save(i) PROVE cacheFile' \in Consistent \cup {NoCache} /\ saves' \in Seq(Ss)
    <3>1. \A j \in DOMAIN saves : saves[j] \in Ss
      <4> HIDE DEF Ss
      <4>1. QED BY <1>1, OfSequence
    <3>2. saves[i].snapshot \in Consistent
      BY <3>1
    <3>3. cacheFile' \in {saves[i].snapshot, cacheFile, NoCache} /\ saves' = RemoveAt(saves, i)
      BY <2>1 DEF Save
    <3> HIDE DEF Ss
    <3>4. QED BY <1>1, <3>2, <3>3, Removed
  <2>2. CASE TimerFires
    BY <1>1, <2>2, SavingConsistent DEF TimerFires
  <2>3. QED BY <2>1, <2>2 DEF SaveStep
<1>4. QED BY <1>2, <1>3 DEF IndexerInv

LEMMA EventSteps ==
  ASSUME IndexerInv, NEW f \in Files, Event(f)
  PROVE  IndexerInv'
<1> DEFINE Js == [file : Files, text : Text \cup {Unread}]
<1>1. index \in Consistent /\ jobs \in Seq(Js)
  BY DEF IndexerInv
<1>2. index' \in Consistent /\ UNCHANGED <<disk, scan, saves, cacheFile>>
  BY <1>1, ForgottenConsistent DEF Event, ReindexFile, RemoveFile
<1>3. jobs' \in Seq(Js)
  <2>1. [file |-> f, text |-> Unread] \in Js
    OBVIOUS
  <2> HIDE DEF Js
  <2>2. Append(jobs, [file |-> f, text |-> Unread]) \in Seq(Js)
    BY <1>1, <2>1
  <2>3. QED BY <1>1, <2>2 DEF Event, ReindexFile, RemoveFile
<1>4. QED BY <1>2, <1>3 DEF IndexerInv

(* A file that cannot be read is as one that is not there.                 *)
LEMMA ReadFailsSteps == IndexerInv /\ ReadFails => IndexerInv'
<1> SUFFICES ASSUME IndexerInv, ReadFails PROVE IndexerInv'
  OBVIOUS
<1> DEFINE Js == [file : Files, text : Text \cup {Unread}]
<1>1. jobs \in Seq(Js) /\ (scan.kind # "none" => scan \in Scan) /\ Absent \in Text
  BY DEF IndexerInv, Text
<1>2. UNCHANGED <<disk, index, saves, cacheFile>>
  BY DEF ReadFails
<1>3. ASSUME NEW i \in DOMAIN jobs, jobs' = [jobs EXCEPT ![i].text = Absent], scan' = scan
      PROVE  jobs' \in Seq(Js) /\ (scan'.kind # "none" => scan' \in Scan)
  <2>1. jobs[i] \in Js
    <3> HIDE DEF Js
    <3>1. QED BY <1>1, OfSequence
  <2>2. [jobs[i] EXCEPT !.text = Absent] \in Js
    BY <1>1, <2>1
  <2>3. jobs' = [jobs EXCEPT ![i] = [jobs[i] EXCEPT !.text = Absent]]
    BY <1>3
  <2> HIDE DEF Js
  <2>4. QED BY <1>1, <1>3, <2>2, <2>3
<1>4. ASSUME scan.kind # "none", scan.at # Absent, scan' = [scan EXCEPT !.text = Absent], jobs' = jobs
      PROVE  jobs' \in Seq(Js) /\ (scan'.kind # "none" => scan' \in Scan)
  <2>1. scan \in Scan /\ scan.at \in Files
    BY <1>1, <1>4 DEF Scan
  <2>2. QED BY <1>1, <1>4, <2>1, ScanKept
<1>5. jobs' \in Seq(Js) /\ (scan'.kind # "none" => scan' \in Scan)
  BY <1>3, <1>4 DEF ReadFails
<1>6. QED BY <1>2, <1>5 DEF IndexerInv

(* The extension begins and ends, and files change.                        *)
LEMMA WorldSteps ==
  ASSUME IndexerInv, Activate \/ ReindexWorkspace \/ Watch \/ Kill \/ \E f \in Files : Change(f)
  PROVE  IndexerInv'
<1>1. CASE Activate
  <2>1. index' \in Consistent
    BY <1>1, EmptyConsistent DEF Activate, IndexerInv
  <2>2. scan' \in Scan
    BY <1>1, ScanBegins DEF Activate
  <2>3. QED BY <1>1, <2>1, <2>2 DEF Activate, IndexerInv
<1>2. CASE ReindexWorkspace
  <2>1. scan' \in Scan
    BY <1>2, ScanBegins DEF ReindexWorkspace
  <2>2. QED BY <1>2, <2>1 DEF ReindexWorkspace, IndexerInv
<1>3. CASE Watch
  BY <1>3 DEF Watch, IndexerInv
<1>4. CASE Kill
  <2>1. saves' = << >> /\ jobs' = << >> /\ scan'.kind = "none" /\ index' \in Consistent
    BY <1>4, EmptyConsistent DEF Kill, NoScan
  <2>2. cacheFile' \in Consistent \cup {NoCache} /\ disk' \in [Files -> Text]
    BY <1>4 DEF Kill, IndexerInv
  <2>3. /\ << >> \in Seq([snapshot : Consistent, alone : BOOLEAN])
        /\ << >> \in Seq([file : Files, text : Text \cup {Unread}])
    OBVIOUS
  <2>4. QED BY <2>1, <2>2, <2>3 DEF IndexerInv
<1>5. ASSUME NEW f \in Files, Change(f) PROVE IndexerInv'
  <2>1. disk' \in [Files -> Text]
    BY <1>5 DEF Change, IndexerInv, Text
  <2>2. QED BY <1>5, <2>1 DEF Change, IndexerInv
<1>6. QED BY <1>1, <1>2, <1>3, <1>4, <1>5

(* For all files and texts, and any number of changes, reads and saves     *)
(* under way: what is in memory, being saved or in the cache file is       *)
(* consistent.                                                             *)
THEOREM IndexStaysConsistent == IndexerSpec => []IndexConsistent
<1>1. IndexerInv => IndexConsistent
  <2> SUFFICES ASSUME IndexerInv, NEW idx \in Stored PROVE HashVouches(idx) /\ LocationsDefined(idx)
    BY DEF IndexConsistent
  <2>1. idx \in Consistent
    <3>1. \A i \in DOMAIN saves : saves[i] \in [snapshot : Consistent, alone : BOOLEAN]
      BY OfSequence DEF IndexerInv
    <3>2. \A i \in DOMAIN saves : saves[i].snapshot \in Consistent
      BY <3>1
    <3>3. QED BY <3>2 DEF Stored, IndexerInv
  <2>2. QED BY <2>1 DEF Consistent
<1>2. IndexerInv /\ [IndexerNext]_indexerVars => IndexerInv'
  <2>1. UNCHANGED indexerVars /\ IndexerInv => IndexerInv'
    BY DEF indexerVars, IndexerInv
  <2>2. QED BY <2>1, ScanSteps, JobSteps, SaveSteps, EventSteps, WorldSteps, ReadFailsSteps DEF IndexerNext
<1>3. QED BY <1>1, <1>2, IndexerStarts, PTL DEF IndexerSpec
=============================================================================
