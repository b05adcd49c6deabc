----------------------------- MODULE UdpProofs ------------------------------
(***************************************************************************)
(* The two-thread application, for every capacity of the pipes and of the  *)
(* socket and however many messages and strangers' datagrams there are:    *)
(* its pipes never overflow, it exits cleanly, and messages keep their     *)
(* order through both threads and the network.                             *)
(***************************************************************************)
EXTENDS UdpThreads, SequenceTheorems, TLAPS

Starting == {"udpSender", "udpReceiver", "wire", "spawn1"}

(* Which threads run at each point of main, what a running thread has set  *)
(* up, and what it has given back when it has returned.                    *)
Lifecycle ==
  /\ main \in Starting => pc[1] = "none"
  /\ main \in Starting \cup {"spawn2", "joinOnly1"} => pc[2] = "none"
  /\ main \in {"join2", "exit0"} => pc[1] = "returned"
  /\ main = "exit0" => pc[2] = "returned"
  /\ \A t \in Threads : pc[t] = "returned" => ~open[t]
  /\ \A t \in Threads : pc[t] \notin {"none", "onStart"} => subscribed[t]

HistoriesOK == monitored \in Seq(Alien..MaxSeq) /\ processed \in Seq(Alien..MaxSeq)

(* Loop has looked at the bound before SenderApp composes a message.       *)
RoomForOne == pc[1] = "first" => uSeqNum < MaxSeq

Running == TypeOK /\ HistoriesOK /\ Lifecycle /\ RoomForOne /\ BridgeNeverRefused

-----------------------------------------------------------------------------
(* Bounded sequences.                                                      *)
LEMMA BoundedIsSeq ==
  ASSUME NEW S, NEW n \in Nat
  PROVE  BoundedSeq(S, n) = {s \in Seq(S) : Len(s) <= n}
<1>1. ASSUME NEW s \in BoundedSeq(S, n) PROVE s \in Seq(S) /\ Len(s) <= n
  <2>1. PICK m \in 0..n : s \in [1..m -> S]
    BY DEF BoundedSeq, SeqOf
  <2>2. m \in Nat
    OBVIOUS
  <2>3. s \in Seq(S)
    BY <2>1, <2>2
  <2>4. QED BY <2>1, <2>2, <2>3, LenProperties
<1>2. ASSUME NEW s \in Seq(S), Len(s) <= n PROVE s \in BoundedSeq(S, n)
  <2>1. Len(s) \in 0..n /\ s \in [1..Len(s) -> S]
    BY <1>2, LenProperties
  <2>2. QED BY <2>1 DEF BoundedSeq, SeqOf
<1>3. QED BY <1>1, <1>2

LEMMA BoundedAppend ==
  ASSUME NEW S, NEW n \in Nat, NEW s \in BoundedSeq(S, n), Len(s) < n, NEW e \in S
  PROVE  Append(s, e) \in BoundedSeq(S, n)
<1> DEFINE B == {q \in Seq(S) : Len(q) <= n}
<1>0. BoundedSeq(S, n) = B
  BY BoundedIsSeq
<1>1. s \in Seq(S) /\ Len(s) \in Nat
  BY <1>0, LenProperties
<1>2. Append(s, e) \in Seq(S) /\ Len(Append(s, e)) = Len(s) + 1
  BY <1>1, AppendProperties
<1>3. QED BY <1>0, <1>1, <1>2

LEMMA BoundedTail ==
  ASSUME NEW S, NEW n \in Nat, NEW s \in BoundedSeq(S, n), s # << >>
  PROVE  Tail(s) \in BoundedSeq(S, n) /\ Head(s) \in S
<1> DEFINE B == {q \in Seq(S) : Len(q) <= n}
<1>0. BoundedSeq(S, n) = B
  BY BoundedIsSeq
<1>1. s \in Seq(S) /\ Len(s) \in Nat /\ Len(s) <= n
  BY <1>0, LenProperties
<1>2. Tail(s) \in Seq(S) /\ Len(Tail(s)) = Len(s) - 1 /\ Head(s) \in S
  BY <1>1, HeadTailProperties
<1>3. QED BY <1>0, <1>1, <1>2

LEMMA BoundedEmpty ==
  ASSUME NEW S, NEW n \in Nat
  PROVE  << >> \in BoundedSeq(S, n)
<1>1. << >> \in {q \in Seq(S) : Len(q) <= n}
  BY EmptySeq
<1>2. QED BY <1>1, BoundedIsSeq

-----------------------------------------------------------------------------
LEMMA RunningInit == Init => Running
<1> SUFFICES ASSUME Init PROVE Running
  OBVIOUS
<1>1. TypeOK
  BY UdpAssumption, BoundedEmpty DEF Init, TypeOK, Threads
<1>2. HistoriesOK
  BY EmptySeq DEF Init, HistoriesOK
<1>3. QED BY <1>1, <1>2 DEF Init, Running, Lifecycle, RoomForOne, BridgeNeverRefused, Threads, Starting

(* main's steps.                                                           *)
LEMMA RunningMain ==
  ASSUME Running, Main
  PROVE  Running'
<1> USE DEF Running, Threads
<1>1. TypeOK'
  <2> USE DEF TypeOK, apps, seen
  <2>1. ASSUME NEW t \in Threads, NEW here, NEW next \in {"udpReceiver", "wire"},
             JunoUdp_LinuxInit(t, here, next)
        PROVE  TypeOK'
    BY <2>1 DEF JunoUdp_LinuxInit
  <2>2. CASE OpenSocketFails \/ Spawn1Fails \/ Spawn2Fails
    BY <2>2 DEF OpenSocketFails, Spawn1Fails, Spawn2Fails
  <2>3. CASE Wire
    BY <2>3, UdpAssumption DEF Wire
  <2>4. ASSUME NEW t \in Threads, NEW here, NEW next \in {"spawn2", "sleep"}, Spawn(t, here, next)
        PROVE  TypeOK'
    BY <2>4 DEF Spawn
  <2>5. ASSUME NEW t \in Threads, NEW here, NEW next \in {"stop2", "join1"}, Stop(t, here, next)
        PROVE  TypeOK'
    BY <2>5 DEF Stop
  <2>6. ASSUME NEW t \in Threads, NEW here, NEW next \in {"join2", "exit0", "exit1"}, Join(t, here, next)
        PROVE  TypeOK'
    BY <2>6 DEF Join
  <2>7. QED BY <2>1, <2>2, <2>3, <2>4, <2>5, <2>6 DEF Main
<1>2. Lifecycle'
  BY DEF Main, JunoUdp_LinuxInit, OpenSocketFails, Wire, Spawn, Spawn1Fails, Spawn2Fails, Stop,
     Join, apps, seen, TypeOK, Lifecycle, Starting
<1>3. HistoriesOK'
  BY DEF Main, JunoUdp_LinuxInit, OpenSocketFails, Wire, Spawn, Spawn1Fails, Spawn2Fails, Stop,
     Join, apps, seen, HistoriesOK
<1>4. RoomForOne' /\ BridgeNeverRefused'
  BY UdpAssumption DEF Main, JunoUdp_LinuxInit, OpenSocketFails, Wire, Spawn, Spawn1Fails,
     Spawn2Fails, Stop, Join, apps, seen, TypeOK, RoomForOne, BridgeNeverRefused, Lifecycle,
     Starting
<1>5. QED BY <1>1, <1>2, <1>3, <1>4

(* What both threads do alike: OnStart, Loop and OnExit.                   *)
LEMMA RunningScheduler ==
  ASSUME Running, NEW t \in Threads, OnStart(t) \/ Loop(t) \/ OnExit(t)
  PROVE  Running'
<1> USE DEF Running
<1>1. TypeOK'
  <2>1. /\ << >> \in BoundedSeq(Alien..MaxSeq, UDPTH_PIPE_CAPACITY)
        /\ << >> \in BoundedSeq(Short..MaxSeq, NetCapacity)
    BY BoundedEmpty, UdpAssumption
  <2>2. CASE OnStart(t)
    BY <2>1, <2>2, UdpAssumption DEF OnStart, TypeOK, seen
  <2>3. CASE Loop(t)
    BY <2>3 DEF Loop, TypeOK, apps, seen
  <2>4. CASE OnExit(t)
    BY <2>1, <2>4 DEF OnExit, Free, TypeOK, seen
  <2>5. QED BY <2>2, <2>3, <2>4
<1>2. Lifecycle'
  BY DEF OnStart, Loop, OnExit, Free, apps, seen, TypeOK, Lifecycle, Threads, Starting
<1>3. HistoriesOK'
  BY DEF OnStart, Loop, OnExit, apps, seen, HistoriesOK
<1>4. RoomForOne'
  BY UdpAssumption DEF OnStart, Loop, OnExit, apps, seen, TypeOK, RoomForOne, Threads
<1>5. BridgeNeverRefused'
  BY DEF OnStart, Loop, OnExit, apps, seen, TypeOK, BridgeNeverRefused, Threads
<1>6. QED BY <1>1, <1>2, <1>3, <1>4, <1>5

(* SenderApp, refused or not, and MonitorApp.                              *)
LEMMA RunningThread1 ==
  ASSUME Running, SenderRefused \/ SenderOnProcess \/ MonitorOnProcess
  PROVE  Running'
<1> USE DEF Running
<1>1. TypeOK'
  <2>1. << >> \in BoundedSeq(Alien..MaxSeq, UDPTH_PIPE_CAPACITY)
    BY BoundedEmpty, UdpAssumption
  <2>2. CASE SenderRefused
    <3>1. uSeqNum' \in 0..MaxSeq
      BY <2>2, UdpAssumption DEF SenderRefused, RoomForOne, TypeOK
    <3>2. QED BY <2>2, <3>1 DEF SenderRefused, FirstReturns, TypeOK, seen
  <2>3. CASE SenderOnProcess
    <3>1. uSeqNum' \in 0..MaxSeq /\ uSeqNum' \in Alien..MaxSeq /\ uSeqNum' \in Short..MaxSeq
      BY <2>3, UdpAssumption DEF SenderOnProcess, RoomForOne, TypeOK, Alien, Short
    <3>2. subscribed[1] /\ Len(pipe[1]) < UDPTH_PIPE_CAPACITY
      BY <2>3 DEF SenderOnProcess, CanPublish, Lifecycle, Threads
    <3>3. Append(pipe[1], uSeqNum') \in BoundedSeq(Alien..MaxSeq, UDPTH_PIPE_CAPACITY)
      BY <3>1, <3>2, UdpAssumption, BoundedAppend DEF TypeOK, Threads
    <3>4. pipe' \in [Threads -> BoundedSeq(Alien..MaxSeq, UDPTH_PIPE_CAPACITY)]
      BY <2>3, <3>2, <3>3 DEF SenderOnProcess, Published, TypeOK
    <3>5. net' \in BoundedSeq(Short..MaxSeq, NetCapacity)
      <4>1. CASE Len(net) < NetCapacity /\ net' = Append(net, uSeqNum')
        BY <4>1, <3>1, UdpAssumption, BoundedAppend DEF TypeOK
      <4>2. CASE UNCHANGED net
        BY <4>2 DEF TypeOK
      <4>3. QED BY <2>3, <4>1, <4>2 DEF SenderOnProcess, Send
    <3>6. pc' \in [Threads -> {"none", "onStart", "loop", "first", "second", "onExit", "returned"}]
      BY <2>3 DEF SenderOnProcess, Send, FirstReturns, TypeOK
    <3>7. QED BY <2>3, <3>1, <3>4, <3>5, <3>6 DEF SenderOnProcess, TypeOK
  <2>4. CASE MonitorOnProcess
    BY <2>1, <2>4 DEF MonitorOnProcess, TypeOK
  <2>5. QED BY <2>2, <2>3, <2>4
<1>2. /\ pc'[1] \in {"loop", "second"} /\ pc' = [pc EXCEPT ![1] = pc'[1]] /\ pc[1] \in {"first", "second"}
      /\ main' = main /\ open' = open /\ subscribed' = subscribed
      /\ pipe'[2] = pipe[2]
  BY DEF SenderRefused, SenderOnProcess, Published, Send, MonitorOnProcess, FirstReturns, TypeOK,
     Threads, seen
<1>3. Lifecycle'
  BY <1>2 DEF TypeOK, Lifecycle, Threads, Starting
<1>4. HistoriesOK'
  <2>1. CASE MonitorOnProcess
    <3>1. pipe[1] \in Seq(Alien..MaxSeq)
      BY BoundedIsSeq, UdpAssumption DEF TypeOK, Threads
    <3>2. QED BY <2>1, <3>1, ConcatProperties DEF MonitorOnProcess, HistoriesOK
  <2>2. QED BY <2>1 DEF SenderRefused, SenderOnProcess, seen, HistoriesOK
<1>5. RoomForOne' /\ BridgeNeverRefused'
  BY <1>2 DEF RoomForOne, BridgeNeverRefused, TypeOK, Threads
<1>6. QED BY <1>1, <1>3, <1>4, <1>5

(* UdpBridgeApp, ProcessorApp and the network.                             *)
LEMMA RunningThread2 ==
  ASSUME Running, BridgeOnProcess \/ ProcessorOnProcess \/ BridgeReceiveFails \/ Stranger
  PROVE  Running'
<1> USE DEF Running
<1>1. TypeOK'
  <2>1. << >> \in BoundedSeq(Alien..MaxSeq, UDPTH_PIPE_CAPACITY)
    BY BoundedEmpty, UdpAssumption
  <2>2. CASE BridgeOnProcess
    <3>1. net # << >> /\ Tail(net) \in BoundedSeq(Short..MaxSeq, NetCapacity) /\ Head(net) \in Short..MaxSeq
      BY <2>2, BoundedTail, UdpAssumption DEF BridgeOnProcess, TypeOK
    <3>2. pipe' \in [Threads -> BoundedSeq(Alien..MaxSeq, UDPTH_PIPE_CAPACITY)]
      <4>1. CASE Received /\ CanPublish(2)
        <5>1. Head(net) \in Alien..MaxSeq
          BY <3>1, <4>1, UdpAssumption DEF Received, Alien, Short
        <5>2. subscribed[2] /\ Len(pipe[2]) < UDPTH_PIPE_CAPACITY
          BY <2>2, <4>1 DEF BridgeOnProcess, CanPublish, Lifecycle, Threads
        <5>3. Append(pipe[2], Head(net)) \in BoundedSeq(Alien..MaxSeq, UDPTH_PIPE_CAPACITY)
          BY <5>1, <5>2, UdpAssumption, BoundedAppend DEF TypeOK, Threads
        <5>4. QED BY <2>2, <4>1, <5>2, <5>3 DEF BridgeOnProcess, Published, TypeOK
      <4>2. QED BY <2>2, <4>1 DEF BridgeOnProcess, TypeOK
    <3>3. pc' \in [Threads -> {"none", "onStart", "loop", "first", "second", "onExit", "returned"}]
      BY <2>2 DEF BridgeOnProcess, FirstReturns, TypeOK
    <3>4. QED BY <2>2, <3>1, <3>2, <3>3 DEF BridgeOnProcess, TypeOK, seen
  <2>3. CASE ProcessorOnProcess
    BY <2>1, <2>3 DEF ProcessorOnProcess, TypeOK
  <2>4. CASE BridgeReceiveFails
    BY <2>4 DEF BridgeReceiveFails, FirstReturns, TypeOK, apps, seen
  <2>5. CASE Stranger
    <3>1. \A d \in {Alien, Short} : d \in Short..MaxSeq
      BY UdpAssumption DEF Alien, Short
    <3>2. net' \in BoundedSeq(Short..MaxSeq, NetCapacity)
      BY <2>5, <3>1, BoundedAppend, UdpAssumption DEF Stranger, TypeOK
    <3>3. QED BY <2>5, <3>2, UdpAssumption DEF Stranger, TypeOK, seen
  <2>6. QED BY <2>2, <2>3, <2>4, <2>5
<1>2. /\ pc'[1] = pc[1] /\ uSeqNum' = uSeqNum
      /\ \/ pc' = pc
         \/ /\ pc'[2] \in {"loop", "second"}
            /\ pc' = [pc EXCEPT ![2] = pc'[2]]
            /\ pc[2] \in {"first", "second"}
      /\ main' = main /\ open' = open /\ subscribed' = subscribed
  BY DEF BridgeOnProcess, ProcessorOnProcess, BridgeReceiveFails, Stranger, FirstReturns, TypeOK,
     Threads, apps, seen
<1>3. Lifecycle'
  BY <1>2 DEF TypeOK, Lifecycle, Threads, Starting
<1>4. HistoriesOK'
  <2>1. CASE ProcessorOnProcess
    <3>1. pipe[2] \in Seq(Alien..MaxSeq)
      BY BoundedIsSeq, UdpAssumption DEF TypeOK, Threads
    <3>2. QED BY <2>1, <3>1, ConcatProperties DEF ProcessorOnProcess, HistoriesOK
  <2>2. QED BY <2>1 DEF BridgeOnProcess, BridgeReceiveFails, Stranger, apps, seen, HistoriesOK
<1>5. RoomForOne'
  BY <1>2 DEF RoomForOne
<1>6. BridgeNeverRefused'
  <2>1. CASE BridgeOnProcess
    BY <2>1 DEF BridgeOnProcess, FirstReturns, BridgeNeverRefused, TypeOK, Threads
  <2>2. QED BY <2>1 DEF ProcessorOnProcess, BridgeReceiveFails, Stranger, FirstReturns,
     BridgeNeverRefused, TypeOK, Threads, apps, seen
<1>7. QED BY <1>1, <1>3, <1>4, <1>5, <1>6

LEMMA RunningNext == Running /\ [Next]_vars => Running'
<1> SUFFICES ASSUME Running, [Next]_vars PROVE Running'
  OBVIOUS
<1>1. CASE Main
  BY <1>1, RunningMain
<1>2. CASE Thread1
  BY <1>2, RunningScheduler, RunningThread1 DEF Thread1, Threads
<1>3. CASE Thread2 \/ BridgeReceiveFails \/ Stranger
  BY <1>3, RunningScheduler, RunningThread2 DEF Thread2, Threads
<1>4. CASE UNCHANGED vars
  BY <1>4 DEF vars, apps, seen, Running, TypeOK, HistoriesOK, Lifecycle, RoomForOne,
     BridgeNeverRefused, Starting
<1>5. QED BY <1>1, <1>2, <1>3, <1>4 DEF Next

THEOREM UdpInvariance == Spec => []Running
<1>1. QED BY RunningInit, RunningNext, PTL DEF Spec

(* No pipe, no socket buffer and no counter leaves its range, whichever    *)
(* way the two scheduler tables are interleaved.                           *)
THEOREM UdpTypeCorrect == Spec => []TypeOK
<1>1. Running => TypeOK
  BY DEF Running
<1>2. QED BY <1>1, UdpInvariance, PTL

(* Broker 2 never refuses UdpBridgeApp, for a pipe of any capacity: a      *)
(* bridge that fails skips ProcessorApp, but only after publishing nothing.*)
THEOREM ProcessorKeepsUp == Spec => []BridgeNeverRefused
<1>1. Running => BridgeNeverRefused
  BY DEF Running
<1>2. QED BY <1>1, UdpInvariance, PTL

(* main returns 0 only after both threads have returned and closed their   *)
(* sockets.                                                                *)
THEOREM ExitIsClean == Spec => []CleanExit
<1>1. Running => CleanExit
  BY DEF Running, Lifecycle, CleanExit, Threads
<1>2. QED BY <1>1, UdpInvariance, PTL

-----------------------------------------------------------------------------
(* Sequences that grow at one end and lose elements.                       *)
LEMMA RangeOfAppend ==
  ASSUME NEW s \in Seq(Int), NEW e \in Int
  PROVE  Range(Append(s, e)) = Range(s) \cup {e}
<1>1. Append(s, e) \in Seq(Int) /\ Len(Append(s, e)) = Len(s) + 1 /\ Len(s) \in Nat
  BY AppendProperties, LenProperties
<1>2. /\ Range(Append(s, e)) = {Append(s, e)[i] : i \in 1..(Len(s) + 1)}
      /\ Range(s) = {s[i] : i \in 1..Len(s)}
  BY <1>1, RangeEquality
<1>3. \A i \in 1..Len(s) : Append(s, e)[i] = s[i]
  BY <1>1, AppendProperties
<1>4. Append(s, e)[Len(s) + 1] = e
  BY <1>1, AppendProperties
<1>5. 1..(Len(s) + 1) = 1..Len(s) \cup {Len(s) + 1}
  BY <1>1
<1>6. QED BY <1>2, <1>3, <1>4, <1>5

LEMMA OwnAppend ==
  ASSUME NEW s \in Seq(Int), NEW e \in Int, OwnIncrease(s),
         e > Alien => \A d \in Range(s) : d > Alien => d < e
  PROVE  OwnIncrease(Append(s, e))
<1>1. /\ Len(s) \in Nat /\ DOMAIN s = 1..Len(s)
      /\ DOMAIN Append(s, e) = 1..(Len(s) + 1)
      /\ \A i \in 1..Len(s) : Append(s, e)[i] = s[i]
      /\ Append(s, e)[Len(s) + 1] = e
  BY AppendProperties, LenProperties
<1>2. \A i \in 1..Len(s) : s[i] \in Range(s) /\ s[i] \in Int
  BY <1>1, RangeEquality, LenProperties
<1>3. QED BY <1>1, <1>2 DEF OwnIncrease

LEMMA OwnDrop ==
  ASSUME NEW s \in Seq(Int), NEW t \in Seq(Int), t # << >>, OwnIncrease(s \o t)
  PROVE  OwnIncrease(s \o Tail(t)) /\ Range(s \o Tail(t)) \subseteq Range(s \o t)
<1> DEFINE u == s \o t
           v == s \o Tail(t)
           At(i) == IF i <= Len(s) THEN i ELSE i + 1
<1>1. /\ Tail(t) \in Seq(Int) /\ Len(s) \in Nat /\ Len(t) \in Nat \ {0}
      /\ Len(Tail(t)) = Len(t) - 1
      /\ \A i \in 1..Len(Tail(t)) : Tail(t)[i] = t[i + 1]
  BY HeadTailProperties, EmptySeq, LenProperties
<1>2. /\ u \in Seq(Int) /\ Len(u) = Len(s) + Len(t) /\ DOMAIN u = 1..Len(u)
      /\ \A i \in 1..Len(u) : u[i] = IF i <= Len(s) THEN s[i] ELSE t[i - Len(s)]
  BY ConcatProperties, LenProperties
<1>3. /\ v \in Seq(Int) /\ Len(v) = Len(s) + Len(t) - 1 /\ DOMAIN v = 1..Len(v)
      /\ \A i \in 1..Len(v) : v[i] = IF i <= Len(s) THEN s[i] ELSE Tail(t)[i - Len(s)]
  BY <1>1, ConcatProperties, LenProperties
<1>4. \A i \in DOMAIN v : At(i) \in DOMAIN u /\ v[i] = u[At(i)]
  <2>1. SUFFICES ASSUME NEW i \in 1..Len(v)
                 PROVE  At(i) \in 1..Len(u) /\ v[i] = u[At(i)]
    BY <1>2, <1>3
  <2> HIDE DEF u, v
  <2>2. i \in Nat /\ i <= Len(s) + Len(t) - 1 /\ 1 <= i
    BY <1>1, <1>3
  <2>3. CASE i <= Len(s)
    <3>1. i \in 1..Len(u)
      BY <1>1, <1>2, <2>2, <2>3
    <3>2. u[i] = s[i] /\ v[i] = s[i]
      BY <1>2, <1>3, <2>3, <3>1
    <3>3. QED BY <2>3, <3>1, <3>2
  <2>4. CASE ~(i <= Len(s))
    <3>1. i + 1 \in 1..Len(u) /\ ~(i + 1 <= Len(s))
      BY <1>1, <1>2, <2>2, <2>4
    <3>2. u[i + 1] = t[(i + 1) - Len(s)]
      BY <1>1, <1>2, <2>2, <3>1
    <3>3. i - Len(s) \in 1..Len(Tail(t)) /\ (i - Len(s)) + 1 = (i + 1) - Len(s)
      BY <1>1, <2>2, <2>4
    <3>4. v[i] = Tail(t)[i - Len(s)]
      BY <1>3, <2>4
    <3>5. Tail(t)[i - Len(s)] = t[(i + 1) - Len(s)]
      BY <1>1, <3>3
    <3>6. QED BY <2>4, <3>1, <3>2, <3>4, <3>5
  <2>5. QED BY <2>3, <2>4
<1>5. \A i, j \in DOMAIN v : i < j => At(i) < At(j)
  BY <1>1, <1>3
<1>6. OwnIncrease(v)
  BY <1>4, <1>5 DEF OwnIncrease
<1>7. Range(v) \subseteq Range(u)
  BY <1>4 DEF Range
<1>8. QED BY <1>6, <1>7

LEMMA OwnPrefix ==
  ASSUME NEW s \in Seq(Int), NEW t \in Seq(Int), OwnIncrease(s \o t)
  PROVE  OwnIncrease(s) /\ Range(s) \subseteq Range(s \o t)
<1>1. /\ Len(s) \in Nat /\ Len(t) \in Nat
      /\ DOMAIN s = 1..Len(s) /\ DOMAIN (s \o t) = 1..(Len(s) + Len(t))
      /\ \A i \in 1..Len(s) : (s \o t)[i] = s[i]
  BY ConcatProperties, LenProperties
<1>2. OwnIncrease(s)
  BY <1>1 DEF OwnIncrease
<1>3. \A i \in DOMAIN s : i \in DOMAIN (s \o t) /\ s[i] = (s \o t)[i]
  BY <1>1
<1>4. Range(s) \subseteq Range(s \o t)
  BY <1>3 DEF Range
<1>5. QED BY <1>2, <1>4

LEMMA AppendOfConcat ==
  ASSUME NEW s \in Seq(Int), NEW t \in Seq(Int), NEW e \in Int
  PROVE  s \o Append(t, e) = Append(s \o t, e)
<1>1. <<e>> \in Seq(Int) /\ s \o t \in Seq(Int)
  BY ConcatProperties
<1>2. Append(t, e) = t \o <<e>> /\ Append(s \o t, e) = (s \o t) \o <<e>>
  BY <1>1, AppendIsConcat
<1>3. QED BY <1>1, <1>2, ConcatAssociative

(* Taking the head of one queue to the tail of the one before it.          *)
LEMMA Forwarded ==
  ASSUME NEW p \in Seq(Int), NEW n \in Seq(Int), n # << >>
  PROVE  Append(p, Head(n)) \o Tail(n) = p \o n
<1>1. /\ Head(n) \in Int /\ Tail(n) \in Seq(Int) /\ Len(n) \in Nat \ {0} /\ Len(p) \in Nat
      /\ Len(Tail(n)) = Len(n) - 1 /\ Head(n) = n[1]
      /\ \A i \in 1..Len(Tail(n)) : Tail(n)[i] = n[i + 1]
  BY HeadTailProperties, EmptySeq, LenProperties
<1> DEFINE a == Append(p, Head(n))
<1>2. /\ a \in Seq(Int) /\ Len(a) = Len(p) + 1
      /\ \A i \in 1..Len(p) : a[i] = p[i]
      /\ a[Len(p) + 1] = n[1]
  BY <1>1, AppendProperties
<1>3. /\ a \o Tail(n) \in Seq(Int) /\ Len(a \o Tail(n)) = Len(p) + Len(n)
      /\ \A i \in 1..(Len(p) + Len(n)) :
           (a \o Tail(n))[i] = IF i <= Len(a) THEN a[i] ELSE Tail(n)[i - Len(a)]
  <2> HIDE DEF a
  <2>1. /\ a \o Tail(n) \in Seq(Int) /\ Len(a \o Tail(n)) = Len(a) + Len(Tail(n))
        /\ \A i \in 1..(Len(a) + Len(Tail(n))) :
             (a \o Tail(n))[i] = IF i <= Len(a) THEN a[i] ELSE Tail(n)[i - Len(a)]
    BY <1>1, <1>2, ConcatProperties
  <2>2. Len(a) + Len(Tail(n)) = Len(p) + Len(n)
    BY <1>1, <1>2
  <2>3. QED BY <2>1, <2>2
<1>4. /\ p \o n \in Seq(Int) /\ Len(p \o n) = Len(p) + Len(n)
      /\ \A i \in 1..(Len(p) + Len(n)) : (p \o n)[i] = IF i <= Len(p) THEN p[i] ELSE n[i - Len(p)]
  BY ConcatProperties
<1>5. \A i \in 1..(Len(p) + Len(n)) : (a \o Tail(n))[i] = (p \o n)[i]
  <2> HIDE DEF a
  <2>1. QED BY <1>1, <1>2, <1>3, <1>4
<1>6. QED BY <1>3, <1>4, <1>5, SeqEqual

-----------------------------------------------------------------------------
(* Every message on thread 1 carries a number SenderApp has counted to,    *)
(* and there is none before SenderApp's OnStart, which counts from 0.      *)
Numbered ==
  /\ \A d \in Range(monitored) \cup Range(pipe[1]) : d \in 1..uSeqNum
  /\ pc[1] \in {"none", "onStart"} => monitored = << >> /\ pipe[1] = << >>

Ordered == InOrder /\ ProcessedWasPublished /\ Numbered

LEMMA Sequences ==
  ASSUME TypeOK, HistoriesOK
  PROVE  /\ \A t \in Threads : pipe[t] \in Seq(Int)
         /\ net \in Seq(Int) /\ monitored \in Seq(Int) /\ processed \in Seq(Int)
         /\ processed \o pipe[2] \in Seq(Int)
         /\ Transmitted \in Seq(Int)
         /\ monitored \o pipe[1] \in Seq(Int)
         /\ uSeqNum \in Nat
<1>1. Alien..MaxSeq \subseteq Int /\ Short..MaxSeq \subseteq Int
  BY UdpAssumption DEF Alien, Short
<1>2. \A t \in Threads : pipe[t] \in Seq(Alien..MaxSeq)
  BY BoundedIsSeq, UdpAssumption DEF TypeOK
<1>3. net \in Seq(Short..MaxSeq)
  <2>1. BoundedSeq(Short..MaxSeq, NetCapacity) = {s \in Seq(Short..MaxSeq) : Len(s) <= NetCapacity}
    BY BoundedIsSeq, UdpAssumption
  <2>2. QED BY <2>1 DEF TypeOK
<1>4. /\ \A t \in Threads : pipe[t] \in Seq(Int)
      /\ net \in Seq(Int) /\ monitored \in Seq(Int) /\ processed \in Seq(Int)
  BY <1>1, <1>2, <1>3, SeqMonotonic DEF HistoriesOK
<1>5. processed \o pipe[2] \in Seq(Int) /\ monitored \o pipe[1] \in Seq(Int)
  BY <1>4, ConcatProperties DEF Threads
<1>6. Transmitted \in Seq(Int)
  BY <1>4, <1>5, ConcatProperties DEF Transmitted
<1>7. QED BY <1>4, <1>5, <1>6 DEF TypeOK

LEMMA OrderedInit == Init => Ordered
<1> SUFFICES ASSUME Init PROVE Ordered
  OBVIOUS
<1>1. Transmitted = << >> /\ monitored \o pipe[1] = << >>
  <2>1. << >> \in Seq(Int) /\ << >> \o << >> = << >>
    BY EmptySeq, ConcatEmptySeq
  <2>2. QED BY <2>1 DEF Init, Transmitted, Threads
<1>2. \A x \in DOMAIN << >> : FALSE
  OBVIOUS
<1>3. InOrder
  BY <1>1, <1>2 DEF InOrder, OwnIncrease
<1>4. Range(<< >>) = {}
  BY <1>2 DEF Range
<1>5. ProcessedWasPublished /\ Numbered
  BY <1>1, <1>4 DEF Init, ProcessedWasPublished, Numbered, Threads
<1>6. QED BY <1>3, <1>5 DEF Ordered

(* A step that only loses datagrams, or moves them on.                     *)
LEMMA OrderedLoss ==
  ASSUME Ordered, UNCHANGED <<monitored, pipe[1]>>, Numbered',
         OwnIncrease(Transmitted'), Range(Transmitted') \subseteq Range(Transmitted) \cup {Alien, Short}
  PROVE  Ordered'
<1>1. InOrder'
  BY DEF Ordered, InOrder
<1>2. ProcessedWasPublished'
  BY DEF Ordered, ProcessedWasPublished, Alien, Short
<1>3. QED BY <1>1, <1>2 DEF Ordered

(* Steps that leave every message where it is, and OnStart, whose pipes    *)
(* are empty as it is.                                                     *)
LEMMA OrderedQuiet ==
  ASSUME Running, Ordered, UNCHANGED <<processed, monitored, pipe[1], pipe[2], net>>, Numbered'
  PROVE  Ordered'
BY DEF Ordered, InOrder, ProcessedWasPublished, Transmitted

LEMMA OrderedMain ==
  ASSUME Running, Ordered, Main
  PROVE  Ordered'
<1>1. UNCHANGED <<processed, monitored, pipe, net>>
  BY DEF Main, JunoUdp_LinuxInit, OpenSocketFails, Wire, Spawn, Spawn1Fails, Spawn2Fails, Stop,
     Join, apps, seen
<1>2. UNCHANGED uSeqNum \/ (main = "wire" /\ uSeqNum' = 0)
  BY DEF Main, JunoUdp_LinuxInit, OpenSocketFails, Wire, Spawn, Spawn1Fails, Spawn2Fails, Stop,
     Join, apps
<1>3. pc'[1] \in {"none", "onStart"} => pc[1] \in {"none", "onStart"}
  BY DEF Main, JunoUdp_LinuxInit, OpenSocketFails, Wire, Spawn, Spawn1Fails, Spawn2Fails, Stop,
     Join, apps, Running, TypeOK, Lifecycle, Threads, Starting
<1>4. main = "wire" => pc[1] = "none" /\ pc' = pc
  BY DEF Main, JunoUdp_LinuxInit, OpenSocketFails, Wire, Spawn, Spawn1Fails, Spawn2Fails, Stop,
     Join, apps, Running, Lifecycle, Starting
<1>5. \A x \in DOMAIN << >> : FALSE
  OBVIOUS
<1>6. Numbered'
  BY <1>1, <1>2, <1>3, <1>4, <1>5 DEF Ordered, Numbered, Range
<1>7. QED BY <1>1, <1>6, OrderedQuiet

LEMMA OrderedScheduler ==
  ASSUME Running, Ordered, NEW t \in Threads, OnStart(t) \/ Loop(t) \/ OnExit(t)
  PROVE  Ordered'
<1>1. \A x \in DOMAIN << >> : FALSE
  OBVIOUS
<1>2. CASE OnStart(t)
  <2>1. UNCHANGED <<processed, monitored, pipe[1], pipe[2], net>>
    BY <1>2 DEF OnStart, seen, Running, TypeOK, BridgeNeverRefused, Ordered, Numbered, Threads
  <2>2. Numbered'
    BY <1>1, <1>2, <2>1 DEF OnStart, Running, TypeOK, Ordered, Numbered, Threads, Range
  <2>3. QED BY <2>1, <2>2, OrderedQuiet
<1>3. CASE Loop(t)
  <2>1. UNCHANGED <<processed, monitored, pipe, net, uSeqNum>>
    BY <1>3 DEF Loop, apps, seen
  <2>2. Numbered'
    BY <1>3, <2>1 DEF Loop, Running, TypeOK, Ordered, Numbered, Threads
  <2>3. QED BY <2>1, <2>2, OrderedQuiet
<1>4. CASE OnExit(t)
  <2>1. UNCHANGED <<processed, monitored, pipe, uSeqNum>> /\ net' \in {net, << >>}
    BY <1>4 DEF OnExit, Free, seen
  <2>2. Numbered'
    BY <1>4, <2>1 DEF OnExit, Running, TypeOK, Ordered, Numbered, Threads
  <2>3. CASE net' = net
    BY <2>1, <2>2, <2>3, OrderedQuiet
  <2>4. CASE net' = << >>
    <3>1. Transmitted' = processed \o pipe[2]
      BY <2>1, <2>4, Sequences, ConcatEmptySeq DEF Transmitted, Running
    <3>2. OwnIncrease(Transmitted') /\ Range(Transmitted') \subseteq Range(Transmitted)
      BY <3>1, Sequences, OwnPrefix DEF Transmitted, Running, Ordered, InOrder
    <3>3. QED BY <2>1, <2>2, <3>2, OrderedLoss
  <2>5. QED BY <2>1, <2>3, <2>4
<1>5. QED BY <1>2, <1>3, <1>4

LEMMA OrderedThread1 ==
  ASSUME Running, Ordered, SenderRefused \/ SenderOnProcess \/ MonitorOnProcess
  PROVE  Ordered'
<1>0. /\ pc'[1] \notin {"none", "onStart"} /\ uSeqNum \in Nat
      /\ pipe[1] \in Seq(Int) /\ pipe[2] \in Seq(Int) /\ net \in Seq(Int)
      /\ monitored \in Seq(Int) /\ processed \in Seq(Int) /\ Transmitted \in Seq(Int)
      /\ processed \o pipe[2] \in Seq(Int) /\ monitored \o pipe[1] \in Seq(Int)
  BY Sequences DEF SenderRefused, SenderOnProcess, MonitorOnProcess, FirstReturns, Send, Running,
     TypeOK, Threads
<1>1. CASE SenderRefused
  <2>1. UNCHANGED <<processed, monitored, pipe, net>> /\ uSeqNum' = uSeqNum + 1
    BY <1>1 DEF SenderRefused, seen
  <2>2. Numbered'
    BY <1>0, <2>1 DEF Ordered, Numbered
  <2>3. QED BY <2>1, <2>2, OrderedQuiet
<1>2. CASE SenderOnProcess
  <2> DEFINE n == uSeqNum'
  <2>1. /\ n = uSeqNum + 1 /\ n \in Int /\ n > Alien
    BY <1>0, <1>2 DEF SenderOnProcess, Alien
  <2>2. UNCHANGED <<processed, monitored>> /\ (net' = net \/ net' = Append(net, n))
    BY <1>2 DEF SenderOnProcess, Send, seen
  <2>3. pipe'[1] = Append(pipe[1], n) /\ pipe'[2] = pipe[2]
    <3>1. subscribed[1]
      BY <1>2 DEF SenderOnProcess, Running, Lifecycle, Threads
    <3>2. QED BY <1>2, <3>1 DEF SenderOnProcess, Published, Running, TypeOK, Threads
  <2> HIDE DEF n
  <2>4. Range(pipe'[1]) = Range(pipe[1]) \cup {n}
    BY <1>0, <2>1, <2>3, RangeOfAppend
  <2>5. Numbered'
    BY <1>0, <2>1, <2>2, <2>4 DEF Ordered, Numbered, n
  <2>6. (monitored \o pipe[1])' = Append(monitored \o pipe[1], n)
    <3>1. monitored \o Append(pipe[1], n) = Append(monitored \o pipe[1], n)
      BY <1>0, <2>1, AppendOfConcat
    <3>2. QED BY <2>2, <2>3, <3>1
  <2>7. \A d \in Range(monitored \o pipe[1]) : d < n
    <3>1. Range(monitored \o pipe[1]) = Range(monitored) \cup Range(pipe[1])
      BY <1>0, RangeConcatenation
    <3>2. QED BY <1>0, <2>1, <3>1 DEF Ordered, Numbered
  <2>8. OwnIncrease((monitored \o pipe[1])')
    BY <1>0, <2>1, <2>6, <2>7, OwnAppend DEF Ordered, InOrder
  <2>9. Transmitted' = Transmitted \/ Transmitted' = Append(Transmitted, n)
    <3> DEFINE s == processed \o pipe[2]
    <3>1. s' = s /\ s \in Seq(Int)
      BY <1>0, <2>2, <2>3
    <3>2. s \o Append(net, n) = Append(s \o net, n)
      <4> HIDE DEF s
      <4>1. QED BY <1>0, <2>1, <3>1, AppendOfConcat
    <3>3. QED BY <2>2, <3>1, <3>2 DEF Transmitted
  <2>10. \A d \in Range(Transmitted) : d > Alien => d < n
    <3>1. ASSUME NEW d \in Range(Transmitted), d > Alien PROVE d \in 1..uSeqNum
      BY <3>1 DEF Ordered, Numbered, ProcessedWasPublished
    <3>2. QED BY <1>0, <2>1, <3>1
  <2>11. OwnIncrease(Transmitted')
    BY <1>0, <2>1, <2>9, <2>10, OwnAppend DEF Ordered, InOrder
  <2>12. Range(Transmitted') \subseteq Range(Transmitted) \cup {n}
    <3>1. Range(Append(Transmitted, n)) = Range(Transmitted) \cup {n}
      BY <1>0, <2>1, RangeOfAppend
    <3>2. QED BY <2>9, <3>1
  <2>13. ProcessedWasPublished'
    BY <2>2, <2>4, <2>12 DEF Ordered, ProcessedWasPublished
  <2>14. QED BY <2>5, <2>8, <2>11, <2>13 DEF Ordered, InOrder
<1>3. CASE MonitorOnProcess
  <2>1. /\ UNCHANGED <<processed, pipe[2], net, uSeqNum>>
        /\ monitored' = monitored \o pipe[1] /\ pipe'[1] = << >>
    BY <1>3 DEF MonitorOnProcess, Running, TypeOK, Threads
  <2>2. (monitored \o pipe[1])' = monitored \o pipe[1]
    BY <1>0, <2>1, ConcatEmptySeq
  <2>3. Range(monitored') \cup Range(pipe'[1]) = Range(monitored) \cup Range(pipe[1])
    <3>1. \A x \in DOMAIN << >> : FALSE
      OBVIOUS
    <3>2. Range(pipe'[1]) = {}
      BY <2>1, <3>1 DEF Range
    <3>3. QED BY <1>0, <2>1, <3>2, RangeConcatenation
  <2>4. Transmitted' = Transmitted
    BY <2>1 DEF Transmitted
  <2>5. QED BY <1>0, <2>1, <2>2, <2>3, <2>4 DEF Ordered, InOrder, ProcessedWasPublished, Numbered
<1>4. QED BY <1>1, <1>2, <1>3

LEMMA OrderedThread2 ==
  ASSUME Running, Ordered, BridgeOnProcess \/ ProcessorOnProcess \/ BridgeReceiveFails \/ Stranger
  PROVE  Ordered'
<1>0. /\ pc'[1] = pc[1] /\ UNCHANGED <<monitored, pipe[1], uSeqNum>>
      /\ pipe[2] \in Seq(Int) /\ net \in Seq(Int) /\ processed \in Seq(Int)
      /\ Transmitted \in Seq(Int) /\ processed \o pipe[2] \in Seq(Int)
  BY Sequences DEF BridgeOnProcess, ProcessorOnProcess, BridgeReceiveFails, Stranger, Published,
     FirstReturns, Running, TypeOK, Threads, apps, seen
<1>1. Numbered'
  BY <1>0 DEF Ordered, Numbered
<1>2. CASE BridgeOnProcess
  <2>1. /\ net # << >> /\ net' = Tail(net) /\ processed' = processed
        /\ pipe'[2] \in {pipe[2], Append(pipe[2], Head(net))}
    BY <1>2 DEF BridgeOnProcess, Published, Running, TypeOK, Threads, seen
  <2>2. Head(net) \in Int /\ Tail(net) \in Seq(Int)
    BY <1>0, <2>1, HeadTailProperties
  <2>3. CASE pipe'[2] = Append(pipe[2], Head(net))
    <3>1. processed \o Append(pipe[2], Head(net)) = Append(processed \o pipe[2], Head(net))
      BY <1>0, <2>2, AppendOfConcat
    <3>2. Transmitted' = Transmitted
      <4>1. Append(processed \o pipe[2], Head(net)) \o Tail(net) = (processed \o pipe[2]) \o net
        BY <1>0, <2>1, Forwarded
      <4>2. QED BY <2>1, <2>3, <3>1, <4>1 DEF Transmitted
    <3>3. QED BY <1>0, <1>1, <3>2, OrderedLoss DEF Ordered, InOrder
  <2>4. CASE pipe'[2] = pipe[2]
    <3>1. Transmitted' = (processed \o pipe[2]) \o Tail(net)
      BY <2>1, <2>4 DEF Transmitted
    <3>2. OwnIncrease(Transmitted') /\ Range(Transmitted') \subseteq Range(Transmitted)
      BY <1>0, <2>1, <3>1, OwnDrop DEF Transmitted, Ordered, InOrder
    <3>3. QED BY <1>0, <1>1, <3>2, OrderedLoss
  <2>5. QED BY <2>1, <2>3, <2>4
<1>3. CASE ProcessorOnProcess
  <2>1. net' = net /\ processed' = processed \o pipe[2] /\ pipe'[2] = << >>
    BY <1>3 DEF ProcessorOnProcess, Running, TypeOK, Threads
  <2>2. Transmitted' = Transmitted
    BY <1>0, <2>1, ConcatEmptySeq DEF Transmitted
  <2>3. QED BY <1>0, <1>1, <2>2, OrderedLoss DEF Ordered, InOrder
<1>4. CASE BridgeReceiveFails
  BY <1>1, <1>4, OrderedQuiet DEF BridgeReceiveFails, apps, seen
<1>5. CASE Stranger
  <2>1. PICK d \in {Alien, Short} : net' = Append(net, d) /\ UNCHANGED <<processed, pipe>>
    BY <1>5 DEF Stranger, seen
  <2>2. d \in Int /\ ~(d > Alien)
    BY DEF Alien, Short
  <2>3. Transmitted' = Append(Transmitted, d)
    <3>1. (processed \o pipe[2]) \o Append(net, d) = Append((processed \o pipe[2]) \o net, d)
      BY <1>0, <2>2, AppendOfConcat
    <3>2. QED BY <2>1, <3>1 DEF Transmitted
  <2>4. OwnIncrease(Transmitted')
    BY <1>0, <2>2, <2>3, OwnAppend DEF Ordered, InOrder
  <2>5. Range(Transmitted') \subseteq Range(Transmitted) \cup {Alien, Short}
    <3>1. Range(Append(Transmitted, d)) = Range(Transmitted) \cup {d}
      BY <1>0, <2>2, RangeOfAppend
    <3>2. QED BY <2>3, <3>1
  <2>6. QED BY <1>0, <1>1, <2>4, <2>5, OrderedLoss
<1>6. QED BY <1>2, <1>3, <1>4, <1>5

LEMMA OrderedNext == Running /\ Ordered /\ [Next]_vars => Ordered'
<1> SUFFICES ASSUME Running, Ordered, [Next]_vars PROVE Ordered'
  OBVIOUS
<1>1. CASE Main
  BY <1>1, OrderedMain
<1>2. CASE Thread1
  BY <1>2, OrderedScheduler, OrderedThread1 DEF Thread1, Threads
<1>3. CASE Thread2 \/ BridgeReceiveFails \/ Stranger
  BY <1>3, OrderedScheduler, OrderedThread2 DEF Thread2, Threads
<1>4. CASE UNCHANGED vars
  BY <1>4, OrderedQuiet DEF vars, apps, seen, Ordered, Numbered
<1>5. QED BY <1>1, <1>2, <1>3, <1>4 DEF Next

LEMMA Ordering == Spec => []Ordered
<1>1. QED BY OrderedInit, OrderedNext, UdpInvariance, PTL DEF Spec

(* Messages keep the order in which SenderApp composed them, across both   *)
(* threads and a network that loses some and mixes in strangers'.          *)
THEOREM MessagesInOrder == Spec => []InOrder
<1>1. Ordered => InOrder
  BY DEF Ordered
<1>2. QED BY <1>1, Ordering, PTL

(* Whatever thread 2 processes of SenderApp's, thread 1 has published on   *)
(* its own broker.                                                         *)
THEOREM NothingProcessedUnpublished == Spec => []ProcessedWasPublished
<1>1. Ordered => ProcessedWasPublished
  BY DEF Ordered
<1>2. QED BY <1>1, Ordering, PTL
=============================================================================
