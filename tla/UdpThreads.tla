----------------------------- MODULE UdpThreads -----------------------------
(***************************************************************************)
(* The two-thread application of examples/udp-threads.  main opens both    *)
(* sockets, spawns the threads, sleeps, asks both to stop and joins them.  *)
(* Thread 1 runs SenderApp and MonitorApp, thread 2 runs UdpBridgeApp and  *)
(* ProcessorApp, each from a scheduler table; a thread has a broker of its *)
(* own, with one pipe, and the threads share the UDP loopback and the      *)
(* bStop flags.  The receiving socket is bound to every address: strangers *)
(* may send to it too.                                                     *)
(*                                                                         *)
(* A pipe is the sequence that BuffQueue is proved to implement.  A step   *)
(* is one OnStart, OnProcess or OnExit: what an app does in between is     *)
(* private to its thread but for one send or receive.                      *)
(***************************************************************************)
EXTENDS Integers, SequencesExt

CONSTANTS
  UDPTH_PIPE_CAPACITY,
  NetCapacity,      \* datagrams the receiving socket buffers
  MaxSeq,           \* bound: messages composed before main's sleep is over
  MaxStrays         \* bound: datagrams from strangers

ASSUME UdpAssumption ==
  /\ UDPTH_PIPE_CAPACITY \in Nat \ {0}
  /\ NetCapacity \in Nat \ {0}
  /\ MaxSeq \in Nat
  /\ MaxStrays \in Nat

Threads == {1, 2}

(* A datagram is a sequence number, as SenderApp counts from 1, or what a  *)
(* stranger sent: at least as long as a message, which recv cuts to its    *)
(* size, or shorter.                                                       *)
Alien == 0
Short == -1

VARIABLES
  main,         \* where main is
  pc,           \* pc[t]: where the entry function of thread t is
  bStop,        \* bStop[t]: the stop flag in thread t's root
  open,         \* open[t]: the socket of thread t's first app
  uSeqNum,      \* SenderApp's counter
  subscribed,   \* subscribed[t]: the pipe is in the registry of thread t's broker
  pipe,         \* pipe[t]: MonitorApp's and ProcessorApp's pipe
  net,          \* datagrams in the receiving socket, oldest first
  strays,       \* number of datagrams from strangers so far
  monitored,    \* history: what MonitorApp dequeued
  processed     \* history: what ProcessorApp dequeued

seen == <<monitored, processed>>
apps == <<open, uSeqNum, subscribed, pipe, net, strays, seen>>
vars == <<main, pc, bStop, apps>>

Init ==
  /\ main = "udpSender"
  /\ pc = [t \in Threads |-> "none"]
  /\ bStop = [t \in Threads |-> FALSE]
  /\ open = [t \in Threads |-> FALSE]
  /\ uSeqNum = 0
  /\ subscribed = [t \in Threads |-> FALSE]
  /\ pipe = [t \in Threads |-> << >>]
  /\ net = << >>
  /\ strays = 0
  /\ monitored = << >>
  /\ processed = << >>

-----------------------------------------------------------------------------
(* main                                                                    *)

(* OpenSocket: socket, then connect for the sender, bind for the receiver. *)
JunoUdp_LinuxInit(t, here, next) ==
  /\ main = here
  /\ main' = next
  /\ open' = [open EXCEPT ![t] = TRUE]
  /\ UNCHANGED <<pc, bStop, uSeqNum, subscribed, pipe, net, strays, seen>>

(* It closes what it opened and reports the error: main returns, and       *)
(* leaves the sender's socket to the end of the process.                   *)
OpenSocketFails ==
  /\ main \in {"udpSender", "udpReceiver"}
  /\ main' = "exit1"
  /\ UNCHANGED <<pc, bStop, apps>>

(* Arrays, brokers, apps and scheduler tables: with main's arguments none  *)
(* of these steps fails.                                                   *)
Wire ==
  /\ main = "wire"
  /\ main' = "spawn1"
  /\ uSeqNum' = 0
  /\ subscribed' = [t \in Threads |-> FALSE]
  /\ UNCHANGED <<pc, bStop, open, pipe, net, strays, seen>>

Spawn(t, here, next) ==
  /\ main = here
  /\ main' = next
  /\ pc' = [pc EXCEPT ![t] = "onStart"]
  /\ bStop' = [bStop EXCEPT ![t] = FALSE]
  /\ UNCHANGED apps

(* pthread_create fails.  Nothing is left to do but to wait for the first  *)
(* thread, if there is one.                                                *)
Spawn1Fails ==
  /\ main = "spawn1"
  /\ main' = "exit1"
  /\ UNCHANGED <<pc, bStop, apps>>

(* Mutant: the first thread is joined without being asked to stop.         *)
Spawn2FailsNoStop ==
  /\ main = "spawn2"
  /\ main' = "joinOnly1"
  /\ UNCHANGED <<pc, bStop, apps>>

Spawn2Fails ==
  /\ main = "spawn2"
  /\ main' = "joinOnly1"
  /\ bStop' = [bStop EXCEPT ![1] = TRUE]
  /\ UNCHANGED <<pc, apps>>

Stop(t, here, next) ==
  /\ main = here
  /\ main' = next
  /\ bStop' = [bStop EXCEPT ![t] = TRUE]
  /\ UNCHANGED <<pc, apps>>

(* Join blocks until the entry function has returned.                      *)
Join(t, here, next) ==
  /\ main = here
  /\ pc[t] = "returned"
  /\ main' = next
  /\ UNCHANGED <<pc, bStop, apps>>

Main ==
  \/ JunoUdp_LinuxInit(1, "udpSender", "udpReceiver")
  \/ JunoUdp_LinuxInit(2, "udpReceiver", "wire")
  \/ OpenSocketFails
  \/ Wire
  \/ Spawn(1, "spawn1", "spawn2")
  \/ Spawn1Fails
  \/ Spawn(2, "spawn2", "sleep")
  \/ Spawn2Fails
  \/ Stop(1, "sleep", "stop2")
  \/ Stop(2, "stop2", "join1")
  \/ Join(1, "join1", "join2")
  \/ Join(2, "join2", "exit0")
  \/ Join(1, "joinOnly1", "exit1")

-----------------------------------------------------------------------------
(* The entry functions.  Both apps' OnStart: SenderApp's count starts over *)
(* and the pipe of the second app is initialised and registered.  Neither  *)
(* can fail, for the registry has room for two.                            *)
OnStart(t) ==
  /\ pc[t] = "onStart"
  /\ pc' = [pc EXCEPT ![t] = "loop"]
  /\ uSeqNum' = IF t = 1 THEN 0 ELSE uSeqNum
  /\ pipe' = [pipe EXCEPT ![t] = << >>]
  /\ subscribed' = [subscribed EXCEPT ![t] = TRUE]
  /\ UNCHANGED <<main, bStop, open, net, strays, seen>>

(* The flag is looked at between two calls of Execute only.                *)
Loop(t) ==
  /\ pc[t] = "loop"
  /\ bStop[t] \/ t = 2 \/ uSeqNum < MaxSeq
  /\ pc' = [pc EXCEPT ![t] = IF bStop[t] THEN "onExit" ELSE "first"]
  /\ UNCHANGED <<main, bStop, apps>>

(* Mutant: the thread returns without the apps' OnExit.                    *)
OnExitSkipped(t) ==
  /\ pc[t] = "onExit"
  /\ pc' = [pc EXCEPT ![t] = "returned"]
  /\ UNCHANGED <<main, bStop, apps>>

(* The socket is closed, and what it had received is gone.                 *)
Free(t) ==
  /\ open' = [open EXCEPT ![t] = FALSE]
  /\ net' = IF t = 2 THEN << >> ELSE net

OnExit(t) ==
  /\ pc[t] = "onExit"
  /\ pc' = [pc EXCEPT ![t] = "returned"]
  /\ Free(t)
  /\ UNCHANGED <<main, bStop, uSeqNum, subscribed, pipe, strays, seen>>

(* Mutant: Execute goes on after an error only.                            *)
FirstReturnsInverted(t, success) ==
  pc' = [pc EXCEPT ![t] = IF success THEN "loop" ELSE "second"]

(* Execute goes on to the second app when the first one returned SUCCESS,  *)
(* and returns to the loop otherwise.                                      *)
FirstReturns(t, success) == pc' = [pc EXCEPT ![t] = IF success THEN "second" ELSE "loop"]

-----------------------------------------------------------------------------
(* Thread 1                                                                *)

(* Mutant: the broker's pipe takes one message too many.                   *)
CanPublishOneMore(t) == subscribed[t] => Len(pipe[t]) <= UDPTH_PIPE_CAPACITY

CanPublish(t) == subscribed[t] => Len(pipe[t]) < UDPTH_PIPE_CAPACITY

Published(t, n) == pipe' = [pipe EXCEPT ![t] = IF subscribed[t] THEN Append(@, n) ELSE @]

SenderRefused ==
  /\ pc[1] = "first"
  /\ ~CanPublish(1)
  /\ uSeqNum' = uSeqNum + 1
  /\ FirstReturns(1, FALSE)
  /\ UNCHANGED <<main, bStop, open, subscribed, pipe, net, strays, seen>>

(* Mutant: the message is transmitted, not published.                      *)
SenderOnProcessUnpublished ==
  /\ pc[1] = "first"
  /\ CanPublish(1)
  /\ uSeqNum' = uSeqNum + 1
  /\ net' = IF Len(net) < NetCapacity THEN Append(net, uSeqNum') ELSE net
  /\ FirstReturns(1, TRUE)
  /\ UNCHANGED <<main, bStop, open, subscribed, pipe, strays, seen>>

(* A datagram is delivered, lost, or refused by send() with an error.      *)
Send(d) ==
  \/ Len(net) < NetCapacity /\ open[2] /\ net' = Append(net, d) /\ FirstReturns(1, TRUE)
  \/ \E success \in BOOLEAN : FirstReturns(1, success) /\ UNCHANGED net

(* The message is published first, then transmitted.                       *)
SenderOnProcess ==
  /\ pc[1] = "first"
  /\ CanPublish(1)
  /\ uSeqNum' = uSeqNum + 1
  /\ Published(1, uSeqNum')
  /\ Send(uSeqNum')
  /\ UNCHANGED <<main, bStop, open, subscribed, strays, seen>>

(* Mutant: the pipe's last message is dequeued first.                      *)
MonitorOnProcessNewest ==
  /\ pc[1] = "second"
  /\ monitored' = monitored \o Reverse(pipe[1])
  /\ pipe' = [pipe EXCEPT ![1] = << >>]
  /\ pc' = [pc EXCEPT ![1] = "loop"]
  /\ UNCHANGED <<main, bStop, open, uSeqNum, subscribed, net, strays, processed>>

MonitorOnProcess ==
  /\ pc[1] = "second"
  /\ monitored' = monitored \o pipe[1]
  /\ pipe' = [pipe EXCEPT ![1] = << >>]
  /\ pc' = [pc EXCEPT ![1] = "loop"]
  /\ UNCHANGED <<main, bStop, open, uSeqNum, subscribed, net, strays, processed>>

-----------------------------------------------------------------------------
(* Thread 2: Receive blocks while there is no datagram, for OpenSocket     *)
(* sets no SO_RCVTIMEO.                                                    *)

(* Mutant: the size of what was received is not looked at.                 *)
ReceivedAnySize == TRUE

(* What recv hands over has a message's size, or is refused.               *)
Received == Head(net) # Short

BridgeOnProcess ==
  /\ pc[2] = "first"
  /\ net # << >>
  /\ net' = Tail(net)
  /\ IF Received /\ CanPublish(2) THEN Published(2, Head(net)) ELSE UNCHANGED pipe
  /\ FirstReturns(2, Received /\ CanPublish(2))
  /\ UNCHANGED <<main, bStop, open, uSeqNum, subscribed, strays, seen>>

(* recv fails.                                                             *)
BridgeReceiveFails ==
  /\ pc[2] = "first"
  /\ FirstReturns(2, FALSE)
  /\ UNCHANGED <<main, bStop, apps>>

ProcessorOnProcess ==
  /\ pc[2] = "second"
  /\ processed' = processed \o pipe[2]
  /\ pipe' = [pipe EXCEPT ![2] = << >>]
  /\ pc' = [pc EXCEPT ![2] = "loop"]
  /\ UNCHANGED <<main, bStop, open, uSeqNum, subscribed, net, strays, monitored>>

(* Someone else sends to the receiving port.                               *)
Stranger ==
  /\ strays < MaxStrays /\ open[2] /\ Len(net) < NetCapacity
  /\ strays' = strays + 1
  /\ \E d \in {Alien, Short} : net' = Append(net, d)
  /\ UNCHANGED <<main, pc, bStop, open, uSeqNum, subscribed, pipe, seen>>

Thread1 == OnStart(1) \/ Loop(1) \/ OnExit(1) \/ SenderRefused \/ SenderOnProcess \/ MonitorOnProcess
Thread2 == OnStart(2) \/ Loop(2) \/ OnExit(2) \/ BridgeOnProcess \/ ProcessorOnProcess

Next == Main \/ Thread1 \/ Thread2 \/ BridgeReceiveFails \/ Stranger

(* The operating system runs every thread that is not blocked.  Nothing is *)
(* assumed of the network, nor of receptions that fail.                    *)
Fairness == WF_vars(Main) /\ WF_vars(Thread1) /\ WF_vars(Thread2)

Spec == Init /\ [][Next]_vars /\ Fairness

-----------------------------------------------------------------------------
(* Types, and the capacity of pipes and socket.                            *)
TypeOK ==
  /\ main \in {"udpSender", "udpReceiver", "wire", "spawn1", "spawn2", "sleep",
              "stop2", "join1", "join2", "joinOnly1", "exit0", "exit1"}
  /\ pc \in [Threads -> {"none", "onStart", "loop", "first", "second", "onExit", "returned"}]
  /\ bStop \in [Threads -> BOOLEAN]
  /\ open \in [Threads -> BOOLEAN]
  /\ uSeqNum \in 0..MaxSeq
  /\ subscribed \in [Threads -> BOOLEAN]
  /\ pipe \in [Threads -> BoundedSeq(Alien..MaxSeq, UDPTH_PIPE_CAPACITY)]
  /\ net \in BoundedSeq(Short..MaxSeq, NetCapacity)
  /\ strays \in 0..MaxStrays

(* What SenderApp composed, in its order.                                  *)
OwnIncrease(s) ==
  \A i, j \in DOMAIN s : i < j /\ s[i] > Alien /\ s[j] > Alien => s[i] < s[j]

(* What thread 2 has processed, will process or has yet to receive.        *)
Transmitted == processed \o pipe[2] \o net

(* Across both threads and the network, messages keep the order in which   *)
(* SenderApp composed them and none is processed twice, whatever is lost,  *)
(* refused or skipped on the way and whatever strangers send in between.   *)
InOrder == OwnIncrease(Transmitted) /\ OwnIncrease(monitored \o pipe[1])

(* Thread 2 processes nothing that thread 1 has not published on its own   *)
(* broker before, strangers' messages aside: MonitorApp sees, or will see, *)
(* all of it.                                                              *)
ProcessedWasPublished ==
  {d \in Range(Transmitted) : d > Alien} \subseteq Range(monitored) \cup Range(pipe[1])

(* UdpBridgeApp is never refused by broker 2: ProcessorApp has emptied the *)
(* pipe whenever the next datagram is received, though any error of the    *)
(* bridge makes the scheduler skip ProcessorApp.                           *)
BridgeNeverRefused == pc[2] # "second" => pipe[2] = << >>

(* When main returns 0, both threads have returned and both sockets are    *)
(* closed (05-composition-root.md, 6.7).                                   *)
CleanExit == main = "exit0" => \A t \in Threads : pc[t] = "returned" /\ ~open[t]

Exited == main \in {"exit0", "exit1"}

(* Thread 1 has obeyed its flag and been joined, the network is silent,    *)
(* and thread 2 waits in recv.                                             *)
HangsInReceive ==
  main = "join2" /\ pc[1] = "returned" /\ pc[2] = "first" /\ net = << >>

(* Whichever thread creation fails, whatever the pipes hold and wherever   *)
(* the flags find the threads, main exits, or the one blocking call that   *)
(* never looks at a flag is all it waits for.                              *)
HangsOnlyInReceive == <>Exited \/ <>[]HangsInReceive

(* "The composition root shall signal both threads to stop and join both   *)
(* threads before the process exits" (REQ-UDPAPP-023), within "one full    *)
(* major frame period" (05-composition-root.md:237): main exits.           *)
Shutdown == <>Exited

(* "SenderApp shall publish a UDP_THREAD_MSG_T message to Thread 1's       *)
(* broker [...] on each OnProcess cycle" (REQ-UDPAPP-004).                 *)
PublishesEachCycle ==
  [][uSeqNum' # uSeqNum => pipe'[1] = Append(pipe[1], uSeqNum')]_vars
=============================================================================
