------------------------------- MODULE Broker -------------------------------
(***************************************************************************)
(* The software bus: a broker (juno_broker.c) with its publishers, and the *)
(* pipes its subscribers read, each a circular buffer.  Everything runs on *)
(* the broker's thread, so a call is one step; which application calls     *)
(* next, and which element copy fails, is left open.                       *)
(***************************************************************************)
EXTENDS JunoQueue, SequencesExt

CONSTANTS
  Pipes,               \* the subscribers' pipes
  Mids,                \* message ids
  iMsgId,              \* iMsgId[p]: the message id pipe p is initialised with
  Types,               \* the element types of messages and pipe arrays
  ptArray,             \* ptArray[p]: the element type of pipe p's array
  zRegistryCapacity,
  MaxMsgs              \* bound: messages published, retries not counted

BrokerAssumption ==
  /\ iMsgId \in [Pipes -> Mids]
  /\ ptArray \in [Pipes -> Types]
  /\ zRegistryCapacity \in Nat \ {0}
  /\ MaxMsgs \in Nat

VARIABLES
  registry,   \* ptPipeRegistry[0 .. zRegistryLength-1], as a sequence
  pipe,       \* pipe[p]: the queue of pipe p
  sent,       \* number of messages composed so far
  due,        \* history: due[p], what was enqueued into p since its PipeInit
              \* and not dequeued, oldest first
  last        \* history: the last Publish, its message and status

vars == <<registry, pipe, sent, due, last>>

Messages == [tMid : Mids, tType : Types, n : 1..MaxMsgs]
NoCall   == [tMsg |-> NoItem, tStatus |-> "SUCCESS"]

Init ==
  /\ registry = << >>
  /\ pipe = [p \in Pipes |-> QueueInit(EmptySlots)]
  /\ sent = 0
  /\ due = [p \in Pipes |-> << >>]
  /\ last = NoCall

(* Mutant: the registry takes one pipe too many.                           *)
RegisterUnbounded(p) ==
  /\ Len(registry) <= zRegistryCapacity
  /\ registry' = Append(registry, p)
  /\ UNCHANGED <<pipe, sent, due, last>>

(* A full registry refuses; nothing stops a pipe from being there twice.   *)
RegisterSubscriber(p) ==
  /\ Len(registry) < zRegistryCapacity
  /\ registry' = Append(registry, p)
  /\ UNCHANGED <<pipe, sent, due, last>>

(* The subscriber (re)initialises its pipe, registered or not: the indices *)
(* are reset, the slots keep what they hold.                               *)
PipeInit(p) ==
  /\ pipe' = [pipe EXCEPT ![p] = QueueInit(@.slots)]
  /\ due' = [due EXCEPT ![p] = << >>]
  /\ UNCHANGED <<registry, sent, last>>

-----------------------------------------------------------------------------
(* How often p is among the first n registered pipes of message id mid.    *)
Copies(mid, p, n) == Cardinality({ i \in 1..n : registry[i] = p /\ iMsgId[p] = mid })

(* Mutant: the second copy does not move on to the next slot.              *)
PushTimesInPlace(q, m, k) ==
  [q EXCEPT !.zLength = @ + k,
            !.slots = [i \in Slots |-> IF k > 0 /\ i = Back(q) THEN m ELSE @[i]]]

(* k copies of m pushed one after the other.                               *)
PushTimes(q, m, k) ==
  [q EXCEPT !.zLength = @ + k,
            !.slots = [i \in Slots |->
               IF \E j \in 0..(k - 1) : i = (Back(q) + j) % zCapacity THEN m ELSE @[i]]]

(* Mutant: the element's Copy goes by its size and takes any type.         *)
TypeFitsAny(m, p) == TRUE

(* A pipe's array copies messages of its own element type only; a pipe of  *)
(* another message id is not asked.                                        *)
TypeFits(m, p) == iMsgId[p] = m.tMid => ptArray[p] = m.tType

(* The i-th registered pipe takes m, given that the entries before did.    *)
Takes(m, i) ==
  LET p == registry[i] IN
  TypeFits(m, p) /\ pipe[p].zLength + Copies(m.tMid, p, i) <= zCapacity

(* The loop of Publish got past the first n entries ...                    *)
Passed(m, n) ==
  /\ \A i \in 1..n : Takes(m, i)
  /\ pipe' = [p \in Pipes |-> PushTimes(pipe[p], m, Copies(m.tMid, p, n))]
  /\ due'  = [p \in Pipes |-> due[p] \o [i \in 1..Copies(m.tMid, p, n) |-> m]]

(* ... and returned the error of Enqueue on the next one: it is full, is   *)
(* of another type, or its array's SetAt failed.                           *)
StoppedAt(m, i) ==
  LET p == registry[i] IN
  /\ iMsgId[p] = m.tMid
  /\ last' = [tMsg |-> m,
              tStatus |-> IF pipe[p].zLength + Copies(m.tMid, p, i) > zCapacity THEN "OOB" ELSE "ERR"]

(* A publisher sends a new message, or again the one that was refused.     *)
Composes(m) ==
  \/ sent < MaxMsgs /\ m.n = sent + 1 /\ sent' = m.n
  \/ last.tStatus # "SUCCESS" /\ m = last.tMsg /\ UNCHANGED sent

Publish(m) ==
  /\ Composes(m)
  /\ Passed(m, Len(registry))
  /\ last' = [tMsg |-> m, tStatus |-> "SUCCESS"]
  /\ UNCHANGED registry

(* Mutant: the loop goes on to the pipes after the one that failed.        *)
PublishSkipsFailed(m) ==
  /\ Composes(m)
  /\ \E n \in 1..Len(registry) :
       /\ StoppedAt(m, n)
       /\ Cardinality({ i \in DOMAIN registry : registry[i] = registry[n] }) = 1
       /\ \A i \in 1..Len(registry) \ {n} : Takes(m, i)
       /\ LET k(p) == IF p = registry[n] THEN 0 ELSE Copies(m.tMid, p, Len(registry)) IN
          /\ pipe' = [p \in Pipes |-> PushTimes(pipe[p], m, k(p))]
          /\ due'  = [p \in Pipes |-> due[p] \o [i \in 1..k(p) |-> m]]
  /\ UNCHANGED registry

PublishFails(m) ==
  /\ Composes(m)
  /\ \E n \in 1..Len(registry) : Passed(m, n - 1) /\ StoppedAt(m, n)
  /\ UNCHANGED registry

(* The subscriber of p takes the oldest message.                           *)
Dequeue(p) ==
  /\ ~IsEmpty(pipe[p])
  /\ pipe' = [pipe EXCEPT ![p] = Pop(@)]
  /\ due' = [due EXCEPT ![p] = Tail(@)]
  /\ UNCHANGED <<registry, sent, last>>

Next ==
  \/ \E p \in Pipes : RegisterSubscriber(p) \/ PipeInit(p) \/ Dequeue(p)
  \/ \E m \in Messages : Publish(m) \/ PublishFails(m)

Spec == Init /\ [][Next]_vars

-----------------------------------------------------------------------------
(* Types; zRegistryLength never passes the registry's capacity.            *)
TypeOK ==
  /\ registry \in BoundedSeq(Pipes, zRegistryCapacity)
  /\ pipe \in [Pipes -> [iStartIndex : Slots, zLength : 0..zCapacity,
                         slots : [Slots -> Messages \cup {NoItem}]]]
  /\ sent \in 0..MaxMsgs
  /\ due \in [Pipes -> BoundedSeq(Messages, zCapacity)]
  /\ last \in [tMsg : Messages \cup {NoItem}, tStatus : {"SUCCESS", "OOB", "ERR"}]

(* What a pipe holds is exactly what was enqueued since its PipeInit and   *)
(* not dequeued, oldest first, whatever was published, refused, retried or *)
(* registered twice in between; and it is of the pipe's own message id and *)
(* element type, whatever type was published under that id.                *)
PipeHoldsDue ==
  \A p \in Pipes :
    /\ Contents(pipe[p]) = due[p]
    /\ \A i \in DOMAIN due[p] : due[p][i].tMid = iMsgId[p] /\ due[p][i].tType = ptArray[p]

(* The fan-out is a prefix of the registry: a Publish that serves a pipe   *)
(* has served every earlier registered pipe of the message id.             *)
PrefixFanOut ==
  [][\A i, j \in DOMAIN registry :
       /\ i < j
       /\ iMsgId[registry[i]] = iMsgId[registry[j]]
       /\ \A h \in 1..(j - 1) : registry[h] # registry[j]
       /\ Len(due'[registry[j]]) > Len(due[registry[j]])
       => Len(due'[registry[i]]) > Len(due[registry[i]])]_vars
=============================================================================
