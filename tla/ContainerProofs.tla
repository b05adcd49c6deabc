-------------------------- MODULE ContainerProofs ---------------------------
(***************************************************************************)
(* Proofs about the circular buffer and what is built like it or on it:    *)
(* the broker, whose pipes are queues, the stack and the C++ containers;   *)
(* and about the hash map.  They hold for every capacity, every set of     *)
(* items, every registry and every hash function.                          *)
(* Those of the buffer rest on one fact about indices: the zCapacity slots *)
(* that follow a start index are distinct, and SlotOf enumerates them.     *)
(***************************************************************************)
EXTENDS Containers, SequenceTheorems, FiniteSetTheorems, TLAPS

(* The queues over an array of elements of S.                              *)
QueueOf(S) ==
  [iStartIndex : Slots, zLength : 0..zCapacity, slots : [Slots -> S \cup {NoItem}]]

-----------------------------------------------------------------------------
(* An index that runs past the end of the array wraps around once.         *)
LEMMA Wrap ==
  ASSUME NEW s \in Slots, NEW k \in 0..zCapacity
  PROVE  /\ (s + k) % zCapacity \in Slots
         /\ (s + k) % zCapacity = IF s + k < zCapacity THEN s + k ELSE s + k - zCapacity
<1>1. \A c \in Nat \ {0} : \A m \in 0..(2 * c - 1) :
        m % c \in 0..(c - 1) /\ m % c = IF m < c THEN m ELSE m - c
  OBVIOUS
<1>2. PICK m \in 0..(2 * zCapacity - 1) : m = s + k
  BY CapacityAssumption DEF Slots
<1>3. m % zCapacity \in Slots /\ m % zCapacity = IF m < zCapacity THEN m ELSE m - zCapacity
  BY <1>1, CapacityAssumption DEF Slots
<1>4. s + k \in Int /\ s \in Int /\ k \in Int /\ zCapacity \in Int
  BY CapacityAssumption DEF Slots
<1>5. (s + k) % zCapacity = m % zCapacity
  BY <1>2
<1>6. QED BY <1>2, <1>3, <1>4, <1>5

(* The slots of queued items are slots of the array.                       *)
LEMMA SlotFacts ==
  ASSUME NEW S, NEW q \in QueueOf(S)
  PROVE  /\ \A k \in 1..(zCapacity + 1) : SlotOf(q, k) \in Slots
         /\ \A j, k \in 1..zCapacity : SlotOf(q, j) = SlotOf(q, k) => j = k
         /\ SlotOf(q, 1) = q.iStartIndex
         /\ Back(q) = SlotOf(q, q.zLength + 1)
<1> DEFINE s == q.iStartIndex
<1>1. s \in Slots /\ q.zLength \in 0..zCapacity
  BY DEF QueueOf
<1>2. \A k \in 1..(zCapacity + 1) :
        /\ SlotOf(q, k) \in Slots
        /\ SlotOf(q, k) = IF s + (k - 1) < zCapacity THEN s + (k - 1) ELSE s + (k - 1) - zCapacity
  <2> SUFFICES ASSUME NEW k \in 1..(zCapacity + 1)
               PROVE  /\ SlotOf(q, k) \in Slots
                      /\ SlotOf(q, k) = IF s + (k - 1) < zCapacity THEN s + (k - 1)
                                        ELSE s + (k - 1) - zCapacity
    OBVIOUS
  <2>1. k - 1 \in 0..zCapacity /\ s + k - 1 = s + (k - 1)
    BY <1>1, CapacityAssumption DEF Slots
  <2>2. QED BY <1>1, <2>1, Wrap DEF SlotOf
<1>3. \A j, k \in 1..zCapacity : SlotOf(q, j) = SlotOf(q, k) => j = k
  BY <1>1, <1>2, CapacityAssumption DEF Slots
<1>4. SlotOf(q, 1) = s
  BY <1>1, <1>2, CapacityAssumption DEF Slots
<1>5. Back(q) = SlotOf(q, q.zLength + 1)
  BY <1>1, CapacityAssumption DEF Back, SlotOf, Slots
<1>6. QED BY <1>2, <1>3, <1>4, <1>5

(* The contents of a queue, a sequence as long as the queue.               *)
LEMMA ContentsType ==
  ASSUME NEW S, NEW q \in QueueOf(S)
  PROVE  /\ Contents(q) \in Seq(S \cup {NoItem})
         /\ Len(Contents(q)) = q.zLength
  BY SlotFacts, CapacityAssumption DEF Contents, QueueOf, GetAt

(* Push appends one item and disturbs no other.                            *)
LEMMA PushAppends ==
  ASSUME NEW S, NEW q \in QueueOf(S), NEW x \in S, ~Full(q)
  PROVE  /\ Push(q, x) \in QueueOf(S)
         /\ Contents(Push(q, x)) = Append(Contents(q), x)
<1> DEFINE r == Push(q, x)
<1>1. /\ q.zLength < zCapacity
      /\ q.zLength \in Nat
      /\ q.iStartIndex \in Slots
      /\ q.slots \in [Slots -> S \cup {NoItem}]
  BY CapacityAssumption DEF Full, QueueOf
<1>2. /\ r.iStartIndex = q.iStartIndex
      /\ r.zLength = q.zLength + 1
      /\ r.slots = [q.slots EXCEPT ![Back(q)] = x]
  BY DEF Push, QueueOf, SetAt
<1>3. Back(q) \in Slots /\ Back(q) = SlotOf(q, q.zLength + 1)
  BY <1>1, SlotFacts, CapacityAssumption
<1>4. r \in QueueOf(S)
  BY <1>1, <1>2, <1>3, CapacityAssumption DEF QueueOf, Push, Pop, SetAt, ResetAt
<1>5. \A k \in 1..(q.zLength + 1) :
        r.slots[SlotOf(r, k)] = IF k = q.zLength + 1 THEN x ELSE q.slots[SlotOf(q, k)]
  <2> SUFFICES ASSUME NEW k \in 1..(q.zLength + 1)
               PROVE  r.slots[SlotOf(r, k)] =
                        IF k = q.zLength + 1 THEN x ELSE q.slots[SlotOf(q, k)]
    OBVIOUS
  <2>1. k \in 1..zCapacity /\ q.zLength + 1 \in 1..zCapacity
    BY <1>1, CapacityAssumption
  <2>2. SlotOf(r, k) = SlotOf(q, k) /\ SlotOf(q, k) \in Slots
    <3>1. SlotOf(r, k) = SlotOf(q, k)
      BY <1>2 DEF SlotOf
    <3>2. k \in 1..(zCapacity + 1)
      BY <2>1, CapacityAssumption
    <3>3. SlotOf(q, k) \in Slots
      BY <3>2, SlotFacts
    <3>4. QED BY <3>1, <3>3
  <2>3. k # q.zLength + 1 => SlotOf(q, k) # Back(q)
    BY <1>3, <2>1, SlotFacts
  <2>4. QED BY <1>1, <1>2, <1>3, <2>2, <2>3
<1>6. Append(Contents(q), x) =
        [k \in 1..(q.zLength + 1) |-> IF k = q.zLength + 1 THEN x ELSE q.slots[SlotOf(q, k)]]
  BY <1>1, ContentsType DEF Contents, GetAt
<1>7. Contents(r) = [k \in 1..(q.zLength + 1) |-> r.slots[SlotOf(r, k)]]
  BY <1>2 DEF Contents, GetAt
<1>8. QED BY <1>4, <1>5, <1>6, <1>7

(* After Pop, the k-th oldest item is the one that was the (k+1)-th.       *)
LEMMA PopShifts ==
  ASSUME NEW S, NEW q \in QueueOf(S), ~IsEmpty(q)
  PROVE  \A k \in 1..(q.zLength - 1) : SlotOf(Pop(q), k) = SlotOf(q, k + 1)
<1> DEFINE r == Pop(q)
<1>1. /\ q.zLength \in 1..zCapacity
      /\ q.iStartIndex \in Slots
  BY CapacityAssumption DEF IsEmpty, QueueOf
<1>2. r.iStartIndex = (q.iStartIndex + 1) % zCapacity
  BY DEF Pop, QueueOf, ResetAt
<1>3. r.iStartIndex \in Slots
  <2>1. 1 \in 0..zCapacity
    BY CapacityAssumption
  <2>2. QED BY <1>1, <1>2, <2>1, Wrap
<1>4. \A k \in 1..(q.zLength - 1) : SlotOf(r, k) = SlotOf(q, k + 1)
  <2> SUFFICES ASSUME NEW k \in 1..(q.zLength - 1) PROVE SlotOf(r, k) = SlotOf(q, k + 1)
    OBVIOUS
  <2>1. 1 \in 0..zCapacity /\ k \in 0..zCapacity /\ k - 1 \in 0..zCapacity
    BY <1>1, CapacityAssumption
  <2>2. (r.iStartIndex + (k - 1)) % zCapacity = (q.iStartIndex + k) % zCapacity
    <3> DEFINE s == q.iStartIndex
               c == zCapacity
    <3>1. s \in 0..(c - 1) /\ k \in 1..(c - 1) /\ c \in Nat
      BY <1>1, CapacityAssumption DEF Slots
    <3>2. r.iStartIndex = IF s + 1 < c THEN s + 1 ELSE s + 1 - c
      BY <1>1, <1>2, <2>1, Wrap
    <3>3. (r.iStartIndex + (k - 1)) % c =
            IF r.iStartIndex + (k - 1) < c THEN r.iStartIndex + (k - 1)
            ELSE r.iStartIndex + (k - 1) - c
      BY <1>3, <2>1, Wrap
    <3>4. (s + k) % c = IF s + k < c THEN s + k ELSE s + k - c
      BY <1>1, <2>1, Wrap
    <3> HIDE DEF r, s, c
    <3>5. QED BY <3>1, <3>2, <3>3, <3>4 DEF s, c
  <2>3. r.iStartIndex + k - 1 = r.iStartIndex + (k - 1) /\ q.iStartIndex + (k + 1) - 1 = q.iStartIndex + k
    BY <1>1, <1>3, CapacityAssumption DEF Slots
  <2>4. QED BY <2>2, <2>3 DEF SlotOf
<1>5. QED BY <1>4

(* Pop takes the oldest item and disturbs no other.                        *)
LEMMA PopTakesHead ==
  ASSUME NEW S, NEW q \in QueueOf(S), ~IsEmpty(q)
  PROVE  /\ Pop(q) \in QueueOf(S)
         /\ Contents(q) # << >>
         /\ Contents(Pop(q)) = Tail(Contents(q))
         /\ Oldest(q) = Head(Contents(q))
         /\ Oldest(q) \in S \cup {NoItem}
<1> DEFINE r == Pop(q)
<1>1. /\ q.zLength \in 1..zCapacity
      /\ q.iStartIndex \in Slots
      /\ q.slots \in [Slots -> S \cup {NoItem}]
  BY CapacityAssumption DEF IsEmpty, QueueOf
<1>2. /\ r.iStartIndex = (q.iStartIndex + 1) % zCapacity
      /\ r.zLength = q.zLength - 1
      /\ r.slots = [q.slots EXCEPT ![q.iStartIndex] = NoItem]
  BY DEF Pop, QueueOf, ResetAt
<1>3. r.iStartIndex \in Slots /\ r.iStartIndex = SlotOf(q, 2)
  <2>1. 1 \in 0..zCapacity
    BY CapacityAssumption
  <2>2. (q.iStartIndex + 1) % zCapacity \in Slots
    BY <1>1, <2>1, Wrap
  <2>3. q.iStartIndex + 2 - 1 = q.iStartIndex + 1
    BY <1>1, CapacityAssumption DEF Slots
  <2>4. SlotOf(q, 2) = (q.iStartIndex + 1) % zCapacity
    BY <2>3 DEF SlotOf
  <2>5. QED BY <1>2, <2>2, <2>4
<1>4. r \in QueueOf(S)
  BY <1>1, <1>2, <1>3, CapacityAssumption DEF QueueOf, Push, Pop, SetAt, ResetAt
<1>5. \A k \in 1..(q.zLength - 1) : SlotOf(r, k) = SlotOf(q, k + 1)
  BY PopShifts
<1>6. \A k \in 1..(q.zLength - 1) : r.slots[SlotOf(r, k)] = q.slots[SlotOf(q, k + 1)]
  <2> SUFFICES ASSUME NEW k \in 1..(q.zLength - 1)
               PROVE  r.slots[SlotOf(r, k)] = q.slots[SlotOf(q, k + 1)]
    OBVIOUS
  <2>1. k + 1 \in 1..zCapacity /\ 1 \in 1..zCapacity /\ k + 1 # 1
    BY <1>1, CapacityAssumption
  <2>2. SlotOf(q, k + 1) # q.iStartIndex /\ SlotOf(q, k + 1) \in Slots
    BY <2>1, SlotFacts, CapacityAssumption
  <2>3. QED BY <1>1, <1>2, <1>5, <2>2
<1>7. Contents(q) # << >> /\ Len(Contents(q)) = q.zLength /\ Contents(q) \in Seq(S \cup {NoItem})
  BY <1>1, ContentsType, EmptySeq
<1>8. Tail(Contents(q)) = [k \in 1..(q.zLength - 1) |-> q.slots[SlotOf(q, k + 1)]]
  BY <1>1, <1>7, CapacityAssumption DEF Contents, GetAt
<1>9. Contents(r) = [k \in 1..(q.zLength - 1) |-> r.slots[SlotOf(r, k)]]
  BY <1>2 DEF Contents, GetAt
<1>10. Contents(r) = Tail(Contents(q))
  BY <1>6, <1>8, <1>9
<1>11. Oldest(q) = Head(Contents(q)) /\ Oldest(q) \in S \cup {NoItem}
  BY <1>1, <1>7, SlotFacts DEF Oldest, Contents, GetAt
<1>12. QED BY <1>4, <1>7, <1>10, <1>11

-----------------------------------------------------------------------------
NoStale(q) == \A i \in Slots : q.slots[i] # NoItem => \E k \in 1..q.zLength : i = SlotOf(q, k)

(* Push writes a slot that then holds a queued item.                       *)
LEMMA PushNoStale ==
  ASSUME NEW S, NEW q \in QueueOf(S), NEW x \in S, ~Full(q), NoStale(q)
  PROVE  NoStale(Push(q, x))
<1> DEFINE r == Push(q, x)
<1>1. q.zLength \in 0..(zCapacity - 1) /\ q.slots \in [Slots -> S \cup {NoItem}]
  BY CapacityAssumption DEF Full, QueueOf
<1>2. /\ r.zLength = q.zLength + 1
      /\ r.slots = [q.slots EXCEPT ![Back(q)] = x]
      /\ \A k : SlotOf(r, k) = SlotOf(q, k)
  BY DEF Push, QueueOf, SlotOf, SetAt
<1>3. Back(q) = SlotOf(r, r.zLength)
  BY <1>2, SlotFacts
<1>4. SUFFICES ASSUME NEW i \in Slots, r.slots[i] # NoItem
               PROVE  \E k \in 1..r.zLength : i = SlotOf(r, k)
  BY DEF NoStale
<1>5. CASE i = Back(q)
  BY <1>1, <1>2, <1>3, <1>5
<1>6. CASE i # Back(q)
  <2>1. PICK k \in 1..q.zLength : i = SlotOf(q, k)
    BY <1>1, <1>2, <1>4, <1>6 DEF NoStale
  <2>2. k \in 1..r.zLength
    BY <1>1, <1>2
  <2>3. QED BY <1>2, <2>1, <2>2
<1>7. QED BY <1>5, <1>6

(* Pop clears the slot of the item it takes out.                           *)
LEMMA PopNoStale ==
  ASSUME NEW S, NEW q \in QueueOf(S), ~IsEmpty(q), NoStale(q)
  PROVE  NoStale(Pop(q))
<1> DEFINE r == Pop(q)
<1>1. /\ q.zLength \in 1..zCapacity
      /\ q.iStartIndex \in Slots
      /\ q.slots \in [Slots -> S \cup {NoItem}]
  BY CapacityAssumption DEF IsEmpty, QueueOf
<1>2. /\ r.zLength = q.zLength - 1
      /\ r.slots = [q.slots EXCEPT ![q.iStartIndex] = NoItem]
  BY DEF Pop, QueueOf, ResetAt
<1>3. SUFFICES ASSUME NEW i \in Slots, r.slots[i] # NoItem
               PROVE  \E k \in 1..r.zLength : i = SlotOf(r, k)
  BY DEF NoStale
<1>4. i # q.iStartIndex
  BY <1>1, <1>2, <1>3
<1>5. PICK k \in 1..q.zLength : i = SlotOf(q, k)
  BY <1>1, <1>2, <1>3, <1>4 DEF NoStale
<1>6. k # 1
  BY <1>4, <1>5, SlotFacts
<1>7. k - 1 \in 1..(q.zLength - 1) /\ (k - 1) + 1 = k
  BY <1>1, <1>6
<1>8. SlotOf(r, k - 1) = SlotOf(q, k)
  BY <1>7, PopShifts
<1>9. QED BY <1>2, <1>5, <1>7, <1>8

-----------------------------------------------------------------------------
(* The fields stay in the bounds that queue_api.h promises, for every      *)
(* capacity: iStartIndex and zLength never leave the array.                *)
THEOREM TypeCorrect == Spec => []TypeOK
<1>1. Init => TypeOK
  BY CapacityAssumption DEF Init, TypeOK, QueueInit, EmptySlots, Slots
<1>2. TypeOK /\ [Next]_vars => TypeOK'
  <2> SUFFICES ASSUME TypeOK, [Next]_vars PROVE TypeOK'
    OBVIOUS
  <2>0. queue \in QueueOf(Items) /\ tReturn \in Items \cup {NoItem}
    BY DEF TypeOK, QueueOf
  <2>1. CASE \E x \in Items : Enqueue(x)
    <3>1. queue' \in QueueOf(Items) /\ tReturn' = tReturn
      BY <2>0, <2>1, PushAppends DEF Enqueue
    <3>2. QED BY <2>0, <3>1 DEF TypeOK, QueueOf
  <2>2. CASE \E x \in Items : EnqueueFull(x) \/ EnqueueSetAtFails(x)
    BY <2>2 DEF TypeOK, EnqueueFull, EnqueueSetAtFails
  <2>3. CASE Dequeue
    BY <2>0, <2>3, PopTakesHead DEF Dequeue, TypeOK, QueueOf
  <2>4. CASE DequeueRemoveFails
    BY <2>0, <2>4, PopTakesHead DEF DequeueRemoveFails, TypeOK
  <2>5. CASE DequeueEmpty \/ DequeueCopyFails \/ Peek \/ UNCHANGED vars
    BY <2>5 DEF DequeueEmpty, DequeueCopyFails, Peek, TypeOK, vars
  <2>6. QED BY <2>1, <2>2, <2>3, <2>4, <2>5 DEF Next
<1>3. QED BY <1>1, <1>2, PTL DEF Spec

(* RemoveAt clears the slot of every item that leaves the queue: at every  *)
(* moment the array holds the queued items and nothing else.               *)
THEOREM NothingLeftBehind == Spec => []NoStaleItems
<1>1. Init => NoStaleItems
  BY DEF Init, NoStaleItems, QueueInit, EmptySlots
<1>2. TypeOK /\ NoStaleItems /\ [Next]_vars => NoStaleItems'
  <2> SUFFICES ASSUME TypeOK, NoStaleItems, [Next]_vars PROVE NoStaleItems'
    OBVIOUS
  <2>0. queue \in QueueOf(Items) /\ NoStale(queue)
    BY DEF TypeOK, QueueOf, NoStaleItems, NoStale
  <2>1. CASE \E x \in Items : Enqueue(x)
    BY <2>0, <2>1, PushNoStale DEF Enqueue, NoStaleItems, NoStale
  <2>2. CASE Dequeue
    BY <2>0, <2>2, PopNoStale DEF Dequeue, NoStaleItems, NoStale
  <2>3. CASE UNCHANGED queue
    BY <2>3 DEF NoStaleItems, SlotOf
  <2>4. QED BY <2>1, <2>2, <2>3 DEF Next, vars, EnqueueFull, EnqueueSetAtFails,
               DequeueEmpty, DequeueCopyFails, DequeueRemoveFails, Peek
<1>3. QED BY <1>1, <1>2, TypeCorrect, PTL DEF Spec

(* The circular buffer is a FIFO queue, whatever the capacity, however     *)
(* often it wraps around and whichever element operation fails.            *)
THEOREM Refinement == Spec => ImplementsFifo
<1>1. Init => Fifo!Init
  <2> SUFFICES ASSUME Init PROVE Fifo!Init
    OBVIOUS
  <2>1. queue \in QueueOf(Items) /\ queue.zLength = 0
    BY CapacityAssumption DEF Init, QueueInit, EmptySlots, Slots, QueueOf
  <2>2. Contents(queue) = << >>
    BY <2>1, ContentsType, EmptySeq
  <2>3. QED BY <2>2 DEF Init, Fifo!Init, Call, Fifo!Call
<1>2. TypeOK /\ [Next]_vars => [Fifo!Next]_(Fifo!vars)
  <2> SUFFICES ASSUME TypeOK, [Next]_vars PROVE [Fifo!Next]_(Fifo!vars)
    OBVIOUS
  <2> DEFINE fifo == Contents(queue)
  <2>0. /\ queue \in QueueOf(Items)
        /\ fifo \in Seq(Items \cup {NoItem})
        /\ Len(fifo) = queue.zLength
        /\ Full(queue) <=> Len(fifo) = zCapacity
        /\ ~Full(queue) <=> Len(fifo) < zCapacity
        /\ IsEmpty(queue) <=> fifo = << >>
    <3>1. queue \in QueueOf(Items)
      BY DEF TypeOK, QueueOf
    <3>2. queue.zLength \in 0..zCapacity
      BY <3>1 DEF QueueOf
    <3>3. QED BY <3>1, <3>2, ContentsType, EmptySeq, CapacityAssumption DEF Full, IsEmpty
  <2>1. ASSUME NEW x \in Items, Enqueue(x) PROVE Fifo!Enqueue(x)
    BY <2>0, <2>1, PushAppends DEF Enqueue, Fifo!Enqueue, Call, Fifo!Call
  <2>2. ASSUME NEW x \in Items, EnqueueFull(x) \/ EnqueueSetAtFails(x)
        PROVE  Fifo!EnqueueFails(x)
    BY <2>0, <2>2 DEF EnqueueFull, EnqueueSetAtFails, Fifo!EnqueueFails, Call, Fifo!Call
  <2>3. CASE Dequeue
    BY <2>0, <2>3, PopTakesHead DEF Dequeue, Fifo!Dequeue, Fifo!Next, Call, Fifo!Call
  <2>4. CASE DequeueEmpty \/ DequeueCopyFails \/ DequeueRemoveFails
    <3>1. ~IsEmpty(queue) => Oldest(queue) = Head(fifo)
      BY <2>0, PopTakesHead
    <3>2. Fifo!DequeueFails
      BY <2>0, <2>4, <3>1 DEF DequeueEmpty, DequeueCopyFails, DequeueRemoveFails,
           Fifo!DequeueFails, Call, Fifo!Call
    <3>3. QED BY <3>2 DEF Fifo!Next
  <2>5. CASE Peek
    <3>1. ~IsEmpty(queue) => Oldest(queue) = Head(fifo)
      BY <2>0, PopTakesHead
    <3>2. Fifo!Peek
      BY <2>0, <2>5, <3>1 DEF Peek, Fifo!Peek, Call, Fifo!Call
    <3>3. QED BY <3>2 DEF Fifo!Next
  <2>6. CASE UNCHANGED vars
    BY <2>6 DEF vars, Fifo!vars, Contents, SlotOf
  <2>7. QED BY <2>1, <2>2, <2>3, <2>4, <2>5, <2>6 DEF Next, Fifo!Next
<1>3. QED BY <1>1, <1>2, TypeCorrect, PTL DEF Spec, ImplementsFifo, Fifo!Spec

-----------------------------------------------------------------------------
(* A set of numbers has a least element: induction, without a formula to   *)
(* instantiate a scheme with.  The numbers below n grow with n.            *)
LEMMA LeastElement ==
  ASSUME NEW T \in SUBSET Nat, T # {}
  PROVE  \E x \in T : \A y \in T : x <= y
<1> DEFINE Below(n) == 0..(n - 1)
           B == {Below(n) : n \in T}
<1>1. \A n \in Nat : Below(n) \in FiniteSubsetsOf(Nat)
  BY FS_Interval DEF FiniteSubsetsOf
<1>2. PICK b \in B : \A c \in B : <<c, b>> \notin StrictSubsetOrdering(Nat)
  <2>1. B \subseteq FiniteSubsetsOf(Nat) /\ B # {}
    BY <1>1
  <2>2. QED BY <2>1, FS_StrictSubsetOrderingWellFounded, WFMin
<1>3. PICK x \in T : b = Below(x)
  BY <1>2
<1>4. ASSUME NEW y \in T, y < x PROVE FALSE
  <2>1. /\ x \in Nat /\ y \in Nat
        /\ Below(y) \subseteq Below(x) /\ y \in Below(x) /\ y \notin Below(y)
        /\ Below(x) \subseteq Nat
    BY <1>4
  <2>2. <<Below(y), Below(x)>> \in StrictSubsetOrdering(Nat)
    BY <2>1 DEF StrictSubsetOrdering
  <2>3. QED BY <1>2, <1>3, <2>2
<1>5. QED BY <1>4

LEMMA GreatestElement ==
  ASSUME NEW n \in Nat, NEW T \in SUBSET (1..n), T # {}
  PROVE  \E x \in T : \A y \in T : y <= x
<1> DEFINE D == {n - i : i \in T}
<1>1. D \in SUBSET Nat /\ D # {}
  <2>1. \A i \in T : n - i \in Nat
    OBVIOUS
  <2>2. QED BY <2>1
<1>2. PICK d \in D : \A e \in D : d <= e
  BY <1>1, LeastElement
<1>3. PICK x \in T : d = n - x
  BY <1>2
<1>4. \A y \in T : d <= n - y
  BY <1>2
<1>5. QED BY <1>3, <1>4

-----------------------------------------------------------------------------
(* The broker's queue operators are the queue's.                           *)
LEMMA BusQueue ==
  /\ Bus!Slots = Slots /\ Bus!EmptySlots = EmptySlots
  /\ \A q : /\ Bus!Contents(q) = Contents(q)
            /\ Bus!Pop(q) = Pop(q)
            /\ Bus!IsEmpty(q) <=> IsEmpty(q)
            /\ Bus!Back(q) = Back(q)
  /\ \A slots : Bus!QueueInit(slots) = QueueInit(slots)
BY DEF Bus!Slots, Slots, Bus!EmptySlots, EmptySlots, Bus!Contents, Contents, Bus!Pop, Pop,
       Bus!IsEmpty, IsEmpty, Bus!Back, Back, Bus!QueueInit, QueueInit,
       Bus!SlotOf, SlotOf, Bus!GetAt, GetAt, Bus!ResetAt, ResetAt

LEMMA Concatenation ==
  ASSUME NEW T, NEW u \in Seq(T), NEW v \in Seq(T)
  PROVE  u \o v = [i \in 1..(Len(u) + Len(v)) |-> IF i <= Len(u) THEN u[i] ELSE v[i - Len(u)]]
<1>1. /\ u \o v \in Seq(T)
      /\ Len(u \o v) = Len(u) + Len(v)
      /\ \A i \in 1..(Len(u) + Len(v)) : (u \o v)[i] = IF i <= Len(u) THEN u[i] ELSE v[i - Len(u)]
  BY ConcatProperties
<1> DEFINE c == u \o v
<1>2. c \in Seq(T)
  BY <1>1
<1>3. c = [i \in 1..Len(c) |-> c[i]]
  <2> HIDE DEF c
  <2>1. QED BY <1>2
<1>4. QED BY <1>1, <1>3

(* k copies of one message, enqueued one after the other, are appended to  *)
(* what the pipe holds, wherever they wrap around.                         *)
LEMMA PushTimesAppends ==
  ASSUME NEW S, NEW q \in QueueOf(S), NEW m \in S, NEW k \in Nat, q.zLength + k <= zCapacity
  PROVE  /\ Bus!PushTimes(q, m, k) \in QueueOf(S)
         /\ Bus!PushTimes(q, m, k).zLength = q.zLength + k
         /\ Contents(Bus!PushTimes(q, m, k)) = Contents(q) \o [i \in 1..k |-> m]
<1> DEFINE r == Bus!PushTimes(q, m, k)
           L == q.zLength
<1>1. /\ L \in Nat /\ L \in 0..zCapacity /\ q.iStartIndex \in Slots
      /\ q.slots \in [Slots -> S \cup {NoItem}]
  BY CapacityAssumption DEF QueueOf
<1>2. /\ r.iStartIndex = q.iStartIndex
      /\ r.zLength = L + k
      /\ r.slots = [i \in Slots |->
            IF \E j \in 0..(k - 1) : i = (Back(q) + j) % zCapacity THEN m ELSE q.slots[i]]
  BY BusQueue DEF Bus!PushTimes, QueueOf
<1>3. r \in QueueOf(S)
  <2>1. r.slots \in [Slots -> S \cup {NoItem}]
    BY <1>1, <1>2
  <2>2. \A z \in 0..zCapacity : \A f \in [Slots -> S \cup {NoItem}] :
          [q EXCEPT !.zLength = z, !.slots = f] \in QueueOf(S)
    BY DEF QueueOf
  <2>3. r = [q EXCEPT !.zLength = L + k, !.slots = r.slots] /\ L + k \in 0..zCapacity
    BY <1>1, <1>2 DEF Bus!PushTimes
  <2> HIDE DEF r
  <2>4. QED BY <2>1, <2>2, <2>3
<1>4. \A j \in 0..(k - 1) : (Back(q) + j) % zCapacity = SlotOf(q, L + 1 + j)
  <2> SUFFICES ASSUME NEW j \in 0..(k - 1)
               PROVE  (Back(q) + j) % zCapacity = SlotOf(q, L + 1 + j)
    OBVIOUS
  <2> DEFINE s == q.iStartIndex
             c == zCapacity
  <2>1. s \in 0..(c - 1) /\ L \in 0..c /\ j \in 0..c /\ L + j \in 0..(c - 1) /\ c \in Nat
    BY <1>1, CapacityAssumption DEF Slots
  <2>2. Back(q) \in Slots /\ Back(q) = IF s + L < c THEN s + L ELSE s + L - c
    BY <1>1, Wrap DEF Back
  <2>3. (Back(q) + j) % c = IF Back(q) + j < c THEN Back(q) + j ELSE Back(q) + j - c
    BY <2>1, <2>2, Wrap
  <2>4. (s + (L + j)) % c = IF s + (L + j) < c THEN s + (L + j) ELSE s + (L + j) - c
    BY <1>1, <2>1, Wrap
  <2>5. SlotOf(q, L + 1 + j) = (s + (L + j)) % c
    <3>1. s + (L + 1 + j) - 1 = s + (L + j)
      BY <2>1
    <3>2. QED BY <3>1 DEF SlotOf
  <2> HIDE DEF s, c, L
  <2>6. QED BY <2>1, <2>2, <2>3, <2>4, <2>5 DEF s, c
<1>5. \A i \in 1..(L + k) : r.slots[SlotOf(r, i)] = IF i <= L THEN q.slots[SlotOf(q, i)] ELSE m
  <2> SUFFICES ASSUME NEW i \in 1..(L + k)
               PROVE  r.slots[SlotOf(r, i)] = IF i <= L THEN q.slots[SlotOf(q, i)] ELSE m
    OBVIOUS
  <2>1. i \in 1..zCapacity /\ SlotOf(r, i) = SlotOf(q, i) /\ SlotOf(q, i) \in Slots
    BY <1>1, <1>2, SlotFacts, CapacityAssumption DEF SlotOf
  <2>2. CASE i <= L
    <3>1. \A j \in 0..(k - 1) : L + 1 + j \in 1..zCapacity /\ L + 1 + j # i
      BY <1>1, <2>2, CapacityAssumption
    <3>2. \A j \in 0..(k - 1) : SlotOf(q, i) # (Back(q) + j) % zCapacity
      BY <1>4, <2>1, <3>1, SlotFacts
    <3>3. QED BY <1>2, <2>1, <2>2, <3>2
  <2>3. CASE i > L
    <3>1. i - L - 1 \in 0..(k - 1) /\ L + 1 + (i - L - 1) = i
      BY <1>1, <2>3
    <3>2. SlotOf(q, i) = (Back(q) + (i - L - 1)) % zCapacity
      BY <1>4, <3>1
    <3>3. QED BY <1>1, <1>2, <2>1, <2>3, <3>1, <3>2
  <2>4. QED BY <1>1, <2>2, <2>3
<1>6. Contents(r) = [i \in 1..(L + k) |-> r.slots[SlotOf(r, i)]]
  BY <1>2 DEF Contents, GetAt
<1>7. Contents(q) \o [i \in 1..k |-> m] =
        [i \in 1..(L + k) |-> IF i <= L THEN q.slots[SlotOf(q, i)] ELSE m]
  <2> DEFINE t == [i \in 1..k |-> m]
  <2>1. Contents(q) \in Seq(S \cup {NoItem}) /\ Len(Contents(q)) = L
    BY ContentsType
  <2>2. t \in Seq(S \cup {NoItem}) /\ Len(t) = k /\ \A i \in 1..k : t[i] = m
    OBVIOUS
  <2>3. \A i \in 1..L : Contents(q)[i] = q.slots[SlotOf(q, i)]
    BY DEF Contents, GetAt
  <2>4. Contents(q) \o t = [i \in 1..(L + k) |-> IF i <= L THEN Contents(q)[i] ELSE t[i - L]]
    <3> DEFINE u == Contents(q)
    <3>1. /\ u \in Seq(S \cup {NoItem}) /\ t \in Seq(S \cup {NoItem})
          /\ Len(u) = L /\ Len(t) = k
      BY <2>1, <2>2
    <3> HIDE DEF t, u
    <3>2. u \o t = [i \in 1..(Len(u) + Len(t)) |-> IF i <= Len(u) THEN u[i] ELSE t[i - Len(u)]]
      BY <3>1, Concatenation
    <3>3. QED BY <3>1, <3>2 DEF u
  <2>5. \A i \in 1..(L + k) : ~(i <= L) => i - L \in 1..k
    BY <1>1
  <2>6. QED BY <1>1, <2>2, <2>3, <2>4, <2>5
<1>8. QED BY <1>2, <1>3, <1>5, <1>6, <1>7

-----------------------------------------------------------------------------
(* The registry.                                                           *)
LEMMA BusCardinality == \A S : Bus!Cardinality(S) = Cardinality(S)
BY DEF Bus!Cardinality, Cardinality, Bus!IsFiniteSet, IsFiniteSet

LEMMA CopiesFacts ==
  ASSUME NEW mid, NEW p, NEW n \in Nat
  PROVE  /\ Bus!Copies(mid, p, n) \in Nat
         /\ Bus!Copies(mid, p, n) > 0 <=> \E i \in 1..n : registry[i] = p /\ iMsgId[p] = mid
<1> DEFINE T == {i \in 1..n : registry[i] = p /\ iMsgId[p] = mid}
<1>1. Bus!Copies(mid, p, n) = Cardinality(T)
  BY BusCardinality DEF Bus!Copies
<1>2. IsFiniteSet(T)
  <2>1. IsFiniteSet(1..n)
    BY FS_Interval
  <2>2. T \in SUBSET (1..n)
    OBVIOUS
  <2> HIDE DEF T
  <2>3. QED BY <2>1, <2>2, FS_Subset
<1>3. Cardinality(T) \in Nat /\ (Cardinality(T) = 0 <=> T = {})
  BY <1>2, FS_CardinalityType, FS_EmptySet
<1>4. QED BY <1>1, <1>3

LEMMA BusBounded ==
  ASSUME NEW S, NEW n \in Nat
  PROVE  Bus!BoundedSeq(S, n) = {s \in Seq(S) : Len(s) <= n}
<1>1. ASSUME NEW s \in Bus!BoundedSeq(S, n) PROVE s \in Seq(S) /\ Len(s) <= n
  <2>1. PICK m \in 0..n : s \in [1..m -> S]
    BY DEF Bus!BoundedSeq, Bus!SeqOf
  <2>2. m \in Nat
    OBVIOUS
  <2>3. s \in Seq(S)
    BY <2>1, <2>2
  <2>4. QED BY <2>1, <2>2, <2>3, LenProperties
<1>2. ASSUME NEW s \in Seq(S), Len(s) <= n PROVE s \in Bus!BoundedSeq(S, n)
  <2>1. Len(s) \in 0..n /\ s \in [1..Len(s) -> S]
    BY <1>2, LenProperties
  <2>2. QED BY <2>1 DEF Bus!BoundedSeq, Bus!SeqOf
<1>3. QED BY <1>1, <1>2

LEMMA BusBoundedEmpty ==
  ASSUME NEW S, NEW n \in Nat
  PROVE  << >> \in Bus!BoundedSeq(S, n)
<1>1. << >> \in {s \in Seq(S) : Len(s) <= n}
  BY EmptySeq
<1>2. QED BY <1>1, BusBounded

(* A pipe that the first n entries of the registry take a message for has  *)
(* room for it as often as it is among them: look at its last entry.       *)
LEMMA TakesRoom ==
  ASSUME NEW m \in Bus!Messages, NEW n \in Nat, \A i \in 1..n : Bus!Takes(m, i), NEW p \in Pipes,
         pipe[p].zLength \in 0..zCapacity
  PROVE  /\ pipe[p].zLength + Bus!Copies(m.tMid, p, n) <= zCapacity
         /\ Bus!Copies(m.tMid, p, n) > 0 => iMsgId[p] = m.tMid /\ ptArray[p] = m.tType
<1> DEFINE At(i) == registry[i] = p /\ iMsgId[p] = m.tMid
           T == {i \in 1..n : At(i)}
<1>1. CASE T = {}
  <2>1. Bus!Copies(m.tMid, p, n) = 0
    BY <1>1, CopiesFacts
  <2>2. QED BY <2>1
<1>2. CASE T # {}
  <2>1. T \in SUBSET (1..n)
    OBVIOUS
  <2>2. PICK x \in T : \A y \in T : y <= x
    <3> HIDE DEF T
    <3>1. QED BY <1>2, <2>1, GreatestElement
  <2>3. x \in 1..n /\ At(x)
    OBVIOUS
  <2>4. {i \in 1..x : At(i)} = {i \in 1..n : At(i)}
    BY <2>2
  <2>5. Bus!Copies(m.tMid, p, x) = Bus!Copies(m.tMid, p, n)
    BY <2>4 DEF Bus!Copies
  <2>6. Bus!Takes(m, x)
    BY <2>3
  <2>7. QED BY <2>3, <2>5, <2>6 DEF Bus!Takes, Bus!TypeFits
<1>3. QED BY <1>1, <1>2

-----------------------------------------------------------------------------
BusInv == Bus!TypeOK /\ Bus!PipeHoldsDue

LEMMA BusTypes ==
  ASSUME BusInv, NEW p \in Pipes
  PROVE  /\ pipe[p] \in QueueOf(Bus!Messages)
         /\ pipe[p].zLength \in 0..zCapacity
         /\ due[p] \in Seq(Bus!Messages) /\ Len(due[p]) = pipe[p].zLength
         /\ Contents(pipe[p]) = due[p]
<1>1. pipe[p] \in QueueOf(Bus!Messages)
  BY BusQueue DEF BusInv, Bus!TypeOK, QueueOf
<1>2. due[p] \in Seq(Bus!Messages)
  <2>1. due[p] \in Bus!BoundedSeq(Bus!Messages, zCapacity)
    BY DEF BusInv, Bus!TypeOK
  <2>2. QED BY <2>1, BusBounded, CapacityAssumption
<1>3. Contents(pipe[p]) = due[p]
  BY BusQueue DEF BusInv, Bus!PipeHoldsDue
<1>4. QED BY <1>1, <1>2, <1>3, ContentsType DEF QueueOf

(* A pipe that changes keeps what is due to it.                            *)
HoldsDue(p, q, d) ==
  /\ q \in QueueOf(Bus!Messages)
  /\ d \in Seq(Bus!Messages)
  /\ Contents(q) = d
  /\ \A i \in DOMAIN d : d[i].tMid = iMsgId[p] /\ d[i].tType = ptArray[p]

LEMMA BusInvBuilt ==
  ASSUME registry' \in Seq(Pipes), Len(registry') <= zRegistryCapacity,
         sent' \in 0..MaxMsgs,
         lastPublish' \in [tMsg : Bus!Messages \cup {NoItem}, tStatus : {"SUCCESS", "OOB", "ERR"}],
         pipe' = [p \in Pipes |-> pipe'[p]], due' = [p \in Pipes |-> due'[p]],
         \A p \in Pipes : HoldsDue(p, pipe'[p], due'[p])
  PROVE  BusInv'
<1>1. registry' \in Bus!BoundedSeq(Pipes, zRegistryCapacity)
  BY BusBounded, PipesAssumption DEF Bus!BrokerAssumption
<1>2. pipe' \in [Pipes -> QueueOf(Bus!Messages)]
  BY DEF HoldsDue
<1>3. \A p \in Pipes : due'[p] \in Bus!BoundedSeq(Bus!Messages, zCapacity)
  <2> SUFFICES ASSUME NEW p \in Pipes PROVE due'[p] \in Bus!BoundedSeq(Bus!Messages, zCapacity)
    OBVIOUS
  <2>1. due'[p] \in Seq(Bus!Messages) /\ Len(due'[p]) = pipe'[p].zLength
    BY ContentsType DEF HoldsDue
  <2>2. pipe'[p].zLength \in 0..zCapacity
    BY DEF HoldsDue, QueueOf
  <2>3. QED BY <2>1, <2>2, BusBounded, CapacityAssumption
<1>4. Bus!TypeOK'
  BY <1>1, <1>2, <1>3, BusQueue DEF Bus!TypeOK, QueueOf
<1>5. Bus!PipeHoldsDue'
  BY BusQueue DEF Bus!PipeHoldsDue, HoldsDue
<1>6. QED BY <1>4, <1>5 DEF BusInv

LEMMA HoldsDueNow ==
  ASSUME BusInv
  PROVE  /\ \A p \in Pipes : HoldsDue(p, pipe[p], due[p])
         /\ registry \in Seq(Pipes) /\ Len(registry) <= zRegistryCapacity /\ Len(registry) \in Nat
         /\ pipe = [p \in Pipes |-> pipe[p]] /\ due = [p \in Pipes |-> due[p]]
<1>1. \A p \in Pipes : HoldsDue(p, pipe[p], due[p])
  BY BusTypes DEF HoldsDue, BusInv, Bus!PipeHoldsDue
<1>2. registry \in Seq(Pipes) /\ Len(registry) <= zRegistryCapacity
  <2>1. registry \in Bus!BoundedSeq(Pipes, zRegistryCapacity)
    BY DEF BusInv, Bus!TypeOK
  <2>2. QED BY <2>1, BusBounded, PipesAssumption DEF Bus!BrokerAssumption
<1>3. QED BY <1>1, <1>2, LenProperties DEF BusInv, Bus!TypeOK

(* Every pipe among the first n entries gets its copies, and is due them.  *)
LEMMA PassedStep ==
  ASSUME BusInv, NEW m \in Bus!Messages, NEW n \in Nat, Bus!Passed(m, n)
  PROVE  /\ pipe' = [p \in Pipes |-> pipe'[p]] /\ due' = [p \in Pipes |-> due'[p]]
         /\ \A p \in Pipes : /\ HoldsDue(p, pipe'[p], due'[p])
                             /\ Len(due'[p]) = Len(due[p]) + Bus!Copies(m.tMid, p, n)
<1>1. /\ \A i \in 1..n : Bus!Takes(m, i)
      /\ pipe' = [p \in Pipes |-> Bus!PushTimes(pipe[p], m, Bus!Copies(m.tMid, p, n))]
      /\ due'  = [p \in Pipes |-> due[p] \o [i \in 1..Bus!Copies(m.tMid, p, n) |-> m]]
  BY DEF Bus!Passed
<1>2. ASSUME NEW p \in Pipes
      PROVE  /\ HoldsDue(p, pipe'[p], due'[p])
             /\ Len(due'[p]) = Len(due[p]) + Bus!Copies(m.tMid, p, n)
  <2> DEFINE k == Bus!Copies(m.tMid, p, n)
             d == due[p]
             t == [i \in 1..k |-> m]
  <2>1. pipe'[p] = Bus!PushTimes(pipe[p], m, k) /\ due'[p] = d \o t
    BY <1>1
  <2>2. /\ pipe[p] \in QueueOf(Bus!Messages) /\ pipe[p].zLength \in 0..zCapacity
        /\ d \in Seq(Bus!Messages) /\ Contents(pipe[p]) = d
    BY BusTypes
  <2>3. k \in Nat
    BY CopiesFacts
  <2>4. pipe[p].zLength + k <= zCapacity /\ (k > 0 => iMsgId[p] = m.tMid /\ ptArray[p] = m.tType)
    BY <1>1, <2>2, TakesRoom
  <2>5. t \in Seq(Bus!Messages) /\ Len(t) = k /\ DOMAIN t = 1..k /\ \A i \in 1..k : t[i] = m
    <3> HIDE DEF k
    <3>1. QED BY <2>3
  <2> HIDE DEF k, t, d
  <2>6. pipe'[p] \in QueueOf(Bus!Messages) /\ Contents(pipe'[p]) = d \o t
    <3> DEFINE q == pipe[p]
    <3>1. q \in QueueOf(Bus!Messages) /\ q.zLength + k <= zCapacity
      BY <2>2, <2>4
    <3> HIDE DEF q
    <3>2. /\ Bus!PushTimes(q, m, k) \in QueueOf(Bus!Messages)
          /\ Contents(Bus!PushTimes(q, m, k)) = Contents(q) \o [i \in 1..k |-> m]
      BY <2>3, <3>1, PushTimesAppends
    <3>3. QED BY <2>1, <2>2, <3>2 DEF q, t
  <2>7. /\ d \o t \in Seq(Bus!Messages) /\ Len(d \o t) = Len(d) + k
        /\ DOMAIN (d \o t) = 1..(Len(d) + k) /\ Len(d) \in Nat
        /\ \A i \in 1..(Len(d) + k) : (d \o t)[i] = IF i <= Len(d) THEN d[i] ELSE t[i - Len(d)]
    <3>1. /\ d \o t \in Seq(Bus!Messages) /\ Len(d \o t) = Len(d) + Len(t)
          /\ \A i \in 1..(Len(d) + Len(t)) :
               (d \o t)[i] = IF i <= Len(d) THEN d[i] ELSE t[i - Len(d)]
      BY <2>2, <2>5, ConcatProperties
    <3>2. QED BY <2>2, <2>5, <3>1, LenProperties
  <2>8. \A i \in DOMAIN (d \o t) : (d \o t)[i].tMid = iMsgId[p] /\ (d \o t)[i].tType = ptArray[p]
    <3>1. \A i \in 1..Len(d) : d[i].tMid = iMsgId[p] /\ d[i].tType = ptArray[p]
      BY <2>2, LenProperties DEF BusInv, Bus!PipeHoldsDue, d
    <3>2. ASSUME NEW i \in 1..(Len(d) + k), ~(i <= Len(d))
          PROVE  (d \o t)[i] = m /\ k > 0
      <4>1. i - Len(d) \in 1..k
        BY <2>3, <2>7, <3>2
      <4>2. QED BY <2>3, <2>5, <2>7, <3>2, <4>1
    <3>3. QED BY <2>4, <2>7, <3>1, <3>2
  <2>9. QED BY <2>1, <2>6, <2>7, <2>8 DEF HoldsDue, k, d
<1>3. QED BY <1>1, <1>2

LEMMA ComposesStep ==
  ASSUME BusInv, NEW m \in Bus!Messages, Bus!Composes(m)
  PROVE  sent' \in 0..MaxMsgs
BY PipesAssumption DEF Bus!Composes, Bus!Messages, BusInv, Bus!TypeOK, Bus!BrokerAssumption

LEMMA BusStarts == Bus!Init => BusInv
<1> SUFFICES ASSUME Bus!Init PROVE BusInv
  OBVIOUS
<1> DEFINE q == QueueInit(EmptySlots)
<1>1. q \in QueueOf(Bus!Messages) /\ q.zLength = 0
  BY CapacityAssumption DEF QueueInit, EmptySlots, Slots, QueueOf
<1>2. Contents(q) = << >>
  BY <1>1, ContentsType, EmptySeq
<1>3. pipe = [p \in Pipes |-> q] /\ due = [p \in Pipes |-> << >>]
  BY BusQueue DEF Bus!Init
<1>4. Bus!PipeHoldsDue
  BY <1>2, <1>3, BusQueue DEF Bus!PipeHoldsDue
<1>5. registry \in Bus!BoundedSeq(Pipes, zRegistryCapacity)
  BY BusBoundedEmpty, PipesAssumption DEF Bus!Init, Bus!BrokerAssumption
<1>6. \A p \in Pipes : due[p] \in Bus!BoundedSeq(Bus!Messages, zCapacity)
  BY <1>3, BusBoundedEmpty, CapacityAssumption
<1>7. sent \in 0..MaxMsgs
       /\ lastPublish \in [tMsg : Bus!Messages \cup {NoItem}, tStatus : {"SUCCESS", "OOB", "ERR"}]
  BY PipesAssumption DEF Bus!Init, Bus!NoCall, Bus!BrokerAssumption
<1>8. pipe \in [Pipes -> QueueOf(Bus!Messages)]
  BY <1>1, <1>3
<1>9. due \in [Pipes -> Bus!BoundedSeq(Bus!Messages, zCapacity)]
  BY <1>3, <1>6
<1>10. Bus!TypeOK
  BY <1>5, <1>7, <1>8, <1>9, BusQueue DEF Bus!TypeOK, QueueOf
<1>11. QED BY <1>4, <1>10 DEF BusInv

(* The subscriber's steps.                                                 *)
LEMMA SubscriberKeeps ==
  ASSUME BusInv, NEW p \in Pipes, Bus!RegisterSubscriber(p) \/ Bus!PipeInit(p) \/ Bus!Dequeue(p)
  PROVE  BusInv'
<1>0. sent \in 0..MaxMsgs
       /\ lastPublish \in [tMsg : Bus!Messages \cup {NoItem}, tStatus : {"SUCCESS", "OOB", "ERR"}]
  BY DEF BusInv, Bus!TypeOK
<1>1. CASE Bus!RegisterSubscriber(p)
  <2>1. registry' \in Seq(Pipes) /\ Len(registry') <= zRegistryCapacity
    BY <1>1, HoldsDueNow, AppendProperties, PipesAssumption DEF Bus!RegisterSubscriber,
       Bus!BrokerAssumption
  <2>2. UNCHANGED <<pipe, due, sent, lastPublish>>
    BY <1>1 DEF Bus!RegisterSubscriber
  <2>3. QED BY <1>0, <2>1, <2>2, HoldsDueNow, BusInvBuilt
<1>2. CASE Bus!PipeInit(p)
  <2> DEFINE q == QueueInit(pipe[p].slots)
  <2>1. /\ pipe' = [pipe EXCEPT ![p] = q] /\ due' = [due EXCEPT ![p] = << >>]
        /\ UNCHANGED <<registry, sent, lastPublish>>
    BY <1>2, BusQueue DEF Bus!PipeInit
  <2>2. q \in QueueOf(Bus!Messages) /\ q.zLength = 0
    BY BusTypes, CapacityAssumption DEF QueueInit, QueueOf, Slots
  <2>3. Contents(q) = << >>
    BY <2>2, ContentsType, EmptySeq
  <2>4. HoldsDue(p, q, << >>)
    BY <2>2, <2>3, EmptySeq DEF HoldsDue
  <2> HIDE DEF q
  <2>5. \A r \in Pipes : HoldsDue(r, pipe'[r], due'[r])
    BY <2>1, <2>4, HoldsDueNow
  <2>6. QED BY <1>0, <2>1, <2>5, HoldsDueNow, BusInvBuilt
<1>3. CASE Bus!Dequeue(p)
  <2> DEFINE q == Pop(pipe[p])
  <2>1. /\ ~IsEmpty(pipe[p])
        /\ pipe' = [pipe EXCEPT ![p] = q] /\ due' = [due EXCEPT ![p] = Tail(due[p])]
        /\ UNCHANGED <<registry, sent, lastPublish>>
    BY <1>3, BusQueue DEF Bus!Dequeue
  <2>2. q \in QueueOf(Bus!Messages) /\ due[p] # << >> /\ Contents(q) = Tail(due[p])
    BY <2>1, BusTypes, PopTakesHead
  <2>3. HoldsDue(p, q, Tail(due[p]))
    <3>1. due[p] \in Seq(Bus!Messages)
      BY BusTypes
    <3>2. /\ Tail(due[p]) \in Seq(Bus!Messages) /\ Len(Tail(due[p])) = Len(due[p]) - 1
          /\ DOMAIN Tail(due[p]) = 1..(Len(due[p]) - 1) /\ DOMAIN due[p] = 1..Len(due[p])
          /\ \A i \in 1..(Len(due[p]) - 1) : Tail(due[p])[i] = due[p][i + 1]
          /\ Len(due[p]) \in Nat
      BY <2>2, <3>1, HeadTailProperties, LenProperties
    <3>3. \A i \in DOMAIN due[p] : due[p][i].tMid = iMsgId[p] /\ due[p][i].tType = ptArray[p]
      BY DEF BusInv, Bus!PipeHoldsDue
    <3>4. QED BY <2>2, <3>2, <3>3 DEF HoldsDue
  <2> HIDE DEF q
  <2>4. \A r \in Pipes : HoldsDue(r, pipe'[r], due'[r])
    BY <2>1, <2>3, HoldsDueNow
  <2>5. QED BY <1>0, <2>1, <2>4, HoldsDueNow, BusInvBuilt
<1>4. QED BY <1>1, <1>2, <1>3

LEMMA PublisherKeeps ==
  ASSUME BusInv, NEW m \in Bus!Messages, Bus!Publish(m) \/ Bus!PublishFails(m)
  PROVE  BusInv'
<1>1. PICK n \in Nat : Bus!Passed(m, n)
  BY HoldsDueNow DEF Bus!Publish, Bus!PublishFails
<1>2. registry' = registry /\ Bus!Composes(m)
  BY DEF Bus!Publish, Bus!PublishFails
<1>3. lastPublish' \in [tMsg : Bus!Messages \cup {NoItem}, tStatus : {"SUCCESS", "OOB", "ERR"}]
  BY DEF Bus!Publish, Bus!PublishFails, Bus!StoppedAt
<1>4. QED BY <1>1, <1>2, <1>3, ComposesStep, PassedStep, HoldsDueNow, BusInvBuilt

LEMMA BusKeeps == BusInv /\ [Bus!Next]_(Bus!vars) => BusInv'
<1> SUFFICES ASSUME BusInv, [Bus!Next]_(Bus!vars) PROVE BusInv'
  OBVIOUS
<1>1. CASE Bus!Next
  BY <1>1, SubscriberKeeps, PublisherKeeps DEF Bus!Next
<1>2. CASE UNCHANGED Bus!vars
  BY <1>2 DEF Bus!vars, BusInv, Bus!TypeOK, Bus!PipeHoldsDue
<1>3. QED BY <1>1, <1>2

-----------------------------------------------------------------------------
(* A step that lengthens what is due to a pipe is a Publish whose loop met *)
(* that pipe, and so every entry before its first one.                     *)
FanOutStep ==
  \A i, j \in DOMAIN registry :
       /\ i < j
       /\ iMsgId[registry[i]] = iMsgId[registry[j]]
       /\ \A h \in 1..(j - 1) : registry[h] # registry[j]
       /\ Len(due'[registry[j]]) > Len(due[registry[j]])
       => Len(due'[registry[i]]) > Len(due[registry[i]])

LEMMA BusFansOut == BusInv /\ [Bus!Next]_(Bus!vars) => FanOutStep
<1> SUFFICES ASSUME BusInv, [Bus!Next]_(Bus!vars),
                    NEW i \in DOMAIN registry, NEW j \in DOMAIN registry, i < j,
                    iMsgId[registry[i]] = iMsgId[registry[j]],
                    \A h \in 1..(j - 1) : registry[h] # registry[j],
                    Len(due'[registry[j]]) > Len(due[registry[j]])
             PROVE  Len(due'[registry[i]]) > Len(due[registry[i]])
  BY DEF FanOutStep
<1> DEFINE a == registry[i]
           b == registry[j]
<1>1. /\ i \in Nat /\ j \in Nat /\ i >= 1
      /\ a \in Pipes /\ b \in Pipes
      /\ Len(due[a]) \in Nat /\ Len(due[b]) \in Nat
  <2>1. registry \in Seq(Pipes)
    BY HoldsDueNow
  <2>2. DOMAIN registry = 1..Len(registry) /\ Len(registry) \in Nat
    BY <2>1, LenProperties
  <2>3. \A p \in Pipes : Len(due[p]) \in Nat
    BY BusTypes, LenProperties
  <2>4. QED BY <2>1, <2>2, <2>3
<1>2. ASSUME NEW p \in Pipes, Bus!RegisterSubscriber(p) \/ Bus!PipeInit(p) \/ Bus!Dequeue(p)
      PROVE  ~(Len(due'[b]) > Len(due[b]))
  <2>1. CASE Bus!RegisterSubscriber(p)
    BY <1>1, <2>1 DEF Bus!RegisterSubscriber
  <2>2. CASE Bus!PipeInit(p)
    <3>1. due' = [due EXCEPT ![p] = << >>] /\ due = [r \in Pipes |-> due[r]]
      BY <2>2, HoldsDueNow DEF Bus!PipeInit
    <3>2. due'[b] = IF b = p THEN << >> ELSE due[b]
      BY <1>1, <3>1
    <3>3. Len(<< >>) = 0
      BY EmptySeq
    <3>4. QED BY <1>1, <3>2, <3>3
  <2>3. CASE Bus!Dequeue(p)
    <3>1. due' = [due EXCEPT ![p] = Tail(due[p])] /\ due = [r \in Pipes |-> due[r]] /\ ~IsEmpty(pipe[p])
      BY <2>3, HoldsDueNow, BusQueue DEF Bus!Dequeue
    <3>2. due'[b] = IF b = p THEN Tail(due[p]) ELSE due[b]
      BY <1>1, <3>1
    <3>3. due[p] \in Seq(Bus!Messages) /\ due[p] # << >>
      BY <3>1, BusTypes, PopTakesHead
    <3>4. Len(Tail(due[p])) = Len(due[p]) - 1
      BY <3>3, HeadTailProperties
    <3>5. QED BY <1>1, <3>2, <3>4
  <2>4. QED BY <1>2, <2>1, <2>2, <2>3
<1>3. ASSUME NEW m \in Bus!Messages, NEW n \in Nat, Bus!Passed(m, n)
      PROVE  Len(due'[a]) > Len(due[a])
  <2>1. \A p \in Pipes : Len(due'[p]) = Len(due[p]) + Bus!Copies(m.tMid, p, n)
    BY <1>3, PassedStep
  <2>2. Bus!Copies(m.tMid, b, n) > 0 /\ Bus!Copies(m.tMid, b, n) \in Nat
    BY <1>1, <2>1, CopiesFacts
  <2>3. PICK h \in 1..n : registry[h] = b /\ iMsgId[b] = m.tMid
    BY <2>2, CopiesFacts
  <2>4. h \notin 1..(j - 1)
    BY <2>3
  <2>5. i \in 1..n /\ registry[i] = a /\ iMsgId[a] = m.tMid
    BY <1>1, <2>3, <2>4
  <2>6. Bus!Copies(m.tMid, a, n) > 0 /\ Bus!Copies(m.tMid, a, n) \in Nat
    BY <2>5, CopiesFacts
  <2>7. QED BY <1>1, <2>1, <2>6
<1>4. ASSUME NEW m \in Bus!Messages, Bus!Publish(m) \/ Bus!PublishFails(m)
      PROVE  Len(due'[a]) > Len(due[a])
  <2>1. PICK n \in Nat : Bus!Passed(m, n)
    BY <1>4, HoldsDueNow DEF Bus!Publish, Bus!PublishFails
  <2>2. QED BY <1>3, <2>1
<1>5. CASE UNCHANGED Bus!vars
  BY <1>1, <1>5 DEF Bus!vars
<1>6. QED BY <1>2, <1>4, <1>5 DEF Bus!Next

-----------------------------------------------------------------------------
(* The broker is one of the containers: the run's specification is the     *)
(* broker's on the broker's variables.                                     *)
LEMMA BrokerOfContainers == ContainersSpec => Bus!Spec
<1>1. ContainersInit => Bus!Init
  BY DEF ContainersInit
<1>2. [\/ QueueStep \/ StackStep \/ MapStep \/ CppQueueStep \/ CppStackStep \/ BrokerStep
      ]_<<which, vars, stackVars, mapVars, cppVars, busVars>> => [Bus!Next]_(Bus!vars)
  BY DEF QueueStep, StackStep, MapStep, CppQueueStep, CppStackStep, BrokerStep, busVars, Bus!vars
<1>3. QED BY <1>1, <1>2, PTL DEF ContainersSpec, Bus!Spec

LEMMA BusInvariance == Bus!Spec => []BusInv
BY BusStarts, BusKeeps, PTL DEF Bus!Spec

(* A pipe holds what was published to it since its PipeInit and not        *)
(* dequeued, in order, of its own message id and element type, however     *)
(* often it is registered and whatever was refused in between.             *)
THEOREM PipesHoldWhatIsDue == ContainersSpec => []PipeHoldsDue
<1>1. BusInv => PipeHoldsDue
  BY DEF BusInv, PipeHoldsDue
<1>2. QED BY <1>1, BrokerOfContainers, BusInvariance, PTL

(* Publish serves the registry in order and stops at the first failure:    *)
(* who got a message is a prefix of who was registered for it.             *)
THEOREM PublishServesPrefix == ContainersSpec => PrefixFanOut
<1>1. BusInv /\ [Bus!Next]_(Bus!vars) => [FanOutStep]_(Bus!vars)
  BY BusFansOut
<1>2. PrefixFanOut <=> [][FanOutStep]_(Bus!vars)
  BY PTL DEF PrefixFanOut, Bus!PrefixFanOut, FanOutStep
<1>3. QED BY <1>1, <1>2, BrokerOfContainers, BusInvariance, PTL DEF Bus!Spec

-----------------------------------------------------------------------------
(* The stacks: the items are the first n slots, the newest in the last.    *)
LowSlots(slots, n) == SubSeq([k \in 1..zCapacity |-> slots[k - 1]], 1, n)

LEMMA LowSlotsFacts ==
  ASSUME NEW S, NEW slots \in [Slots -> S], NEW n \in 0..zCapacity
  PROVE  /\ LowSlots(slots, n) = [k \in 1..n |-> slots[k - 1]]
         /\ LowSlots(slots, n) \in Seq(S)
         /\ Len(LowSlots(slots, n)) = n
         /\ LowSlots(slots, n) = << >> <=> n = 0
<1> DEFINE all == [k \in 1..zCapacity |-> slots[k - 1]]
<1>1. all \in Seq(S) /\ Len(all) = zCapacity /\ zCapacity \in Nat
  <2>1. \A k \in 1..zCapacity : k - 1 \in Slots
    BY CapacityAssumption DEF Slots
  <2>2. QED BY <2>1, CapacityAssumption
<1>2. LowSlots(slots, n) = [k \in 1..n |-> slots[k - 1]]
  <2>1. \A k \in 1..n : all[k] = slots[k - 1]
    BY <1>1
  <2>2. LowSlots(slots, n) = SubSeq(all, 1, n)
    BY DEF LowSlots
  <2> HIDE DEF all
  <2>3. SubSeq(all, 1, n) = [k \in 1..n |-> all[k]]
    BY <1>1
  <2>4. QED BY <2>1, <2>2, <2>3
<1>3. \A k \in 1..n : slots[k - 1] \in S
  BY <1>1 DEF Slots
<1>4. [k \in 1..n |-> slots[k - 1]] \in Seq(S) /\ Len([k \in 1..n |-> slots[k - 1]]) = n
  BY <1>1, <1>3
<1>5. QED BY <1>1, <1>2, <1>4, EmptySeq

LEMMA LowSlotsPush ==
  ASSUME NEW S, NEW slots \in [Slots -> S], NEW n \in 0..zCapacity, n < zCapacity, NEW x \in S,
         NEW new \in [Slots -> S], new[n] = x, \A i \in Slots : i # n => new[i] = slots[i]
  PROVE  LowSlots(new, n + 1) = Append(LowSlots(slots, n), x)
<1> DEFINE a == LowSlots(slots, n)
<1>1. /\ n \in Nat /\ n + 1 \in 0..zCapacity /\ n \in Slots
      /\ \A k \in 1..(n + 1) : k - 1 \in Slots
  BY CapacityAssumption DEF Slots
<1>2. LowSlots(new, n + 1) = [k \in 1..(n + 1) |-> new[k - 1]]
  BY <1>1, LowSlotsFacts
<1>3. \A k \in 1..(n + 1) : new[k - 1] = IF k = n + 1 THEN x ELSE slots[k - 1]
  BY <1>1
<1>4. a \in Seq(S) /\ Len(a) = n /\ a = [k \in 1..n |-> slots[k - 1]]
  BY LowSlotsFacts
<1>5. Append(a, x) = [k \in 1..(n + 1) |-> IF k = n + 1 THEN x ELSE slots[k - 1]]
  <2> HIDE DEF a
  <2>1. Append(a, x) = [k \in 1..(n + 1) |-> IF k = n + 1 THEN x ELSE a[k]]
    BY <1>1, <1>4
  <2>2. \A k \in 1..(n + 1) : k # n + 1 => a[k] = slots[k - 1]
    BY <1>1, <1>4
  <2>3. QED BY <2>1, <2>2
<1> HIDE DEF a
<1>6. QED BY <1>1, <1>2, <1>3, <1>5 DEF a

LEMMA LowSlotsPop ==
  ASSUME NEW S, NEW slots \in [Slots -> S], NEW n \in 0..zCapacity, n > 0
  PROVE  /\ n - 1 \in 0..zCapacity /\ slots[n - 1] \in S
         /\ LowSlots(slots, n - 1) = SubSeq(LowSlots(slots, n), 1, n - 1)
         /\ LowSlots(slots, n)[n] = slots[n - 1]
<1>1. n - 1 \in 0..zCapacity /\ n - 1 \in Slots /\ n \in 1..n
  BY CapacityAssumption DEF Slots
<1>2. LowSlots(slots, n) = [k \in 1..n |-> slots[k - 1]]
  BY LowSlotsFacts
<1>3. LowSlots(slots, n - 1) = [k \in 1..(n - 1) |-> slots[k - 1]]
  BY <1>1, LowSlotsFacts
<1>4. SubSeq(LowSlots(slots, n), 1, n - 1) = [k \in 1..(n - 1) |-> slots[k - 1]]
  BY <1>1, <1>2
<1>5. QED BY <1>1, <1>2, <1>3, <1>4

LEMMA StackInstance ==
  /\ Stack!Slots = Slots /\ Stack!EmptySlots = EmptySlots
  /\ Stack!TypeOK <=> /\ zStack \in 0..zCapacity
                      /\ stackSlots \in [Slots -> Items \cup {NoItem}]
                      /\ stackReturn \in Items \cup {NoItem}
BY DEF Stack!Slots, Slots, Stack!EmptySlots, EmptySlots, Stack!TypeOK

LEMMA StackTypeCorrect == Stack!Spec => []Stack!TypeOK
<1>1. Stack!Init => Stack!TypeOK
  BY StackInstance, CapacityAssumption DEF Stack!Init, EmptySlots
<1>2. Stack!TypeOK /\ [Stack!Next]_(Stack!vars) => Stack!TypeOK'
  <2> SUFFICES ASSUME Stack!TypeOK, [Stack!Next]_(Stack!vars) PROVE Stack!TypeOK'
    OBVIOUS
  <2>1. ASSUME NEW x \in Items, Stack!Push(x) PROVE Stack!TypeOK'
    <3>1. stackSlots' \in [Slots -> Items \cup {NoItem}]
      BY <2>1, StackInstance DEF Stack!Push, Stack!SetAt
    <3>2. zStack + 1 \in 0..zCapacity
      BY <2>1, StackInstance, CapacityAssumption DEF Stack!Push
    <3>3. QED BY <2>1, <3>1, <3>2, StackInstance DEF Stack!Push, Stack!TypeOK
  <2>2. ASSUME NEW x \in Items, Stack!PushFails(x) PROVE Stack!TypeOK'
    BY <2>2 DEF Stack!PushFails, Stack!TypeOK
  <2>3. CASE Stack!Pop \/ Stack!PopCopyFails
    <3>1. zStack - 1 \in 0..zCapacity /\ stackSlots[zStack - 1] \in Items \cup {NoItem}
      BY <2>3, StackInstance, LowSlotsPop DEF Stack!Pop, Stack!PopCopyFails
    <3>2. QED BY <2>3, <3>1 DEF Stack!Pop, Stack!PopCopyFails, Stack!GetAt, Stack!TypeOK
  <2>4. CASE Stack!PopEmpty \/ Stack!Peek \/ UNCHANGED Stack!vars
    BY <2>4 DEF Stack!PopEmpty, Stack!Peek, Stack!vars, Stack!TypeOK
  <2>5. QED BY <2>1, <2>2, <2>3, <2>4 DEF Stack!Next
<1>3. QED BY <1>1, <1>2, PTL DEF Stack!Spec

LEMMA StackOfContainers == ContainersSpec => Stack!Spec
<1>1. ContainersInit => Stack!Init
  BY DEF ContainersInit
<1>2. [\/ QueueStep \/ StackStep \/ MapStep \/ CppQueueStep \/ CppStackStep \/ BrokerStep
      ]_<<which, vars, stackVars, mapVars, cppVars, busVars>> => [Stack!Next]_(Stack!vars)
  BY DEF QueueStep, StackStep, MapStep, CppQueueStep, CppStackStep, BrokerStep, stackVars, Stack!vars
<1>3. QED BY <1>1, <1>2, PTL DEF ContainersSpec, Stack!Spec

(* The stack of juno_buff_stack.c hands items out newest first and once    *)
(* each, whatever its capacity and whichever element operation fails,      *)
(* though the slots above its top keep what they held.                     *)
THEOREM StackRefinement == ContainersSpec => ImplementsLifo
<1> DEFINE lifo == LowSlots(stackSlots, zStack)
           elems == Items \cup {NoItem}
<1>1. Stack!Init => Stack!Lifo!Init
  <2> SUFFICES ASSUME Stack!Init PROVE Stack!Lifo!Init
    OBVIOUS
  <2>1. stackSlots \in [Slots -> elems] /\ zStack = 0 /\ 0 \in 0..zCapacity
    BY StackInstance, CapacityAssumption DEF Stack!Init, EmptySlots
  <2>2. lifo = << >>
    <3> HIDE DEF elems
    <3>1. QED BY <2>1, LowSlotsFacts
  <2>3. QED BY <2>2 DEF LowSlots, Stack!Init, Stack!Lifo!Init, Stack!Call, Stack!Lifo!Call
<1>2. Stack!TypeOK /\ [Stack!Next]_(Stack!vars) => [Stack!Lifo!Next]_(Stack!Lifo!vars)
  <2> SUFFICES ASSUME Stack!TypeOK, [Stack!Next]_(Stack!vars)
               PROVE  [Stack!Lifo!Next]_(Stack!Lifo!vars)
    OBVIOUS
  <2>0. /\ zStack \in 0..zCapacity /\ zStack \in Nat /\ stackSlots \in [Slots -> elems]
        /\ lifo \in Seq(elems) /\ Len(lifo) = zStack /\ (lifo = << >> <=> zStack = 0)
    <3>1. zStack \in 0..zCapacity /\ zStack \in Nat /\ stackSlots \in [Slots -> elems]
      BY StackInstance, CapacityAssumption
    <3>2. lifo \in Seq(elems) /\ Len(lifo) = zStack /\ (lifo = << >> <=> zStack = 0)
      <4> HIDE DEF elems
      <4>1. QED BY <3>1, LowSlotsFacts
    <3>3. QED BY <3>1, <3>2
  <2>1. ASSUME NEW x \in Items, Stack!Push(x) PROVE Stack!Lifo!Push(x)
    <3>1. zStack < zCapacity /\ stackSlots' = [stackSlots EXCEPT ![zStack] = x] /\ zStack' = zStack + 1
      BY <2>1 DEF Stack!Push, Stack!SetAt
    <3>2. x \in elems
      OBVIOUS
    <3>3. LowSlots(stackSlots', zStack') = Append(lifo, x)
      <4> HIDE DEF elems
      <4>1. LowSlots(stackSlots', zStack + 1) = Append(lifo, x)
        <5>1. /\ stackSlots \in [Slots -> elems] /\ zStack \in 0..zCapacity /\ zStack < zCapacity
              /\ stackSlots' \in [Slots -> elems] /\ stackSlots'[zStack] = x
              /\ \A i \in Slots : i # zStack => stackSlots'[i] = stackSlots[i]
          <6>1. stackSlots \in [Slots -> elems] /\ zStack \in 0..zCapacity /\ zStack \in Slots
            BY <2>0, <3>1, CapacityAssumption DEF Slots
          <6>2. QED BY <3>1, <3>2, <6>1
        <5>2. QED BY <3>2, <5>1, LowSlotsPush
      <4>2. QED BY <3>1, <4>1
    <3>4. Len(lifo) < zCapacity
      BY <2>0, <3>1
    <3>5. QED BY <2>1, <3>3, <3>4 DEF LowSlots, Stack!Push, Stack!Lifo!Push, Stack!Call, Stack!Lifo!Call
  <2>2. ASSUME NEW x \in Items, Stack!PushFails(x) PROVE Stack!Lifo!PushFails(x)
    BY <2>0, <2>2, CapacityAssumption
       DEF LowSlots, Stack!PushFails, Stack!Lifo!PushFails, Stack!Call, Stack!Lifo!Call
  <2>3. zStack > 0 => /\ LowSlots(stackSlots, zStack - 1) = Stack!Lifo!Front(lifo)
                      /\ Stack!Lifo!Last(lifo) = stackSlots[zStack - 1]
    <3> HIDE DEF elems
    <3>1. ASSUME zStack > 0
          PROVE  /\ LowSlots(stackSlots, zStack - 1)
                      = SubSeq(LowSlots(stackSlots, zStack), 1, zStack - 1)
                 /\ LowSlots(stackSlots, zStack)[zStack] = stackSlots[zStack - 1]
      BY <2>0, <3>1, LowSlotsPop
    <3>2. QED BY <2>0, <3>1 DEF Stack!Lifo!Front, Stack!Lifo!Last
  <2>4. CASE Stack!Pop
    <3>1. zStack > 0 /\ zStack' = zStack - 1 /\ stackSlots' = stackSlots
      BY <2>4 DEF Stack!Pop
    <3>2. LowSlots(stackSlots', zStack') = Stack!Lifo!Front(lifo)
      BY <2>3, <3>1
    <3>3. lifo # << >> /\ Stack!Lifo!Last(lifo) = stackSlots[zStack - 1]
      BY <2>0, <2>3, <3>1
    <3>4. Stack!Lifo!Pop
      BY <2>4, <3>2, <3>3 DEF LowSlots, Stack!Pop, Stack!GetAt, Stack!Lifo!Pop, Stack!Call,
         Stack!Lifo!Call
    <3>5. QED BY <3>4 DEF Stack!Lifo!Next
  <2>5. CASE Stack!PopEmpty \/ Stack!PopCopyFails
    <3>1. CASE Stack!PopEmpty
      <4>1. lifo = << >>
        BY <2>0, <3>1 DEF Stack!PopEmpty
      <4>2. Stack!Lifo!PopFails
        BY <3>1, <4>1 DEF LowSlots, Stack!PopEmpty, Stack!Lifo!PopFails, Stack!Call, Stack!Lifo!Call
      <4>3. QED BY <4>2 DEF Stack!Lifo!Next
    <3>2. CASE Stack!PopCopyFails
      <4>1. zStack > 0 /\ zStack' = zStack - 1 /\ stackSlots' = stackSlots
        BY <3>2 DEF Stack!PopCopyFails
      <4>2. LowSlots(stackSlots', zStack') = Stack!Lifo!Front(lifo) /\ lifo # << >>
        BY <2>0, <2>3, <4>1
      <4>3. Stack!Lifo!PopFails
        BY <3>2, <4>2 DEF LowSlots, Stack!PopCopyFails, Stack!Lifo!PopFails, Stack!Call, Stack!Lifo!Call
      <4>4. QED BY <4>3 DEF Stack!Lifo!Next
    <3>3. QED BY <2>5, <3>1, <3>2
  <2>6. CASE Stack!Peek
    <3>1. Stack!Lifo!Peek
      BY <2>0, <2>3, <2>6 DEF LowSlots, Stack!Peek, Stack!GetAt, Stack!Lifo!Peek,
         Stack!Call, Stack!Lifo!Call
    <3>2. QED BY <3>1 DEF Stack!Lifo!Next
  <2>7. CASE UNCHANGED Stack!vars
    BY <2>7 DEF Stack!vars, Stack!Lifo!vars
  <2>8. QED BY <2>1, <2>2, <2>4, <2>5, <2>6, <2>7 DEF Stack!Next, Stack!Lifo!Next
<1>3. QED BY <1>1, <1>2, StackTypeCorrect, StackOfContainers, PTL
      DEF ImplementsLifo, Stack!ImplementsLifo, Stack!Lifo!Spec, Stack!Spec

-----------------------------------------------------------------------------
(* The C++ containers: the queue operators are the C queue's, but for the  *)
(* slot that a dequeued item leaves behind.                                *)
LEMMA CppQueueOperators ==
  /\ Cpp!Slots = Slots /\ Cpp!EmptySlots = EmptySlots
  /\ \A q : Cpp!Contents(q) = Contents(q) /\ Cpp!Oldest(q) = Oldest(q)
  /\ \A q, x : Cpp!Push(q, x) = Push(q, x)
  /\ \A slots : Cpp!QueueInit(slots) = QueueInit(slots)
BY DEF Cpp!Slots, Slots, Cpp!EmptySlots, EmptySlots, Cpp!Contents, Contents, Cpp!Oldest, Oldest,
       Cpp!Push, Push, Cpp!QueueInit, QueueInit, Cpp!SlotOf, SlotOf, Cpp!GetAt, GetAt,
       Cpp!SetAt, SetAt, Cpp!Back, Back

LEMMA AdvancedTakesHead ==
  ASSUME NEW S, NEW q \in QueueOf(S), q.zLength > 0
  PROVE  /\ Cpp!Advanced(q) \in QueueOf(S)
         /\ Contents(Cpp!Advanced(q)) = Tail(Contents(q))
<1> DEFINE r == Cpp!Advanced(q)
<1>1. /\ q.zLength \in 1..zCapacity /\ ~IsEmpty(q)
      /\ q.slots \in [Slots -> S \cup {NoItem}]
  BY CapacityAssumption DEF IsEmpty, QueueOf
<1>2. r.iStartIndex = Pop(q).iStartIndex /\ r.zLength = q.zLength - 1 /\ r.slots = q.slots
  BY DEF Cpp!Advanced, Pop, QueueOf
<1>3. Pop(q).iStartIndex \in Slots
  BY <1>1, PopTakesHead DEF QueueOf
<1>4. r \in QueueOf(S)
  <2> DEFINE s == (q.iStartIndex + 1) % zCapacity
             m == [q EXCEPT !.iStartIndex = s]
  <2>1. s \in Slots /\ q.zLength - 1 \in 0..zCapacity
    BY <1>1, <1>3, CapacityAssumption DEF Pop
  <2>2. r = [m EXCEPT !.zLength = q.zLength - 1]
    BY DEF Cpp!Advanced, QueueOf
  <2> HIDE DEF s, r
  <2>3. m \in QueueOf(S)
    BY <2>1 DEF QueueOf
  <2> HIDE DEF m
  <2>4. QED BY <2>1, <2>2, <2>3 DEF QueueOf
<1>5. \A k \in 1..(q.zLength - 1) : SlotOf(r, k) = SlotOf(q, k + 1)
  BY <1>1, <1>2, PopShifts DEF SlotOf
<1>6. Contents(r) = [k \in 1..(q.zLength - 1) |-> q.slots[SlotOf(q, k + 1)]]
  <2>1. Contents(r) = [k \in 1..(q.zLength - 1) |-> q.slots[SlotOf(r, k)]]
    BY <1>2 DEF Contents, GetAt
  <2>2. QED BY <1>5, <2>1
<1>7. Contents(q) # << >> /\ Len(Contents(q)) = q.zLength /\ Contents(q) \in Seq(S \cup {NoItem})
  BY <1>1, PopTakesHead, ContentsType
<1>8. Tail(Contents(q)) = [k \in 1..(q.zLength - 1) |-> q.slots[SlotOf(q, k + 1)]]
  BY <1>1, <1>7, CapacityAssumption DEF Contents, GetAt
<1>9. QED BY <1>4, <1>6, <1>8

(* A refusal is an OOB of the specifications.                              *)
LEMMA CallFacts ==
  ASSUME NEW op, NEW x
  PROVE  /\ Cpp!AsOob(Cpp!CppCall(op, x, "SUCCESS")) = Cpp!CppCall(op, x, "SUCCESS")
         /\ Cpp!AsOob(Cpp!CppCall(op, x, "INVALID_SIZE")) = Cpp!CppCall(op, x, "OOB")
         /\ Cpp!AsOob(Cpp!CppCall(op, x, "ERR")) = Cpp!CppCall(op, x, "OOB")
BY DEF Cpp!CppCall, Cpp!AsOob

LEMMA FifoCall ==
  ASSUME NEW op, NEW x, NEW status
  PROVE  Cpp!CppFifo!Call(op, x, status) = Cpp!CppCall(op, x, status)
BY DEF Cpp!CppCall, Cpp!CppFifo!Call

(* One call of the C++ queue is one call of a FIFO queue.                  *)
CppQueueOK ==
  /\ cppQueue = [tRoot |-> cppQueue.tRoot, tReturn |-> cppQueue.tReturn, last |-> cppQueue.last]
  /\ cppQueue.tRoot \in QueueOf(Items)

LEMMA CppQueueStarts == Cpp!CppInit => CppQueueOK /\ Cpp!CppFifo!Init
<1> SUFFICES ASSUME Cpp!CppInit PROVE CppQueueOK /\ Cpp!CppFifo!Init
  OBVIOUS
<1> DEFINE q == QueueInit(EmptySlots)
<1>1. q \in QueueOf(Items) /\ q.zLength = 0
  BY CapacityAssumption DEF QueueInit, EmptySlots, Slots, QueueOf
<1>2. Contents(q) = << >>
  BY <1>1, ContentsType, EmptySeq
<1>3. cppQueue = [tRoot |-> q, tReturn |-> NoItem, last |-> Cpp!CppCall("Init", NoItem, "SUCCESS")]
  BY CppQueueOperators DEF Cpp!CppInit
<1> HIDE DEF q
<1>4. /\ cppQueue.tRoot = q /\ cppQueue.tReturn = NoItem
      /\ cppQueue.last = Cpp!CppCall("Init", NoItem, "SUCCESS")
  BY <1>3
<1>5. CppQueueOK
  BY <1>1, <1>3, <1>4 DEF CppQueueOK
<1>6. Cpp!AsOob(cppQueue.last) = Cpp!CppFifo!Call("Init", NoItem, "SUCCESS")
  BY <1>4, CallFacts, FifoCall
<1>7. Cpp!Contents(cppQueue.tRoot) = << >>
  BY <1>2, <1>4, CppQueueOperators
<1>8. QED BY <1>4, <1>5, <1>6, <1>7 DEF Cpp!CppFifo!Init

(* A call leaves q, r, call: the queue, the return buffer, the last call.  *)
CppQueueBecomes(q, r, call) == cppQueue' = [tRoot |-> q, tReturn |-> r, last |-> call]

LEMMA CppQueueBecomesFacts ==
  ASSUME NEW q \in QueueOf(Items), NEW r, NEW call, CppQueueBecomes(q, r, call)
  PROVE  /\ CppQueueOK'
         /\ cppQueue'.tReturn = r
         /\ Cpp!Contents(cppQueue'.tRoot) = Contents(q)
         /\ Cpp!AsOob(cppQueue'.last) = Cpp!AsOob(call)
<1>1. cppQueue' = [tRoot |-> q, tReturn |-> r, last |-> call]
  BY DEF CppQueueBecomes
<1>2. cppQueue'.tRoot = q /\ cppQueue'.tReturn = r /\ cppQueue'.last = call
  BY <1>1
<1>3. QED BY <1>1, <1>2, CppQueueOperators DEF CppQueueOK

LEMMA CppQueueNow ==
  ASSUME CppQueueOK, NEW q, q = cppQueue.tRoot
  PROVE  /\ q \in QueueOf(Items) /\ q.zLength \in 0..zCapacity /\ q.zLength \in Nat
         /\ Len(Contents(q)) = q.zLength
         /\ Contents(q) = << >> <=> q.zLength = 0
         /\ q.zLength > 0 => Oldest(q) = Head(Contents(q))
         /\ Cpp!Oldest(q) = Oldest(q) /\ Cpp!Contents(q) = Contents(q)
<1>1. q \in QueueOf(Items)
  BY DEF CppQueueOK
<1>2. q.zLength \in 0..zCapacity /\ q.zLength \in Nat
  BY <1>1, CapacityAssumption DEF QueueOf
<1>3. Len(Contents(q)) = q.zLength /\ Contents(q) \in Seq(Items \cup {NoItem})
  BY <1>1, ContentsType
<1>4. q.zLength = 0 <=> Contents(q) = << >>
  BY <1>3, EmptySeq
<1>5. q.zLength > 0 => Oldest(q) = Head(Contents(q))
  <2>1. q.zLength > 0 => ~IsEmpty(q)
    BY <1>2 DEF IsEmpty
  <2>2. QED BY <1>1, <2>1, PopTakesHead
<1>6. QED BY <1>1, <1>2, <1>3, <1>4, <1>5, CppQueueOperators

(* The record updated in two or three of its fields, one at a time.        *)
LEMMA CppQueueUpdated2 ==
  ASSUME CppQueueOK, NEW x, NEW z, cppQueue' = [cppQueue EXCEPT !.tRoot = x, !.last = z]
  PROVE  CppQueueBecomes(x, cppQueue.tReturn, z)
<1>1. PICK n : n = [cppQueue EXCEPT !.tRoot = x]
  OBVIOUS
<1>2. PICK r, l : cppQueue = [tRoot |-> cppQueue.tRoot, tReturn |-> r, last |-> l] /\ r = cppQueue.tReturn
  BY DEF CppQueueOK
<1>3. n = [tRoot |-> x, tReturn |-> r, last |-> l]
  BY <1>1, <1>2
<1>4. cppQueue' = [n EXCEPT !.last = z]
  BY <1>1
<1>5. [n EXCEPT !.last = z] = [tRoot |-> x, tReturn |-> r, last |-> z]
  BY <1>3
<1>6. QED BY <1>2, <1>4, <1>5 DEF CppQueueBecomes

LEMMA CppQueueUpdated3 ==
  ASSUME CppQueueOK, NEW x, NEW y, NEW z,
         cppQueue' = [cppQueue EXCEPT !.tRoot = x, !.tReturn = y, !.last = z]
  PROVE  CppQueueBecomes(x, y, z)
<1>1. PICK n : n = [cppQueue EXCEPT !.tRoot = x]
  OBVIOUS
<1>2. PICK m : m = [n EXCEPT !.tReturn = y]
  OBVIOUS
<1>3. PICK r, l : cppQueue = [tRoot |-> cppQueue.tRoot, tReturn |-> r, last |-> l]
  BY DEF CppQueueOK
<1>4. n = [tRoot |-> x, tReturn |-> r, last |-> l]
  BY <1>1, <1>3
<1>5. m = [tRoot |-> x, tReturn |-> y, last |-> l]
  BY <1>2, <1>4
<1>6. cppQueue' = [m EXCEPT !.last = z]
  BY <1>1, <1>2
<1>7. [m EXCEPT !.last = z] = [tRoot |-> x, tReturn |-> y, last |-> z]
  BY <1>5
<1>8. QED BY <1>6, <1>7 DEF CppQueueBecomes

LEMMA CppEnqueues ==
  ASSUME CppQueueOK, NEW x \in Items, Cpp!CppEnqueue(x)
  PROVE  CppQueueOK' /\ Cpp!CppFifo!Next
<1> DEFINE r == cppQueue.tReturn
<1>0. PICK q : q = cppQueue.tRoot
  OBVIOUS
<1>1. cppQueue = [tRoot |-> q, tReturn |-> r, last |-> cppQueue.last]
  BY <1>0 DEF CppQueueOK
<1>2. /\ q \in QueueOf(Items) /\ q.zLength \in 0..zCapacity /\ Len(Contents(q)) = q.zLength
      /\ Cpp!Contents(cppQueue.tRoot) = Contents(q)
  BY <1>0, CppQueueNow
<1>3. CASE q.zLength < zCapacity
  <2> DEFINE call == Cpp!CppCall("Enqueue", x, "SUCCESS")
  <2>1. Push(q, x) \in QueueOf(Items) /\ Contents(Push(q, x)) = Append(Contents(q), x)
    <3>1. ~Full(q)
      BY <1>2, <1>3, CapacityAssumption DEF Full
    <3>2. QED BY <1>2, <3>1, PushAppends
  <2>2. cppQueue' = [cppQueue EXCEPT !.tRoot = Push(q, x), !.last = call]
    BY <1>0, <1>3, CppQueueOperators DEF Cpp!CppEnqueue
  <2> HIDE DEF call, r
  <2>3. CppQueueBecomes(Push(q, x), r, call)
    BY <2>2, CppQueueUpdated2 DEF r
  <2>4. /\ CppQueueOK' /\ cppQueue'.tReturn = r
        /\ Cpp!Contents(cppQueue'.tRoot) = Append(Contents(q), x)
        /\ Cpp!AsOob(cppQueue'.last) = Cpp!AsOob(call)
    BY <2>1, <2>3, CppQueueBecomesFacts
  <2>5. Cpp!AsOob(cppQueue'.last) = Cpp!CppFifo!Call("Enqueue", x, "SUCCESS")
    BY <2>4, CallFacts, FifoCall DEF call
  <2>6. Cpp!CppFifo!Enqueue(x)
    BY <1>2, <1>3, <2>4, <2>5 DEF Cpp!CppFifo!Enqueue, r
  <2>7. QED BY <2>4, <2>6 DEF Cpp!CppFifo!Next
<1>4. CASE ~(q.zLength < zCapacity)
  <2> DEFINE call == Cpp!CppCall("Enqueue", x, "INVALID_SIZE")
  <2>1. cppQueue' = [cppQueue EXCEPT !.last = call]
    BY <1>0, <1>4 DEF Cpp!CppEnqueue
  <2> HIDE DEF call, r
  <2>2. CppQueueBecomes(q, r, call)
    BY <1>1, <2>1 DEF CppQueueBecomes
  <2>3. /\ CppQueueOK' /\ cppQueue'.tReturn = r /\ Cpp!Contents(cppQueue'.tRoot) = Contents(q)
        /\ Cpp!AsOob(cppQueue'.last) = Cpp!AsOob(call)
    BY <1>2, <2>2, CppQueueBecomesFacts
  <2>4. Cpp!AsOob(cppQueue'.last) = Cpp!CppFifo!Call("Enqueue", x, "OOB")
    BY <2>3, CallFacts, FifoCall DEF call
  <2>5. Len(Contents(q)) = zCapacity
    BY <1>2, <1>4, CapacityAssumption
  <2>6. Cpp!CppFifo!EnqueueFails(x)
    BY <1>2, <2>3, <2>4, <2>5 DEF Cpp!CppFifo!EnqueueFails, r
  <2>7. QED BY <2>3, <2>6 DEF Cpp!CppFifo!Next
<1>5. QED BY <1>3, <1>4

LEMMA CppDequeues ==
  ASSUME CppQueueOK, Cpp!CppDequeue
  PROVE  CppQueueOK' /\ Cpp!CppFifo!Next
<1> DEFINE r == cppQueue.tReturn
<1>0. PICK q : q = cppQueue.tRoot
  OBVIOUS
<1>1. cppQueue = [tRoot |-> q, tReturn |-> r, last |-> cppQueue.last]
  BY <1>0 DEF CppQueueOK
<1>2. /\ q \in QueueOf(Items) /\ q.zLength \in Nat /\ (Contents(q) = << >> <=> q.zLength = 0)
      /\ (q.zLength > 0 => Oldest(q) = Head(Contents(q)))
      /\ Cpp!Contents(cppQueue.tRoot) = Contents(q) /\ Cpp!Oldest(q) = Oldest(q)
  BY <1>0, CppQueueNow
<1>3. CASE q.zLength > 0
  <2> DEFINE call == Cpp!CppCall("Dequeue", Oldest(q), "SUCCESS")
             next == Cpp!Advanced(q)
  <2>1. next \in QueueOf(Items) /\ Contents(next) = Tail(Contents(q))
    BY <1>2, <1>3, AdvancedTakesHead
  <2>2. cppQueue' = [cppQueue EXCEPT !.tRoot = next, !.tReturn = Oldest(q), !.last = call]
    BY <1>0, <1>2, <1>3 DEF Cpp!CppDequeue
  <2> HIDE DEF call, r, next
  <2>3. CppQueueBecomes(next, Oldest(q), call)
    BY <2>2, CppQueueUpdated3
  <2>4. /\ CppQueueOK' /\ cppQueue'.tReturn = Oldest(q)
        /\ Cpp!Contents(cppQueue'.tRoot) = Tail(Contents(q))
        /\ Cpp!AsOob(cppQueue'.last) = Cpp!AsOob(call)
    BY <2>1, <2>3, CppQueueBecomesFacts
  <2>5. Cpp!AsOob(cppQueue'.last) = Cpp!CppFifo!Call("Dequeue", Oldest(q), "SUCCESS")
    BY <2>4, CallFacts, FifoCall DEF call
  <2>6. Contents(q) # << >> /\ Oldest(q) = Head(Contents(q))
    BY <1>2, <1>3
  <2>7. Cpp!CppFifo!Dequeue
    BY <1>2, <2>4, <2>5, <2>6 DEF Cpp!CppFifo!Dequeue
  <2>8. QED BY <2>4, <2>7 DEF Cpp!CppFifo!Next
<1>4. CASE q.zLength = 0
  <2> DEFINE call == Cpp!CppCall("Dequeue", NoItem, "ERR")
  <2>1. cppQueue' = [cppQueue EXCEPT !.last = call]
    BY <1>0, <1>4 DEF Cpp!CppDequeue
  <2> HIDE DEF call, r
  <2>2. CppQueueBecomes(q, r, call)
    BY <1>1, <2>1 DEF CppQueueBecomes
  <2>3. /\ CppQueueOK' /\ cppQueue'.tReturn = r /\ Cpp!Contents(cppQueue'.tRoot) = Contents(q)
        /\ Cpp!AsOob(cppQueue'.last) = Cpp!AsOob(call)
    BY <1>2, <2>2, CppQueueBecomesFacts
  <2>4. Cpp!AsOob(cppQueue'.last) = Cpp!CppFifo!Call("Dequeue", NoItem, "OOB")
    BY <2>3, CallFacts, FifoCall DEF call
  <2>5. Cpp!CppFifo!DequeueFails
    BY <1>2, <1>4, <2>3, <2>4 DEF Cpp!CppFifo!DequeueFails, r
  <2>6. QED BY <2>3, <2>5 DEF Cpp!CppFifo!Next
<1>5. QED BY <1>2, <1>3, <1>4

LEMMA CppPeeks ==
  ASSUME CppQueueOK, Cpp!CppQueuePeek
  PROVE  CppQueueOK' /\ Cpp!CppFifo!Next
<1> DEFINE r == cppQueue.tReturn
<1>0. PICK q : q = cppQueue.tRoot
  OBVIOUS
<1>1. cppQueue = [tRoot |-> q, tReturn |-> r, last |-> cppQueue.last]
  BY <1>0 DEF CppQueueOK
<1>2. /\ q \in QueueOf(Items) /\ q.zLength \in Nat /\ (Contents(q) = << >> <=> q.zLength = 0)
      /\ (q.zLength > 0 => Oldest(q) = Head(Contents(q)))
      /\ Cpp!Contents(cppQueue.tRoot) = Contents(q) /\ Cpp!Oldest(q) = Oldest(q)
  BY <1>0, CppQueueNow
<1>3. PICK call :
        /\ call = IF q.zLength > 0 THEN Cpp!CppCall("Peek", Oldest(q), "SUCCESS")
                                   ELSE Cpp!CppCall("Peek", NoItem, "ERR")
        /\ cppQueue' = [cppQueue EXCEPT !.last = call]
  BY <1>0, <1>2 DEF Cpp!CppQueuePeek
<1> HIDE DEF r
<1>4. CppQueueBecomes(q, r, call)
  BY <1>1, <1>3 DEF CppQueueBecomes
<1>5. /\ CppQueueOK' /\ cppQueue'.tReturn = r /\ Cpp!Contents(cppQueue'.tRoot) = Contents(q)
      /\ Cpp!AsOob(cppQueue'.last) = Cpp!AsOob(call)
  BY <1>2, <1>4, CppQueueBecomesFacts
<1>6. Cpp!AsOob(cppQueue'.last) =
        IF Contents(q) = << >> THEN Cpp!CppFifo!Call("Peek", NoItem, "OOB")
                               ELSE Cpp!CppFifo!Call("Peek", Head(Contents(q)), "SUCCESS")
  <2>1. CASE q.zLength > 0
    BY <1>2, <1>3, <1>5, <2>1, CallFacts, FifoCall
  <2>2. CASE q.zLength = 0
    BY <1>2, <1>3, <1>5, <2>2, CallFacts, FifoCall
  <2>3. QED BY <1>2, <2>1, <2>2
<1>7. Cpp!CppFifo!Peek
  BY <1>2, <1>5, <1>6 DEF Cpp!CppFifo!Peek, r
<1>8. QED BY <1>5, <1>7 DEF Cpp!CppFifo!Next

-----------------------------------------------------------------------------
CppStackOK ==
  /\ cppStack = [zLength |-> cppStack.zLength, tArr |-> cppStack.tArr, tReturn |-> cppStack.tReturn,
                 last |-> cppStack.last, peeked |-> cppStack.peeked]
  /\ cppStack.zLength \in 0..zCapacity
  /\ cppStack.tArr \in [Slots -> Items \cup {NoItem}]

LEMMA LifoCall ==
  ASSUME NEW op, NEW x, NEW status
  PROVE  Cpp!CppLifo!Call(op, x, status) = Cpp!CppCall(op, x, status)
BY DEF Cpp!CppCall, Cpp!CppLifo!Call

LEMMA CppStackStarts == Cpp!CppInit => CppStackOK /\ Cpp!CppLifo!Init
<1> SUFFICES ASSUME Cpp!CppInit PROVE CppStackOK /\ Cpp!CppLifo!Init
  OBVIOUS
<1>1. cppStack = [zLength |-> 0, tArr |-> EmptySlots, tReturn |-> NoItem,
                  last |-> Cpp!CppCall("Init", NoItem, "SUCCESS"), peeked |-> 0]
  BY CppQueueOperators DEF Cpp!CppInit
<1>2. /\ cppStack.zLength = 0 /\ cppStack.tArr = EmptySlots /\ cppStack.tReturn = NoItem
      /\ cppStack.last = Cpp!CppCall("Init", NoItem, "SUCCESS") /\ cppStack.peeked = 0
  BY <1>1
<1>3. EmptySlots \in [Slots -> Items \cup {NoItem}] /\ 0 \in 0..zCapacity
  BY CapacityAssumption DEF EmptySlots
<1>4. LowSlots(EmptySlots, 0) = << >>
  BY <1>3, LowSlotsFacts
<1>5. Cpp!AsOob(cppStack.last) = Cpp!CppLifo!Call("Init", NoItem, "SUCCESS")
  BY <1>2, CallFacts, LifoCall
<1>6. Cpp!CppLifo!Init
  BY <1>2, <1>4, <1>5 DEF Cpp!CppLifo!Init, LowSlots
<1>7. QED BY <1>1, <1>2, <1>3, <1>6 DEF CppStackOK

(* A call leaves n, f, r, call: the length, the array, the return buffer,  *)
(* the last call.                                                          *)
CppStackBecomes(n, f, r, call) ==
  cppStack' = [zLength |-> n, tArr |-> f, tReturn |-> r, last |-> call, peeked |-> cppStack.peeked]

LEMMA CppStackBecomesFacts ==
  ASSUME NEW n \in 0..zCapacity, NEW f \in [Slots -> Items \cup {NoItem}], NEW r, NEW call,
         CppStackBecomes(n, f, r, call)
  PROVE  /\ CppStackOK'
         /\ cppStack'.zLength = n /\ cppStack'.tArr = f
         /\ cppStack'.tReturn = r /\ cppStack'.last = call
<1>1. cppStack' = [zLength |-> n, tArr |-> f, tReturn |-> r, last |-> call, peeked |-> cppStack.peeked]
  BY DEF CppStackBecomes
<1>2. /\ cppStack'.zLength = n /\ cppStack'.tArr = f /\ cppStack'.tReturn = r
      /\ cppStack'.last = call /\ cppStack'.peeked = cppStack.peeked
  BY <1>1
<1>3. QED BY <1>1, <1>2 DEF CppStackOK

LEMMA CppPushes ==
  ASSUME CppStackOK, NEW x \in Items, Cpp!CppPush(x)
  PROVE  CppStackOK' /\ Cpp!CppLifo!Next
<1>0. PICK n, f, r, l, d :
        /\ cppStack = [zLength |-> n, tArr |-> f, tReturn |-> r, last |-> l, peeked |-> d]
        /\ n = cppStack.zLength /\ f = cppStack.tArr /\ r = cppStack.tReturn /\ d = cppStack.peeked
  BY DEF CppStackOK
<1>1. n \in 0..zCapacity /\ n \in Nat /\ f \in [Slots -> Items \cup {NoItem}]
  BY <1>0, CapacityAssumption DEF CppStackOK
<1>2. LowSlots(f, n) \in Seq(Items \cup {NoItem}) /\ Len(LowSlots(f, n)) = n
  BY <1>1, LowSlotsFacts
<1>3. CASE n < zCapacity
  <2>1. PICK call, g : call = Cpp!CppCall("Push", x, "SUCCESS") /\ g = [f EXCEPT ![n] = x]
    OBVIOUS
  <2>2. CppStackBecomes(n + 1, g, r, call)
    <3>1. cppStack' = [cppStack EXCEPT !.tArr = g, !.zLength = n + 1, !.last = call]
      BY <1>0, <1>3, <2>1 DEF Cpp!CppPush
    <3>2. PICK s : s = [cppStack EXCEPT !.tArr = g]
      OBVIOUS
    <3>3. PICK t : t = [s EXCEPT !.zLength = n + 1]
      OBVIOUS
    <3>4. s = [zLength |-> n, tArr |-> g, tReturn |-> r, last |-> l, peeked |-> d]
      BY <1>0, <3>2
    <3>5. t = [zLength |-> n + 1, tArr |-> g, tReturn |-> r, last |-> l, peeked |-> d]
      BY <3>3, <3>4
    <3>6. cppStack' = [t EXCEPT !.last = call]
      BY <3>1, <3>2, <3>3
    <3>7. [t EXCEPT !.last = call] =
            [zLength |-> n + 1, tArr |-> g, tReturn |-> r, last |-> call, peeked |-> d]
      BY <3>5
    <3>8. QED BY <1>0, <3>6, <3>7 DEF CppStackBecomes
  <2>3. n \in Slots /\ n + 1 \in 0..zCapacity
    BY <1>1, <1>3, CapacityAssumption DEF Slots
  <2>4. /\ g \in [Slots -> Items \cup {NoItem}] /\ g[n] = x
        /\ \A i \in Slots : i # n => g[i] = f[i]
    BY <1>1, <2>1, <2>3
  <2>5. LowSlots(g, n + 1) = Append(LowSlots(f, n), x)
    <3>1. PICK S : S = Items \cup {NoItem}
      OBVIOUS
    <3>2. /\ x \in S /\ f \in [Slots -> S] /\ g \in [Slots -> S]
          /\ n \in 0..zCapacity /\ n < zCapacity
          /\ g[n] = x /\ \A i \in Slots : i # n => g[i] = f[i]
      BY <1>1, <1>3, <2>4, <3>1
    <3>3. QED BY <3>2, LowSlotsPush
  <2>6. /\ CppStackOK' /\ cppStack'.zLength = n + 1 /\ cppStack'.tArr = g
        /\ cppStack'.tReturn = r /\ cppStack'.last = call
    BY <2>2, <2>3, <2>4, CppStackBecomesFacts
  <2>7. Cpp!AsOob(call) = Cpp!CppLifo!Call("Push", x, "SUCCESS")
    BY <2>1, CallFacts, LifoCall
  <2>8. Cpp!CppLifo!Push(x)
    BY <1>0, <1>2, <1>3, <2>5, <2>6, <2>7 DEF Cpp!CppLifo!Push, LowSlots
  <2>9. QED BY <2>6, <2>8 DEF Cpp!CppLifo!Next
<1>4. CASE ~(n < zCapacity)
  <2>1. PICK call : call = Cpp!CppCall("Push", x, "INVALID_SIZE")
    OBVIOUS
  <2>2. cppStack' = [cppStack EXCEPT !.last = call]
    BY <1>0, <1>4, <2>1 DEF Cpp!CppPush
  <2>3. CppStackBecomes(n, f, r, call)
    BY <1>0, <2>2 DEF CppStackBecomes
  <2>4. /\ CppStackOK' /\ cppStack'.zLength = n /\ cppStack'.tArr = f
        /\ cppStack'.tReturn = r /\ cppStack'.last = call
    BY <1>1, <2>3, CppStackBecomesFacts
  <2>5. Cpp!AsOob(call) = Cpp!CppLifo!Call("Push", x, "OOB")
    BY <2>1, CallFacts, LifoCall
  <2>6. Len(LowSlots(f, n)) = zCapacity
    BY <1>1, <1>2, <1>4, CapacityAssumption
  <2>7. Cpp!CppLifo!PushFails(x)
    BY <1>0, <2>4, <2>5, <2>6 DEF Cpp!CppLifo!PushFails, LowSlots
  <2>8. QED BY <2>4, <2>7 DEF Cpp!CppLifo!Next
<1>5. QED BY <1>3, <1>4

LEMMA CppPops ==
  ASSUME CppStackOK, Cpp!CppPop
  PROVE  CppStackOK' /\ Cpp!CppLifo!Next
<1>0. PICK n, f, r, l, d :
        /\ cppStack = [zLength |-> n, tArr |-> f, tReturn |-> r, last |-> l, peeked |-> d]
        /\ n = cppStack.zLength /\ f = cppStack.tArr /\ r = cppStack.tReturn /\ d = cppStack.peeked
  BY DEF CppStackOK
<1>1. n \in 0..zCapacity /\ n \in Nat /\ f \in [Slots -> Items \cup {NoItem}]
  BY <1>0, CapacityAssumption DEF CppStackOK
<1>2. Len(LowSlots(f, n)) = n /\ (LowSlots(f, n) = << >> <=> n = 0)
  BY <1>1, LowSlotsFacts
<1>3. CASE n > 0
  <2>1. PICK call, top : call = Cpp!CppCall("Pop", top, "SUCCESS") /\ top = f[n - 1]
    OBVIOUS
  <2>2. CppStackBecomes(n - 1, f, top, call)
    <3>1. cppStack' = [cppStack EXCEPT !.zLength = n - 1, !.tReturn = top, !.last = call]
      BY <1>0, <1>3, <2>1 DEF Cpp!CppPop
    <3>2. PICK s : s = [cppStack EXCEPT !.zLength = n - 1]
      OBVIOUS
    <3>3. PICK t : t = [s EXCEPT !.tReturn = top]
      OBVIOUS
    <3>4. s = [zLength |-> n - 1, tArr |-> f, tReturn |-> r, last |-> l, peeked |-> d]
      BY <1>0, <3>2
    <3>5. t = [zLength |-> n - 1, tArr |-> f, tReturn |-> top, last |-> l, peeked |-> d]
      BY <3>3, <3>4
    <3>6. cppStack' = [t EXCEPT !.last = call]
      BY <3>1, <3>2, <3>3
    <3>7. [t EXCEPT !.last = call] =
            [zLength |-> n - 1, tArr |-> f, tReturn |-> top, last |-> call, peeked |-> d]
      BY <3>5
    <3>8. QED BY <1>0, <3>6, <3>7 DEF CppStackBecomes
  <2>3. /\ n - 1 \in 0..zCapacity
        /\ LowSlots(f, n - 1) = SubSeq(LowSlots(f, n), 1, n - 1)
        /\ LowSlots(f, n)[n] = top
    BY <1>1, <1>3, <2>1, LowSlotsPop
  <2>4. Cpp!CppLifo!Front(LowSlots(f, n)) = LowSlots(f, n - 1) /\ Cpp!CppLifo!Last(LowSlots(f, n)) = top
    BY <1>2, <2>3 DEF Cpp!CppLifo!Front, Cpp!CppLifo!Last
  <2>5. /\ CppStackOK' /\ cppStack'.zLength = n - 1 /\ cppStack'.tArr = f
        /\ cppStack'.tReturn = top /\ cppStack'.last = call
    BY <1>1, <2>2, <2>3, CppStackBecomesFacts
  <2>6. Cpp!AsOob(call) = Cpp!CppLifo!Call("Pop", top, "SUCCESS")
    BY <2>1, CallFacts, LifoCall
  <2>7. LowSlots(f, n) # << >>
    BY <1>2, <1>3
  <2>8. Cpp!CppLifo!Pop
    BY <1>0, <2>4, <2>5, <2>6, <2>7 DEF Cpp!CppLifo!Pop, LowSlots
  <2>9. QED BY <2>5, <2>8 DEF Cpp!CppLifo!Next
<1>4. CASE n = 0
  <2>1. PICK call : call = Cpp!CppCall("Pop", NoItem, "ERR")
    OBVIOUS
  <2>2. cppStack' = [cppStack EXCEPT !.last = call]
    BY <1>0, <1>4, <2>1 DEF Cpp!CppPop
  <2>3. CppStackBecomes(n, f, r, call)
    BY <1>0, <2>2 DEF CppStackBecomes
  <2>4. /\ CppStackOK' /\ cppStack'.zLength = n /\ cppStack'.tArr = f
        /\ cppStack'.tReturn = r /\ cppStack'.last = call
    BY <1>1, <2>3, CppStackBecomesFacts
  <2>5. Cpp!AsOob(call) = Cpp!CppLifo!Call("Pop", NoItem, "OOB")
    BY <2>1, CallFacts, LifoCall
  <2>6. LowSlots(f, n) = << >>
    BY <1>2, <1>4
  <2>7. Cpp!CppLifo!PopFails
    BY <1>0, <2>4, <2>5, <2>6 DEF Cpp!CppLifo!PopFails, LowSlots
  <2>8. QED BY <2>4, <2>7 DEF Cpp!CppLifo!Next
<1>5. QED BY <1>1, <1>3, <1>4

(* StackPeek touches nothing of the stack.                                 *)
LEMMA CppStackPeeks ==
  ASSUME CppStackOK, Cpp!CppStackPeek \/ Cpp!CppStackPeekEmpty
  PROVE  CppStackOK' /\ UNCHANGED Cpp!CppLifo!vars
<1>1. CASE Cpp!CppStackPeek
  <2>1. PICK d : cppStack' = [cppStack EXCEPT !.peeked = d]
    BY <1>1 DEF Cpp!CppStackPeek
  <2>2. cppStack' = [zLength |-> cppStack.zLength, tArr |-> cppStack.tArr, tReturn |-> cppStack.tReturn,
                     last |-> cppStack.last, peeked |-> d]
    BY <2>1 DEF CppStackOK
  <2>3. /\ cppStack'.zLength = cppStack.zLength /\ cppStack'.tArr = cppStack.tArr
        /\ cppStack'.tReturn = cppStack.tReturn /\ cppStack'.last = cppStack.last
        /\ cppStack'.peeked = d
    BY <2>2
  <2>4. CppStackOK'
    BY <2>2, <2>3 DEF CppStackOK
  <2>5. QED BY <2>3, <2>4 DEF Cpp!CppLifo!vars
<1>2. CASE Cpp!CppStackPeekEmpty
  BY <1>2 DEF Cpp!CppStackPeekEmpty, CppStackOK, Cpp!CppLifo!vars
<1>3. QED BY <1>1, <1>2

LEMMA CppOfContainers == ContainersSpec => Cpp!CppSpec
<1>1. ContainersInit => Cpp!CppInit
  BY DEF ContainersInit
<1>2. [\/ QueueStep \/ StackStep \/ MapStep \/ CppQueueStep \/ CppStackStep \/ BrokerStep
      ]_<<which, vars, stackVars, mapVars, cppVars, busVars>> =>
      [\/ Cpp!CppQueueNext /\ UNCHANGED cppStack
       \/ Cpp!CppStackNext /\ UNCHANGED cppQueue]_<<cppQueue, cppStack>>
  BY DEF QueueStep, StackStep, MapStep, CppQueueStep, CppStackStep, BrokerStep, cppVars
<1>3. QED BY <1>1, <1>2, PTL DEF ContainersSpec, Cpp!CppSpec

(* The C++ containers of juno_buff.hpp are a FIFO queue and a LIFO stack   *)
(* of any capacity, though neither clears a slot.                          *)
THEOREM CppRefinement == ContainersSpec => CppImplements
<1> DEFINE CppStep == \/ Cpp!CppQueueNext /\ UNCHANGED cppStack
                      \/ Cpp!CppStackNext /\ UNCHANGED cppQueue
           Inv == CppQueueOK /\ CppStackOK
<1>1. Cpp!CppInit => Inv /\ Cpp!CppFifo!Init /\ Cpp!CppLifo!Init
  BY CppQueueStarts, CppStackStarts
<1>2. Inv /\ [CppStep]_<<cppQueue, cppStack>> =>
        Inv' /\ [Cpp!CppFifo!Next]_(Cpp!CppFifo!vars) /\ [Cpp!CppLifo!Next]_(Cpp!CppLifo!vars)
  <2> SUFFICES ASSUME Inv, [CppStep]_<<cppQueue, cppStack>>
               PROVE  Inv' /\ [Cpp!CppFifo!Next]_(Cpp!CppFifo!vars) /\ [Cpp!CppLifo!Next]_(Cpp!CppLifo!vars)
    OBVIOUS
  <2>1. UNCHANGED cppStack => CppStackOK' /\ UNCHANGED Cpp!CppLifo!vars
    BY DEF CppStackOK, Cpp!CppLifo!vars
  <2>2. UNCHANGED cppQueue => CppQueueOK' /\ UNCHANGED Cpp!CppFifo!vars
    BY DEF CppQueueOK, Cpp!CppFifo!vars
  <2>3. Cpp!CppQueueNext => CppQueueOK' /\ Cpp!CppFifo!Next
    BY CppEnqueues, CppDequeues, CppPeeks DEF Cpp!CppQueueNext
  <2>4. Cpp!CppStackNext => CppStackOK' /\ [Cpp!CppLifo!Next]_(Cpp!CppLifo!vars)
    BY CppPushes, CppPops, CppStackPeeks DEF Cpp!CppStackNext
  <2>5. QED BY <2>1, <2>2, <2>3, <2>4
<1>3. QED BY <1>1, <1>2, CppOfContainers, PTL
      DEF CppImplements, Cpp!CppImplements, Cpp!CppFifo!Spec, Cpp!CppLifo!Spec, Cpp!CppSpec

-----------------------------------------------------------------------------
(* The hash map, for every capacity, every width of size_t and every hash  *)
(* function.  Two facts carry its proofs: the first stop of a probe        *)
(* sequence decides what a call sees, and a probe sequence reaches every   *)
(* slot, once, when it does not wrap around or wraps harmlessly.           *)
LEMMA MapConstants ==
  /\ zMapCapacity \in Nat \ {0} /\ SIZE_MAX \in Nat /\ Hashes \subseteq 0..SIZE_MAX
  /\ NoValue \notin Keys
  /\ Map!Slots = 0..(zMapCapacity - 1)
BY ContainersAssumption DEF Map!Slots

-----------------------------------------------------------------------------
(* Remainders.                                                             *)
LEMMA Remainder ==
  ASSUME NEW a \in Nat, NEW n \in Nat \ {0}
  PROVE  /\ a \div n \in Nat
         /\ a % n \in 0..(n - 1)
         /\ a = n * (a \div n) + (a % n)
OBVIOUS

LEMMA SmallMultiple ==
  ASSUME NEW n \in Nat \ {0}, NEW e \in Int, n * e < n, -n < n * e
  PROVE  e = 0
<1>1. e >= 1 => n * e >= n
  OBVIOUS
<1>2. e <= -1 => n * e <= -n
  OBVIOUS
<1>3. QED BY <1>1, <1>2

LEMMA SameRemainder ==
  ASSUME NEW a \in Nat, NEW b \in Nat, NEW n \in Nat \ {0}, a % n = b % n
  PROVE  \E e \in Int : a = b + n * e
<1>0. PICK p \in Nat, q \in Nat : a = n * p + (a % n) /\ b = n * q + (b % n)
  BY Remainder
<1>1. PICK r \in Nat : a = n * p + r /\ b = n * q + r
  <2>1. a % n \in Nat
    BY Remainder
  <2>2. QED BY <1>0, <2>1
<1>2. p - q \in Int /\ n * (p - q) = n * p - n * q
  BY <1>1
<1>3. n * p \in Int /\ n * q \in Int
  BY <1>1
<1>4. a = b + n * (p - q)
  BY <1>1, <1>2, <1>3
<1>5. QED BY <1>2, <1>4

-----------------------------------------------------------------------------
LEMMA HashRange ==
  ASSUME hash \in [Keys -> Hashes], NEW k \in Keys
  PROVE  hash[k] \in 0..SIZE_MAX /\ hash[k] \in Nat
<1>1. hash[k] \in Hashes
  OBVIOUS
<1>2. Hashes \subseteq 0..SIZE_MAX /\ SIZE_MAX \in Nat
  BY MapConstants
<1>3. hash[k] \in 0..SIZE_MAX
  BY <1>1, <1>2
<1>4. QED BY <1>2, <1>3

LEMMA ProbeType ==
  ASSUME hash \in [Keys -> Hashes], NEW k \in Keys, NEW i \in Map!Slots
  PROVE  Map!Probe(k, i) \in Map!Slots
<1>1. hash[k] \in Nat /\ i \in Nat /\ SIZE_MAX + 1 \in Nat \ {0} /\ zMapCapacity \in Nat \ {0}
  BY HashRange, MapConstants
<1>2. PICK a \in Nat : a = (hash[k] + i) % (SIZE_MAX + 1)
  BY <1>1, Remainder
<1>3. a % zMapCapacity \in 0..(zMapCapacity - 1)
  BY <1>1, Remainder
<1>4. QED BY <1>2, <1>3, MapConstants DEF Map!Probe

(* No slot is probed twice; then every slot is probed, being as many as    *)
(* there are probes.                                                       *)
LEMMA ProbeOnce ==
  ASSUME hash \in [Keys -> Hashes], Map!ProbesEverySlot, NEW k \in Keys,
         NEW i \in Map!Slots, NEW j \in Map!Slots, Map!Probe(k, i) = Map!Probe(k, j)
  PROVE  i = j
<1> DEFINE h == hash[k]
           n == zMapCapacity
           m == SIZE_MAX + 1
<1>1. /\ h \in 0..(m - 1) /\ i \in 0..(n - 1) /\ j \in 0..(n - 1)
      /\ m \in Nat \ {0} /\ n \in Nat \ {0}
      /\ h + i \in Nat /\ h + j \in Nat
  BY HashRange, MapConstants
<1>2. PICK a \in Nat, b \in Nat : a = (h + i) % m /\ b = (h + j) % m
  <2> HIDE DEF h, m, n
  <2>1. (h + i) % m \in Nat /\ (h + j) % m \in Nat
    BY <1>1, Remainder
  <2>2. QED BY <2>1
<1>3. PICK e \in Int : a = b + n * e
  <2>1. a % n = b % n
    BY <1>2 DEF Map!Probe
  <2> HIDE DEF n, m, h
  <2>2. QED BY <1>1, <2>1, SameRemainder
<1>4. \E d \in Int : i - j = n * d
  <2>1. CASE \A l \in Keys : hash[l] + zMapCapacity - 1 <= SIZE_MAX
    <3>1. h + i < m /\ h + j < m
      <4>1. h + n - 1 <= SIZE_MAX /\ SIZE_MAX \in Nat
        BY <2>1, MapConstants
      <4>2. QED BY <1>1, <4>1
    <3>2. \A x \in Nat : x < m => x % m = x
      BY <1>1
    <3>3. a = h + i /\ b = h + j
      BY <1>1, <1>2, <3>1, <3>2
    <3>4. i - j = n * e
      BY <1>1, <1>3, <3>3
    <3>5. QED BY <3>4
  <2>2. CASE m % n = 0
    <3> HIDE DEF h, n, m
    <3>1. PICK c \in Nat : m = n * c
      <4>1. m = n * (m \div n) + 0 /\ m \div n \in Nat
        BY <1>1, <2>2, Remainder
      <4>2. QED BY <1>1, <4>1
    <3>2. PICK p \in Nat : h + i = m * p + a
      <4>1. h + i = m * ((h + i) \div m) + ((h + i) % m) /\ (h + i) \div m \in Nat
        BY <1>1, Remainder
      <4>2. QED BY <1>2, <4>1
    <3>3. PICK q \in Nat : h + j = m * q + b
      <4>1. h + j = m * ((h + j) \div m) + ((h + j) % m) /\ (h + j) \div m \in Nat
        BY <1>1, Remainder
      <4>2. QED BY <1>2, <4>1
    <3>4. /\ m * p = n * (c * p) /\ m * q = n * (c * q)
          /\ c * p \in Int /\ c * q \in Int
      BY <1>1, <3>1
    <3>5. /\ n * (c * p + e - c * q) = n * (c * p) + n * e - n * (c * q)
          /\ n * (c * p) \in Int /\ n * e \in Int /\ n * (c * q) \in Int
      BY <1>1, <1>3, <3>4
    <3>6. i - j = n * (c * p + e - c * q)
      BY <1>1, <1>3, <3>2, <3>3, <3>4, <3>5
    <3>7. QED BY <3>4, <3>6
  <2>3. QED BY <2>1, <2>2 DEF Map!ProbesEverySlot
<1>5. PICK d \in Int : i - j = n * d
  BY <1>4
<1>6. i - j < n /\ -n < i - j
  BY <1>1
<1> HIDE DEF n, m, h
<1>7. d = 0
  BY <1>1, <1>5, <1>6, SmallMultiple
<1>8. QED BY <1>1, <1>5, <1>7

LEMMA ProbeEvery ==
  ASSUME hash \in [Keys -> Hashes], Map!ProbesEverySlot, NEW k \in Keys, NEW s \in Map!Slots
  PROVE  \E i \in Map!Slots : Map!Probe(k, i) = s
<1> DEFINE f == [i \in Map!Slots |-> Map!Probe(k, i)]
<1>1. f \in [Map!Slots -> Map!Slots]
  BY ProbeType
<1>2. \A i, j \in Map!Slots : f[i] = f[j] => i = j
  BY ProbeOnce
<1>3. IsFiniteSet(Map!Slots)
  BY MapConstants, FS_Interval
<1> HIDE DEF f
<1>4. f \in Injection(Map!Slots, Map!Slots)
  BY <1>1, <1>2 DEF Injection, IsInjective
<1>5. f \in Surjection(Map!Slots, Map!Slots)
  BY <1>3, <1>4, FS_Injection
<1>6. PICK i \in Map!Slots : f[i] = s
  BY <1>5 DEF Surjection
<1>7. QED BY <1>6 DEF f

-----------------------------------------------------------------------------
(* A table t in the place of the slots: where probing stops in it, where   *)
(* it finds a key, whether it does.                                        *)
MapEntry == [key : Keys, value : Values] \cup {Map!Empty}
MapTable == [Map!Slots -> MapEntry]
StopsIn(t, k) == {i \in Map!Slots : t[Map!Probe(k, i)].key \in {k, NoValue}}
FoundIn(t, k) == Map!Probe(k, Map!Min(StopsIn(t, k)))
HasIn(t, k)   == StopsIn(t, k) # {} /\ t[FoundIn(t, k)].key = k

LEMMA TableNow ==
  ASSUME NEW k
  PROVE  /\ Map!Stops(k) = StopsIn(mapSlots, k)
         /\ Map!Found(k) = FoundIn(mapSlots, k)
         /\ Map!Traversed(k) <=> StopsIn(mapSlots, k) = {}
         /\ Map!Present(k) <=> HasIn(mapSlots, k)
BY DEF Map!Stops, Map!Found, Map!Traversed, Map!Present, StopsIn, FoundIn, HasIn

LEMMA TableNext ==
  ASSUME hash' = hash, NEW k
  PROVE  /\ Map!Found(k)' = FoundIn(mapSlots', k)
         /\ Map!Present(k)' <=> HasIn(mapSlots', k)
<1>1. \A i : Map!Probe(k, i)' = Map!Probe(k, i)
  BY DEF Map!Probe
<1>2. Map!Stops(k)' = StopsIn(mapSlots', k)
  BY <1>1 DEF Map!Stops, StopsIn
<1>3. QED BY <1>1, <1>2 DEF Map!Found, Map!Traversed, Map!Present, FoundIn, HasIn

LEMMA MapMin ==
  ASSUME NEW T \in SUBSET Nat, T # {}
  PROVE  Map!Min(T) \in T /\ \A y \in T : Map!Min(T) <= y
<1>1. \E x \in T : \A y \in T : x <= y
  BY LeastElement
<1>2. QED BY <1>1 DEF Map!Min

(* The first stop: nothing before it stops the probing ...                 *)
LEMMA FirstStop ==
  ASSUME NEW t, NEW k, StopsIn(t, k) # {}
  PROVE  \E m \in Map!Slots :
           /\ FoundIn(t, k) = Map!Probe(k, m)
           /\ Map!Min(StopsIn(t, k)) = m
           /\ t[Map!Probe(k, m)].key \in {k, NoValue}
           /\ \A i \in Map!Slots : i < m => t[Map!Probe(k, i)].key \notin {k, NoValue}
<1> DEFINE T == StopsIn(t, k)
           m == Map!Min(T)
<1>1. T \in SUBSET Nat /\ T # {}
  BY MapConstants DEF StopsIn
<1>2. m \in T /\ \A y \in T : m <= y
  <2> HIDE DEF T
  <2>1. QED BY <1>1, MapMin
<1>3. m \in Map!Slots /\ t[Map!Probe(k, m)].key \in {k, NoValue}
  BY <1>2 DEF StopsIn
<1>4. ASSUME NEW i \in Map!Slots, i < m, t[Map!Probe(k, i)].key \in {k, NoValue} PROVE FALSE
  <2>1. i \in T
    BY <1>4 DEF StopsIn
  <2> HIDE DEF m, T
  <2>2. m <= i /\ i \in Int /\ m \in Int
    BY <1>2, <1>3, <2>1, MapConstants
  <2>3. QED BY <1>4, <2>2
<1>5. QED BY <1>3, <1>4 DEF FoundIn

(* ... and what nothing stops before is the first stop.                    *)
LEMMA IsFirstStop ==
  ASSUME NEW t, NEW k, NEW m \in Map!Slots, t[Map!Probe(k, m)].key \in {k, NoValue},
         \A i \in Map!Slots : i < m => t[Map!Probe(k, i)].key \notin {k, NoValue}
  PROVE  StopsIn(t, k) # {} /\ FoundIn(t, k) = Map!Probe(k, m)
<1>1. m \in StopsIn(t, k)
  BY DEF StopsIn
<1>2. PICK n \in Map!Slots :
        /\ FoundIn(t, k) = Map!Probe(k, n)
        /\ t[Map!Probe(k, n)].key \in {k, NoValue}
        /\ \A i \in Map!Slots : i < n => t[Map!Probe(k, i)].key \notin {k, NoValue}
  BY <1>1, FirstStop
<1>3. ~(n < m) /\ ~(m < n)
  BY <1>2
<1>4. n = m
  BY <1>3, MapConstants
<1>5. QED BY <1>1, <1>2, <1>4

LEMMA TableEntry ==
  ASSUME NEW t \in MapTable, NEW s \in Map!Slots
  PROVE  /\ t[s] # Map!Empty <=> t[s].key \in Keys
         /\ t[s].key \in Keys \cup {NoValue}
         /\ t[s] # Map!Empty => t[s].value \in Values
BY MapConstants DEF MapTable, MapEntry, Map!Empty

LEMMA TableUpdated ==
  ASSUME NEW t \in MapTable, NEW f \in Map!Slots,
         NEW e \in MapEntry, NEW u, u = [t EXCEPT ![f] = e]
  PROVE  u \in MapTable /\ u[f] = e /\ \A s \in Map!Slots : s # f => u[s] = t[s]
BY DEF MapTable

(* An entry put where probing for its key stops is found there.            *)
LEMMA SetFound ==
  ASSUME hash \in [Keys -> Hashes], NEW t, NEW k \in Keys, StopsIn(t, k) # {},
         NEW u, u[FoundIn(t, k)].key = k,
         \A s \in Map!Slots : s # FoundIn(t, k) => u[s] = t[s]
  PROVE  HasIn(u, k) /\ FoundIn(u, k) = FoundIn(t, k)
<1>1. PICK m \in Map!Slots :
        /\ FoundIn(t, k) = Map!Probe(k, m)
        /\ t[Map!Probe(k, m)].key \in {k, NoValue}
        /\ \A i \in Map!Slots : i < m => t[Map!Probe(k, i)].key \notin {k, NoValue}
  BY FirstStop
<1>2. ASSUME NEW i \in Map!Slots, i < m PROVE u[Map!Probe(k, i)].key \notin {k, NoValue}
  <2>1. t[Map!Probe(k, i)].key \notin {k, NoValue} /\ Map!Probe(k, i) \in Map!Slots
    BY <1>1, <1>2, ProbeType
  <2>2. Map!Probe(k, i) # FoundIn(t, k)
    BY <1>1, <2>1
  <2>3. QED BY <2>1, <2>2
<1>3. u[Map!Probe(k, m)].key \in {k, NoValue}
  BY <1>1
<1>4. StopsIn(u, k) # {} /\ FoundIn(u, k) = Map!Probe(k, m)
  BY <1>2, <1>3, IsFirstStop
<1>5. QED BY <1>1, <1>4 DEF HasIn

-----------------------------------------------------------------------------
(* The changes of the table: the entry a Set writes, the slot a Remove     *)
(* resets.                                                                 *)
LEMMA SetTable ==
  ASSUME Map!TypeOK, NEW k \in Keys, NEW v \in Values, Map!Set(k, v)
  PROVE  /\ StopsIn(mapSlots, k) # {} /\ FoundIn(mapSlots, k) \in Map!Slots
         /\ mapSlots' \in MapTable /\ hash' = hash /\ holed' = holed
         /\ mapSlots'[FoundIn(mapSlots, k)].key = k /\ mapSlots'[FoundIn(mapSlots, k)].value = v
         /\ \A s \in Map!Slots : s # FoundIn(mapSlots, k) => mapSlots'[s] = mapSlots[s]
<1> DEFINE f == FoundIn(mapSlots, k)
           e == [key |-> k, value |-> v]
<1>1. StopsIn(mapSlots, k) # {} /\ mapSlots' = [mapSlots EXCEPT ![f] = e] /\ hash' = hash /\ holed' = holed
  BY TableNow DEF Map!Set
<1>2. f \in Map!Slots
  BY <1>1, FirstStop, ProbeType DEF Map!TypeOK
<1>3. mapSlots \in MapTable /\ e \in MapEntry
      /\ e.key = k /\ e.value = v
  BY DEF Map!TypeOK, MapTable, MapEntry
<1> HIDE DEF f, e
<1>4. /\ mapSlots' \in MapTable /\ mapSlots'[f] = e
      /\ \A s \in Map!Slots : s # f => mapSlots'[s] = mapSlots[s]
  <2>1. mapSlots \in MapTable /\ e \in MapEntry
    BY <1>3
  <2>2. mapSlots' = [mapSlots EXCEPT ![f] = e]
    BY <1>1
  <2>3. mapSlots' \in MapTable
    BY <2>1, <2>2 DEF MapTable
  <2>4. mapSlots'[f] = e /\ \A s \in Map!Slots : s # f => mapSlots'[s] = mapSlots[s]
    BY <1>2, <2>1, <2>2 DEF MapTable
  <2>5. QED BY <2>3, <2>4
<1>5. QED BY <1>1, <1>2, <1>3, <1>4 DEF f

LEMMA RemoveTable ==
  ASSUME Map!TypeOK, NEW k \in Keys, Map!Remove(k)
  PROVE  /\ mapSlots' \in MapTable /\ hash' = hash
         /\ ~HasIn(mapSlots, k) => mapSlots' = mapSlots
         /\ HasIn(mapSlots, k) =>
              /\ FoundIn(mapSlots, k) \in Map!Slots
              /\ mapSlots'[FoundIn(mapSlots, k)] = Map!Empty
              /\ \A s \in Map!Slots : s # FoundIn(mapSlots, k) => mapSlots'[s] = mapSlots[s]
<1> DEFINE f == FoundIn(mapSlots, k)
<1>1. /\ hash' = hash
      /\ HasIn(mapSlots, k) => mapSlots' = [mapSlots EXCEPT ![f] = Map!Empty]
      /\ ~HasIn(mapSlots, k) => mapSlots' = mapSlots
  BY TableNow DEF Map!Remove
<1>2. HasIn(mapSlots, k) => f \in Map!Slots
  BY FirstStop, ProbeType DEF Map!TypeOK, HasIn
<1>3. mapSlots \in MapTable /\ Map!Empty \in MapEntry
  BY DEF Map!TypeOK, MapTable, MapEntry
<1> HIDE DEF f
<1>4. CASE HasIn(mapSlots, k)
  <2>1. /\ mapSlots' \in MapTable /\ mapSlots'[f] = Map!Empty
        /\ \A s \in Map!Slots : s # f => mapSlots'[s] = mapSlots[s]
    BY <1>1, <1>2, <1>3, <1>4, TableUpdated
  <2>2. QED BY <1>1, <1>2, <1>4, <2>1 DEF f
<1>5. QED BY <1>1, <1>3, <1>4

LEMMA MapTypes == Map!TypeOK /\ [Map!Next]_(Map!vars) => Map!TypeOK'
<1> SUFFICES ASSUME Map!TypeOK, [Map!Next]_(Map!vars) PROVE Map!TypeOK'
  OBVIOUS
<1>1. ASSUME NEW k \in Keys, NEW v \in Values, Map!Set(k, v) PROVE Map!TypeOK'
  BY <1>1, SetTable DEF Map!TypeOK, MapTable, MapEntry
<1>2. ASSUME NEW k \in Keys, Map!Remove(k) PROVE Map!TypeOK'
  <2>1. mapSlots' \in MapTable /\ hash' = hash
    BY <1>2, RemoveTable
  <2>2. holed' \in BOOLEAN
    BY <1>2 DEF Map!Remove, Map!TypeOK
  <2>3. QED BY <2>1, <2>2 DEF Map!TypeOK, MapTable, MapEntry
<1>3. CASE UNCHANGED <<hash, mapSlots, holed>>
  BY <1>3 DEF Map!TypeOK
<1>4. QED BY <1>1, <1>2, <1>3 DEF Map!Next, Map!vars, Map!Get, Map!Fails, Map!SetFull

LEMMA MapOfContainers == ContainersSpec => Map!Spec
<1>1. ContainersInit => Map!Init
  BY DEF ContainersInit
<1>2. [\/ QueueStep \/ StackStep \/ MapStep \/ CppQueueStep \/ CppStackStep \/ BrokerStep
      ]_<<which, vars, stackVars, mapVars, cppVars, busVars>> => [Map!Next]_(Map!vars)
  BY DEF QueueStep, StackStep, MapStep, CppQueueStep, CppStackStep, BrokerStep, mapVars, Map!vars
<1>3. QED BY <1>1, <1>2, PTL DEF ContainersSpec, Map!Spec

LEMMA MapTypeCorrect == Map!Spec => []Map!TypeOK
<1>1. Map!Init => Map!TypeOK
  BY DEF Map!Init, Map!TypeOK
<1>2. QED BY <1>1, MapTypes, PTL DEF Map!Spec

(* JunoDs_MapSet of any key makes the value visible to a JunoDs_MapGet,    *)
(* whatever other entries collide with it and whatever holes Removes left. *)
THEOREM SetMakesVisible == ContainersSpec => SetIsVisible
<1> DEFINE Seen == \A k \in Keys, v \in Values :
                     mapLast' = Map!Call("Set", k, v, "SUCCESS") =>
                       Map!Present(k)' /\ (mapSlots[Map!Found(k)].value = v)'
<1>1. Map!TypeOK /\ [Map!Next]_(Map!vars) => [Seen]_(Map!vars)
  <2> SUFFICES ASSUME Map!TypeOK, Map!Next, NEW k \in Keys, NEW v \in Values,
                      mapLast' = Map!Call("Set", k, v, "SUCCESS")
               PROVE  Map!Present(k)' /\ (mapSlots[Map!Found(k)].value = v)'
    OBVIOUS
  <2>1. Map!Set(k, v)
    BY DEF Map!Next, Map!Call, Map!Get, Map!Set, Map!SetFull, Map!Remove, Map!Fails
  <2>2. HasIn(mapSlots', k) /\ FoundIn(mapSlots', k) = FoundIn(mapSlots, k)
    BY <2>1, SetTable, SetFound DEF Map!TypeOK
  <2>3. hash' = hash /\ mapSlots'[FoundIn(mapSlots, k)].value = v
    BY <2>1, SetTable
  <2>4. QED BY <2>2, <2>3, TableNext
<1>2. SetIsVisible <=> [][Seen]_(Map!vars)
  BY PTL DEF SetIsVisible, Map!SetIsVisible
<1>3. QED BY <1>1, <1>2, MapOfContainers, MapTypeCorrect, PTL DEF Map!Spec

-----------------------------------------------------------------------------
(* Every entry is where probing for its key finds it.                      *)
RetrievableIn(t) ==
  \A i \in Map!Slots : t[i] # Map!Empty => HasIn(t, t[i].key) /\ FoundIn(t, t[i].key) = i

LEMMA RetrievableNow ==
  /\ Map!Retrievable <=> RetrievableIn(mapSlots)
  /\ hash' = hash => (Map!Retrievable' <=> RetrievableIn(mapSlots'))
BY TableNow, TableNext DEF Map!Retrievable, RetrievableIn

(* The keys present are the keys of the entries.                           *)
LEMMA PresentKeys ==
  ASSUME hash \in [Keys -> Hashes], NEW t \in MapTable, RetrievableIn(t), NEW k \in Keys
  PROVE  /\ HasIn(t, k) => FoundIn(t, k) \in Map!Slots /\ t[FoundIn(t, k)].key = k
         /\ \A s \in Map!Slots : t[s].key = k => HasIn(t, k) /\ FoundIn(t, k) = s
<1>1. HasIn(t, k) => FoundIn(t, k) \in Map!Slots
  BY FirstStop, ProbeType DEF HasIn
<1>2. ASSUME NEW s \in Map!Slots, t[s].key = k PROVE HasIn(t, k) /\ FoundIn(t, k) = s
  BY <1>2, TableEntry DEF RetrievableIn
<1>3. QED BY <1>1, <1>2 DEF HasIn

(* As many keys as slots are present exactly when no slot is empty.        *)
KeysIn(t) == {k \in Keys : HasIn(t, k)}
NoneEmpty(t) == \A i \in Map!Slots : t[i] # Map!Empty

LEMMA FullWhenNoneEmpty ==
  ASSUME hash \in [Keys -> Hashes], NEW t \in MapTable, RetrievableIn(t)
  PROVE  Cardinality(KeysIn(t)) = zMapCapacity <=> NoneEmpty(t)
<1> DEFINE g == [k \in KeysIn(t) |-> FoundIn(t, k)]
<1>1. g \in [KeysIn(t) -> Map!Slots]
  BY PresentKeys DEF KeysIn
<1>2. \A k \in KeysIn(t) : t[g[k]].key = k
  BY PresentKeys DEF KeysIn
<1>3. IsFiniteSet(Map!Slots) /\ Cardinality(Map!Slots) = zMapCapacity
  <2>1. zMapCapacity - 1 \in Int /\ ~(0 > zMapCapacity - 1) /\ (zMapCapacity - 1) - 0 + 1 = zMapCapacity
    BY MapConstants
  <2>2. QED BY <2>1, MapConstants, FS_Interval
<1>4. g \in Injection(KeysIn(t), Map!Slots)
  <2> HIDE DEF g
  <2>1. \A k, l \in KeysIn(t) : g[k] = g[l] => k = l
    BY <1>2
  <2>2. QED BY <1>1, <2>1 DEF Injection, IsInjective
<1>5. Cardinality(KeysIn(t)) = zMapCapacity <=> g \in Surjection(KeysIn(t), Map!Slots)
  <2> HIDE DEF g
  <2>1. QED BY <1>3, <1>4, FS_Injection
<1>6. g \in Surjection(KeysIn(t), Map!Slots) => NoneEmpty(t)
  <2> SUFFICES ASSUME g \in Surjection(KeysIn(t), Map!Slots), NEW i \in Map!Slots
               PROVE  t[i] # Map!Empty
    BY DEF NoneEmpty
  <2> HIDE DEF g
  <2>1. PICK k \in KeysIn(t) : g[k] = i
    BY DEF Surjection
  <2>2. t[i].key = k /\ k \in Keys
    BY <1>2, <2>1 DEF KeysIn
  <2>3. QED BY <2>2, TableEntry
<1>7. NoneEmpty(t) => g \in Surjection(KeysIn(t), Map!Slots)
  <2> SUFFICES ASSUME NoneEmpty(t) PROVE \A i \in Map!Slots : \E k \in KeysIn(t) : g[k] = i
    <3> HIDE DEF g
    <3>1. QED BY <1>1 DEF Surjection
  <2> SUFFICES ASSUME NEW i \in Map!Slots PROVE \E k \in KeysIn(t) : g[k] = i
    OBVIOUS
  <2>1. PICK k \in Keys : t[i].key = k
    BY TableEntry DEF NoneEmpty
  <2>2. HasIn(t, k) /\ FoundIn(t, k) = i
    BY <2>1, PresentKeys
  <2>3. QED BY <2>2 DEF KeysIn
<1>8. QED BY <1>5, <1>6, <1>7

(* A probe sequence that does not stop has met nothing but other keys, in  *)
(* every slot there is.                                                    *)
LEMMA TraversedMeans ==
  ASSUME hash \in [Keys -> Hashes], Map!ProbesEverySlot, NEW t \in MapTable, RetrievableIn(t),
         NEW k \in Keys
  PROVE  StopsIn(t, k) = {} <=> NoneEmpty(t) /\ ~HasIn(t, k)
<1>1. ASSUME StopsIn(t, k) = {} PROVE NoneEmpty(t) /\ ~HasIn(t, k)
  <2>1. ASSUME NEW s \in Map!Slots PROVE t[s] # Map!Empty
    <3>1. PICK i \in Map!Slots : Map!Probe(k, i) = s
      BY ProbeEvery
    <3>2. t[s].key # NoValue
      BY <1>1, <3>1 DEF StopsIn
    <3>3. QED BY <3>2 DEF Map!Empty
  <2>2. QED BY <1>1, <2>1 DEF NoneEmpty, HasIn
<1>2. ASSUME StopsIn(t, k) # {}, NoneEmpty(t) PROVE HasIn(t, k)
  <2>1. PICK m \in Map!Slots : FoundIn(t, k) = Map!Probe(k, m) /\ t[Map!Probe(k, m)].key \in {k, NoValue}
    BY <1>2, FirstStop
  <2>2. Map!Probe(k, m) \in Map!Slots
    BY ProbeType
  <2>3. t[Map!Probe(k, m)].key # NoValue
    BY <1>2, <2>2, TableEntry, MapConstants DEF NoneEmpty
  <2>4. QED BY <1>2, <2>1, <2>3 DEF HasIn
<1>3. QED BY <1>1, <1>2

(* A key whose probing no changed slot stopped is found where it was.      *)
LEMMA StillFound ==
  ASSUME hash \in [Keys -> Hashes], NEW t, NEW u, NEW j \in Keys, HasIn(t, j),
         \A i \in Map!Slots : i <= Map!Min(StopsIn(t, j)) =>
           (u[Map!Probe(j, i)].key \in {j, NoValue} => t[Map!Probe(j, i)].key \in {j, NoValue}),
         u[FoundIn(t, j)] = t[FoundIn(t, j)]
  PROVE  HasIn(u, j) /\ FoundIn(u, j) = FoundIn(t, j)
<1>1. PICK m \in Map!Slots :
        /\ FoundIn(t, j) = Map!Probe(j, m)
        /\ Map!Min(StopsIn(t, j)) = m
        /\ t[Map!Probe(j, m)].key \in {j, NoValue}
        /\ \A i \in Map!Slots : i < m => t[Map!Probe(j, i)].key \notin {j, NoValue}
  BY FirstStop DEF HasIn
<1>2. \A i \in Map!Slots : i < m => u[Map!Probe(j, i)].key \notin {j, NoValue}
  BY <1>1, MapConstants
<1>3. u[Map!Probe(j, m)].key = j
  BY <1>1 DEF HasIn
<1>4. StopsIn(u, j) # {} /\ FoundIn(u, j) = Map!Probe(j, m)
  BY <1>2, <1>3, IsFirstStop
<1>5. QED BY <1>1, <1>3, <1>4 DEF HasIn
-----------------------------------------------------------------------------
(* JunoMap keeps every entry retrievable until a Remove cuts a chain.      *)
MapInv == Map!TypeOK /\ (~holed => Map!Retrievable)

LEMMA SetKeeps ==
  ASSUME Map!TypeOK, RetrievableIn(mapSlots), NEW k \in Keys, NEW v \in Values, Map!Set(k, v)
  PROVE  /\ RetrievableIn(mapSlots')
         /\ HasIn(mapSlots', k) /\ FoundIn(mapSlots', k) = FoundIn(mapSlots, k)
         /\ mapSlots'[FoundIn(mapSlots, k)].value = v
         /\ \A j \in Keys \ {k} :
              /\ HasIn(mapSlots', j) <=> HasIn(mapSlots, j)
              /\ HasIn(mapSlots, j) =>
                   /\ FoundIn(mapSlots', j) = FoundIn(mapSlots, j)
                   /\ mapSlots'[FoundIn(mapSlots, j)] = mapSlots[FoundIn(mapSlots, j)]
<1>1. PICK t, u, f :
        /\ t = mapSlots /\ u = mapSlots' /\ f = FoundIn(t, k) /\ f \in Map!Slots
        /\ t \in MapTable /\ u \in MapTable /\ hash \in [Keys -> Hashes]
        /\ StopsIn(t, k) # {} /\ RetrievableIn(t)
        /\ u[f].key = k /\ u[f].value = v
        /\ \A s \in Map!Slots : s # f => u[s] = t[s]
  BY SetTable DEF Map!TypeOK, MapTable, MapEntry
<1>2. t[f].key \in {k, NoValue}
  BY <1>1, FirstStop
<1>3. HasIn(u, k) /\ FoundIn(u, k) = f
  BY <1>1, SetFound
<1>4. ASSUME NEW j \in Keys, j # k, HasIn(t, j)
      PROVE  HasIn(u, j) /\ FoundIn(u, j) = FoundIn(t, j) /\ u[FoundIn(t, j)] = t[FoundIn(t, j)]
  <2>1. FoundIn(t, j) \in Map!Slots /\ t[FoundIn(t, j)].key = j
    BY <1>1, <1>4, PresentKeys
  <2>2. FoundIn(t, j) # f
    BY <1>2, <1>4, <2>1, MapConstants
  <2>3. u[FoundIn(t, j)] = t[FoundIn(t, j)]
    BY <1>1, <2>1, <2>2
  <2>4. ASSUME NEW i \in Map!Slots, u[Map!Probe(j, i)].key \in {j, NoValue}
        PROVE  t[Map!Probe(j, i)].key \in {j, NoValue}
    <3>1. Map!Probe(j, i) \in Map!Slots /\ Map!Probe(j, i) # f
      BY <1>1, <1>4, <2>4, ProbeType, MapConstants
    <3>2. QED BY <1>1, <2>4, <3>1
  <2>5. HasIn(u, j) /\ FoundIn(u, j) = FoundIn(t, j)
    BY <1>1, <1>4, <2>3, <2>4, StillFound
  <2>6. QED BY <2>3, <2>5
<1>5. ASSUME NEW j \in Keys, j # k, HasIn(u, j) PROVE HasIn(t, j)
  <2>1. FoundIn(u, j) \in Map!Slots /\ u[FoundIn(u, j)].key = j
    BY <1>1, <1>5, FirstStop, ProbeType DEF HasIn
  <2>2. FoundIn(u, j) # f
    BY <1>1, <1>5, <2>1
  <2>3. t[FoundIn(u, j)].key = j
    BY <1>1, <2>1, <2>2
  <2>4. QED BY <1>1, <2>1, <2>3, PresentKeys
<1>6. ASSUME NEW i \in Map!Slots, u[i] # Map!Empty PROVE HasIn(u, u[i].key) /\ FoundIn(u, u[i].key) = i
  <2>1. CASE i = f
    BY <1>1, <1>3, <2>1
  <2>2. CASE i # f
    <3>1. u[i] = t[i] /\ u[i].key \in Keys
      BY <1>1, <1>6, <2>2, TableEntry
    <3>2. HasIn(t, u[i].key) /\ FoundIn(t, u[i].key) = i
      BY <1>1, <1>6, <3>1 DEF RetrievableIn
    <3>3. u[i].key # k
      BY <1>1, <2>2, <3>2
    <3>4. QED BY <1>4, <3>1, <3>2, <3>3
  <2>3. QED BY <2>1, <2>2
<1>7. QED BY <1>1, <1>3, <1>4, <1>5, <1>6 DEF RetrievableIn

(* A Remove that cuts the chain of no other entry.                         *)
LEMMA RemoveKeeps ==
  ASSUME Map!TypeOK, RetrievableIn(mapSlots), NEW k \in Keys, Map!Remove(k), ~holed'
  PROVE  /\ RetrievableIn(mapSlots')
         /\ ~HasIn(mapSlots', k)
         /\ \A j \in Keys \ {k} :
              /\ HasIn(mapSlots', j) <=> HasIn(mapSlots, j)
              /\ HasIn(mapSlots, j) =>
                   /\ FoundIn(mapSlots', j) = FoundIn(mapSlots, j)
                   /\ mapSlots'[FoundIn(mapSlots, j)] = mapSlots[FoundIn(mapSlots, j)]
<1>1. CASE ~HasIn(mapSlots, k)
  BY <1>1, RemoveTable
<1>2. CASE HasIn(mapSlots, k)
  <2>1. PICK t, u, f :
          /\ t = mapSlots /\ u = mapSlots' /\ f = FoundIn(t, k) /\ f \in Map!Slots
          /\ t \in MapTable /\ u \in MapTable /\ hash \in [Keys -> Hashes]
          /\ HasIn(t, k) /\ RetrievableIn(t)
          /\ u[f] = Map!Empty
          /\ \A s \in Map!Slots : s # f => u[s] = t[s]
    BY <1>2, RemoveTable DEF Map!TypeOK, MapTable, MapEntry
  <2>2. \A j \in Keys \ {k} : HasIn(t, j) => f \notin Map!Chain(j)
    BY <1>2, <2>1, TableNow DEF Map!Remove
  <2>3. t[f].key = k /\ u[f].key = NoValue /\ k # NoValue
    BY <2>1, MapConstants DEF HasIn, Map!Empty
  <2>4. ASSUME NEW j \in Keys, j # k, HasIn(t, j)
        PROVE  HasIn(u, j) /\ FoundIn(u, j) = FoundIn(t, j) /\ u[FoundIn(t, j)] = t[FoundIn(t, j)]
    <3>1. FoundIn(t, j) \in Map!Slots /\ t[FoundIn(t, j)].key = j
      BY <2>1, <2>4, PresentKeys
    <3>2. u[FoundIn(t, j)] = t[FoundIn(t, j)]
      BY <2>1, <2>3, <2>4, <3>1
    <3>3. ASSUME NEW i \in Map!Slots, i <= Map!Min(StopsIn(t, j)), u[Map!Probe(j, i)].key \in {j, NoValue}
          PROVE  t[Map!Probe(j, i)].key \in {j, NoValue}
      <4>1. StopsIn(t, j) = Map!Stops(j) /\ i \in 0..Map!Min(StopsIn(t, j))
        <5>1. StopsIn(t, j) \in SUBSET Nat /\ StopsIn(t, j) # {}
          BY <2>4, MapConstants DEF StopsIn, HasIn
        <5>2. Map!Min(StopsIn(t, j)) \in Nat
          BY <5>1, MapMin
        <5>3. QED BY <2>1, <3>3, <5>2, TableNow, MapConstants
      <4>2. Map!Probe(j, i) \in Map!Chain(j)
        BY <4>1 DEF Map!Chain
      <4>3. Map!Probe(j, i) # f /\ Map!Probe(j, i) \in Map!Slots
        BY <2>1, <2>2, <2>4, <4>2, ProbeType
      <4>4. QED BY <2>1, <3>3, <4>3
    <3>4. HasIn(u, j) /\ FoundIn(u, j) = FoundIn(t, j)
      BY <2>1, <2>4, <3>2, <3>3, StillFound
    <3>5. QED BY <3>2, <3>4
  <2>5. ASSUME NEW j \in Keys, HasIn(u, j) PROVE j # k /\ HasIn(t, j)
    <3>1. FoundIn(u, j) \in Map!Slots /\ u[FoundIn(u, j)].key = j
      BY <2>1, <2>5, FirstStop, ProbeType DEF HasIn
    <3>2. FoundIn(u, j) # f
      BY <2>3, <3>1, MapConstants
    <3>3. t[FoundIn(u, j)].key = j
      BY <2>1, <3>1, <3>2
    <3>4. HasIn(t, j) /\ FoundIn(t, j) = FoundIn(u, j)
      BY <2>1, <3>1, <3>3, PresentKeys
    <3>5. QED BY <2>1, <3>2, <3>4
  <2>6. ASSUME NEW i \in Map!Slots, u[i] # Map!Empty
        PROVE  HasIn(u, u[i].key) /\ FoundIn(u, u[i].key) = i
    <3>1. i # f /\ u[i] = t[i] /\ u[i].key \in Keys
      BY <2>1, <2>6, TableEntry
    <3>2. HasIn(t, u[i].key) /\ FoundIn(t, u[i].key) = i
      BY <2>1, <2>6, <3>1 DEF RetrievableIn
    <3>3. u[i].key # k
      BY <2>1, <3>1, <3>2
    <3>4. QED BY <2>4, <3>1, <3>2, <3>3
  <2>7. QED BY <2>1, <2>4, <2>5, <2>6 DEF RetrievableIn
<1>3. QED BY <1>1, <1>2

LEMMA MapInvariance == Map!Spec => []MapInv
<1>1. Map!Init => MapInv
  BY DEF Map!Init, Map!TypeOK, Map!Retrievable, MapInv
<1>2. MapInv /\ [Map!Next]_(Map!vars) => MapInv'
  <2> SUFFICES ASSUME MapInv, [Map!Next]_(Map!vars), ~holed' PROVE Map!Retrievable'
    BY MapTypes DEF MapInv
  <2>1. ASSUME NEW k \in Keys, NEW v \in Values, Map!Set(k, v) PROVE Map!Retrievable'
    <3>1. Map!TypeOK /\ RetrievableIn(mapSlots) /\ hash' = hash
      BY <2>1, SetTable, RetrievableNow DEF MapInv
    <3>2. QED BY <2>1, <3>1, SetKeeps, RetrievableNow
  <2>2. ASSUME NEW k \in Keys, Map!Remove(k) PROVE Map!Retrievable'
    <3>1. ~holed /\ hash' = hash
      BY <2>2 DEF Map!Remove
    <3>2. Map!TypeOK /\ RetrievableIn(mapSlots)
      BY <3>1, RetrievableNow DEF MapInv
    <3>3. QED BY <2>2, <3>1, <3>2, RemoveKeeps, RetrievableNow
  <2>3. CASE UNCHANGED <<hash, mapSlots, holed>>
    BY <2>3, RetrievableNow DEF MapInv
  <2>4. QED BY <2>1, <2>2, <2>3 DEF Map!Next, Map!vars, Map!Get, Map!Fails, Map!SetFull
<1>3. QED BY <1>1, <1>2, PTL DEF Map!Spec

-----------------------------------------------------------------------------
(* The dictionary a table stands for.                                      *)
DictOf(t) == [k \in KeysIn(t) |-> t[FoundIn(t, k)].value]
DictNow == [k \in {k \in Keys : Map!Present(k)} |-> mapSlots[Map!Found(k)].value]

LEMMA DictIs ==
  /\ DictNow = DictOf(mapSlots)
  /\ hash' = hash => DictNow' = DictOf(mapSlots')
<1>1. DictNow = DictOf(mapSlots)
  <2>1. {k \in Keys : Map!Present(k)} = KeysIn(mapSlots)
    BY TableNow DEF KeysIn
  <2>2. QED BY <2>1, TableNow DEF DictNow, DictOf
<1>2. ASSUME hash' = hash PROVE DictNow' = DictOf(mapSlots')
  <2>1. {k \in Keys : Map!Present(k)'} = KeysIn(mapSlots')
    BY <1>2, TableNext DEF KeysIn
  <2>2. QED BY <1>2, <2>1, TableNext DEF DictNow, DictOf
<1>3. QED BY <1>1, <1>2

LEMMA DictCardinality == \A S : Map!Dict!Cardinality(S) = Cardinality(S)
BY DEF Map!Dict!Cardinality, Cardinality, Map!Dict!IsFiniteSet, IsFiniteSet

LEMMA DictHasFull ==
  ASSUME Map!TypeOK, RetrievableIn(mapSlots), Map!ProbesEverySlot, NEW k \in Keys
  PROVE  /\ Map!Dict!Has(k) <=> HasIn(mapSlots, k)
         /\ Map!Dict!IsFull <=> NoneEmpty(mapSlots)
         /\ StopsIn(mapSlots, k) = {} <=> Map!Dict!IsFull /\ ~Map!Dict!Has(k)
<1>1. /\ mapSlots \in MapTable /\ hash \in [Keys -> Hashes]
  BY DEF Map!TypeOK, MapTable, MapEntry
<1>2. Map!Dict!Has(k) <=> HasIn(mapSlots, k)
  BY TableNow DEF Map!Dict!Has
<1>3. Map!Dict!IsFull <=> Cardinality(KeysIn(mapSlots)) = zMapCapacity
  <2>1. Map!Dict!IsFull <=> Map!Dict!Cardinality(DOMAIN DictNow) = zMapCapacity
    BY DEF Map!Dict!IsFull, DictNow
  <2>2. DOMAIN DictNow = KeysIn(mapSlots)
    BY DictIs DEF DictOf
  <2>3. QED BY <2>1, <2>2, DictCardinality
<1>4. QED BY <1>1, <1>2, <1>3, FullWhenNoneEmpty, TraversedMeans

LEMMA DictGet ==
  ASSUME Map!TypeOK, RetrievableIn(mapSlots), Map!ProbesEverySlot, NEW k \in Keys, Map!Get(k)
  PROVE  Map!Dict!Get(k)
<1>1. UNCHANGED DictNow
  BY DEF Map!Get, DictNow, Map!Present, Map!Found, Map!Traversed, Map!Stops, Map!Probe
<1>2. mapLast' = IF StopsIn(mapSlots, k) = {} THEN Map!Call("Get", k, NoValue, "TABLE_FULL")
                 ELSE IF ~HasIn(mapSlots, k) THEN Map!Call("Get", k, NoValue, "DNE")
                 ELSE Map!Call("Get", k, mapSlots[FoundIn(mapSlots, k)].value, "SUCCESS")
  BY TableNow DEF Map!Get
<1>3. HasIn(mapSlots, k) => DictNow[k] = mapSlots[FoundIn(mapSlots, k)].value
  BY DictIs DEF DictOf, KeysIn
<1>4. mapLast' = IF Map!Dict!Has(k) THEN Map!Call("Get", k, DictNow[k], "SUCCESS")
                 ELSE Map!Call("Get", k, NoValue, IF Map!Dict!IsFull THEN "TABLE_FULL" ELSE "DNE")
  BY <1>2, <1>3, DictHasFull
<1>5. QED BY <1>1, <1>4 DEF Map!Dict!Get, Map!Dict!Call, Map!Call, DictNow

LEMMA DictSet ==
  ASSUME Map!TypeOK, RetrievableIn(mapSlots), Map!ProbesEverySlot, NEW k \in Keys, NEW v \in Values,
         Map!Set(k, v)
  PROVE  Map!Dict!Set(k, v)
<1>1. Map!Dict!Has(k) \/ ~Map!Dict!IsFull
  BY SetTable, DictHasFull
<1>2. DictNow' = [j \in DOMAIN DictNow \cup {k} |-> IF j = k THEN v ELSE DictNow[j]]
  <2>1. PICK t, u : t = mapSlots /\ u = mapSlots' /\ DictNow = DictOf(t) /\ DictNow' = DictOf(u)
    BY SetTable, DictIs
  <2>2. /\ HasIn(u, k) /\ u[FoundIn(u, k)].value = v
        /\ \A j \in Keys \ {k} :
             /\ HasIn(u, j) <=> HasIn(t, j)
             /\ HasIn(t, j) => u[FoundIn(u, j)] = t[FoundIn(t, j)]
    BY <2>1, SetKeeps
  <2>3. KeysIn(u) = KeysIn(t) \cup {k}
    BY <2>2 DEF KeysIn
  <2>4. \A j \in KeysIn(u) : u[FoundIn(u, j)].value = IF j = k THEN v ELSE DictOf(t)[j]
    BY <2>2 DEF KeysIn, DictOf
  <2>5. DictOf(u) = [j \in DOMAIN DictOf(t) \cup {k} |-> IF j = k THEN v ELSE DictOf(t)[j]]
    BY <2>3, <2>4 DEF DictOf
  <2>6. QED BY <2>1, <2>5
<1>3. mapLast' = Map!Call("Set", k, v, "SUCCESS")
  BY DEF Map!Set
<1>4. QED BY <1>1, <1>2, <1>3 DEF Map!Dict!Set, Map!Dict!Call, Map!Call, DictNow

LEMMA DictRemove ==
  ASSUME Map!TypeOK, RetrievableIn(mapSlots), Map!ProbesEverySlot, NEW k \in Keys, Map!Remove(k),
         ~holed'
  PROVE  Map!Dict!Remove(k)
<1>1. DictNow' = [j \in DOMAIN DictNow \ {k} |-> DictNow[j]]
  <2>1. PICK t, u : t = mapSlots /\ u = mapSlots' /\ DictNow = DictOf(t) /\ DictNow' = DictOf(u)
    BY RemoveTable, DictIs
  <2>2. /\ ~HasIn(u, k)
        /\ \A j \in Keys \ {k} :
             /\ HasIn(u, j) <=> HasIn(t, j)
             /\ HasIn(t, j) => u[FoundIn(u, j)] = t[FoundIn(t, j)]
    BY <2>1, RemoveKeeps
  <2>3. KeysIn(u) = KeysIn(t) \ {k}
    BY <2>2 DEF KeysIn
  <2>4. \A j \in KeysIn(u) : u[FoundIn(u, j)].value = DictOf(t)[j]
    BY <2>2 DEF KeysIn, DictOf
  <2>5. DictOf(u) = [j \in DOMAIN DictOf(t) \ {k} |-> DictOf(t)[j]]
    BY <2>3, <2>4 DEF DictOf
  <2>6. QED BY <2>1, <2>5
<1>2. mapLast' = Map!Call("Remove", k, NoValue,
                          IF ~Map!Dict!Has(k) /\ Map!Dict!IsFull THEN "TABLE_FULL" ELSE "SUCCESS")
  BY TableNow, DictHasFull DEF Map!Remove
<1>3. QED BY <1>1, <1>2 DEF Map!Dict!Remove, Map!Dict!Call, Map!Call, Map!Dict!Restrict, DictNow

LEMMA DictSetFull ==
  ASSUME Map!TypeOK, RetrievableIn(mapSlots), Map!ProbesEverySlot, NEW k \in Keys, NEW v \in Values,
         Map!SetFull(k, v)
  PROVE  Map!Dict!SetFull(k, v)
<1>1. UNCHANGED DictNow
  BY DEF Map!SetFull, DictNow, Map!Present, Map!Found, Map!Traversed, Map!Stops, Map!Probe
<1>2. ~Map!Dict!Has(k) /\ Map!Dict!IsFull
  BY TableNow, DictHasFull DEF Map!SetFull
<1>3. mapLast' = Map!Call("Set", k, v, "TABLE_FULL")
  BY DEF Map!SetFull
<1>4. QED BY <1>1, <1>2, <1>3 DEF Map!Dict!SetFull, Map!Dict!Call, Map!Call, DictNow

LEMMA DictFails ==
  ASSUME NEW op, NEW k, NEW v, Map!Fails(op, k, v)
  PROVE  Map!Dict!Fails(op, k, v)
BY DEF Map!Fails, Map!Dict!Fails, Map!Dict!Call, Map!Call, Map!Present, Map!Found, Map!Traversed,
       Map!Stops, Map!Probe

(* Up to the first JunoDs_MapRemove that cuts the probe chain of another   *)
(* entry, and with hashes whose probing does not wrap badly, every call of *)
(* the map is a call of a dictionary.                                      *)
THEOREM MapRefinement == ContainersSpec => MapUntilHoled
<1> DEFINE Kept == Map!ProbesEverySlot /\ ~holed' => Map!Dict!Next
<1>1. MapInv /\ [Map!Next]_(Map!vars) => [Kept]_(Map!vars)
  <2> SUFFICES ASSUME MapInv, Map!Next, Map!ProbesEverySlot, ~holed' PROVE Map!Dict!Next
    OBVIOUS
  <2>0. Map!TypeOK /\ RetrievableIn(mapSlots)
    <3>1. ~holed
      BY DEF Map!Next, Map!Get, Map!Set, Map!SetFull, Map!Remove, Map!Fails
    <3>2. QED BY <3>1, RetrievableNow DEF MapInv
  <2>1. ASSUME NEW k \in Keys, Map!Get(k) PROVE Map!Dict!Next
    BY <2>0, <2>1, DictGet DEF Map!Dict!Next
  <2>2. ASSUME NEW k \in Keys, NEW v \in Values, Map!Set(k, v) PROVE Map!Dict!Next
    BY <2>0, <2>2, DictSet DEF Map!Dict!Next
  <2>3. ASSUME NEW k \in Keys, NEW v \in Values, Map!SetFull(k, v) PROVE Map!Dict!Next
    BY <2>0, <2>3, DictSetFull DEF Map!Dict!Next
  <2>4. ASSUME NEW k \in Keys, Map!Remove(k) PROVE Map!Dict!Next
    BY <2>0, <2>4, DictRemove DEF Map!Dict!Next
  <2>5. ASSUME NEW k \in Keys,
               \/ Map!Fails("Get", k, NoValue) \/ Map!Fails("Remove", k, NoValue)
               \/ \E v \in Values : Map!Fails("Set", k, v)
        PROVE  Map!Dict!Next
    BY <2>5, DictFails DEF Map!Dict!Next
  <2>6. QED BY <2>1, <2>2, <2>3, <2>4, <2>5 DEF Map!Next
<1>2. MapUntilHoled <=> [][Kept]_(Map!vars)
  BY PTL DEF MapUntilHoled, Map!MapUntilHoled
<1>3. QED BY <1>1, <1>2, MapOfContainers, MapInvariance, PTL DEF Map!Spec

-----------------------------------------------------------------------------
(* The queue is one of the containers: the run's specification is the      *)
(* queue's on the queue's variables.                                       *)
LEMMA QueueOfContainers == ContainersSpec => Spec
<1>1. ContainersInit => Init
  BY DEF ContainersInit
<1>2. [\/ QueueStep \/ StackStep \/ MapStep \/ CppQueueStep \/ CppStackStep \/ BrokerStep
      ]_<<which, vars, stackVars, mapVars, cppVars, busVars>> => [Next]_vars
  BY DEF QueueStep, StackStep, MapStep, CppQueueStep, CppStackStep, BrokerStep
<1>3. QED BY <1>1, <1>2, PTL DEF ContainersSpec, Spec

(* Whatever is called, in whatever order, the indices and lengths of the   *)
(* C containers stay within their arrays: juno_buff_queue.c,               *)
(* juno_buff_stack.c, juno_map.c and the registry and pipes of             *)
(* juno_broker.c.                                                          *)
THEOREM TypesCorrect == ContainersSpec => []TypesOK
<1>1. ContainersSpec => []TypeOK
  BY QueueOfContainers, TypeCorrect
<1>2. ContainersSpec => []Stack!TypeOK
  BY StackOfContainers, StackTypeCorrect
<1>3. ContainersSpec => []Map!TypeOK
  BY MapOfContainers, MapTypeCorrect
<1>4. BusInv => Bus!TypeOK
  BY DEF BusInv
<1>5. TypeOK /\ Stack!TypeOK /\ Map!TypeOK /\ Bus!TypeOK <=> TypesOK
  BY DEF TypesOK
<1>6. QED BY <1>1, <1>2, <1>3, <1>4, <1>5, BrokerOfContainers, BusInvariance, PTL
=============================================================================
