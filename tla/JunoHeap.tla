------------------------------ MODULE JunoHeap ------------------------------
(***************************************************************************)
(* The binary heap of juno_heap.c, a max-heap over an array of priorities. *)
(* Insert, Pop and Heapify end in loops that move one element a level up   *)
(* or down per round; a round is a step here, and no other call begins     *)
(* until the loop has returned.  Compare, Swap, Copy, GetAt, SetAt and     *)
(* RemoveAt are the application's and may fail: a failure in the middle of *)
(* a loop leaves the rounds before it done.                                *)
(***************************************************************************)
EXTENDS Integers, FiniteSets, Bags

CONSTANTS
  Priorities,   \* of the elements, what Compare looks at
  zCapacity     \* of the backing array

ASSUME HeapAssumption == Priorities \subseteq Nat \ {0} /\ zCapacity \in Nat \ {0}

VARIABLES
  zLength,   \* number of elements
  heap,      \* the backing array
  tReturn,   \* the caller's buffer for popped elements
  sift,      \* the call whose loop runs, the node it is at, the node it began at
  due,       \* history: the bag of elements accepted and not handed out
  failed,    \* history: an operation failed since the heap was last empty
  last       \* history: the last call that returned, and its status

heapVars == <<zLength, heap, tReturn, sift, due, failed, last>>

Cleared == 0                    \* a slot after Reset compares like zero
Slots   == 0..(zCapacity - 1)

Sifting(call, i) == [call |-> call, at |-> i, start |-> i]
Idle == Sifting("None", 0)

Returns(op, status) == sift' = Idle /\ last' = [op |-> op, tStatus |-> status]

HeapInit ==
  /\ zLength = 0
  /\ heap = [i \in Slots |-> Cleared]
  /\ tReturn = Cleared
  /\ sift = Idle
  /\ due = EmptyBag
  /\ failed = FALSE
  /\ last = [op |-> "Init", tStatus |-> "SUCCESS"]

(* Where x is among the first n elements, how often, and the bag of them.  *)
Positions(h, n, x) == { i \in 0..(n - 1) : h[i] = x }
Count(h, n, x) == Cardinality(Positions(h, n, x))
Contents(h, n) == [x \in { h[i] : i \in 0..(n - 1) } |-> Count(h, n, x)]

Parent(i) == (i - 1) \div 2
Swapped(h, i, j) == [h EXCEPT ![i] = h[j], ![j] = h[i]]
Holds(h, parent, child) == h[parent] >= h[child]    \* Compare

-----------------------------------------------------------------------------
(* Update: the last element moves up, to the root if need be; a parent     *)
(* that holds does not end the loop.                                       *)
BubbleUp ==
  /\ sift.call = "Insert" /\ sift.at > 0
  /\ LET parent == Parent(sift.at) IN
     /\ heap' = IF Holds(heap, parent, sift.at) THEN heap ELSE Swapped(heap, sift.at, parent)
     /\ sift' = [sift EXCEPT !.at = parent]
  /\ UNCHANGED <<zLength, tReturn, due, failed, last>>

AtRoot ==
  /\ sift.call = "Insert" /\ sift.at = 0
  /\ Returns("Insert", "SUCCESS")
  /\ UNCHANGED <<zLength, heap, tReturn, due, failed>>

BubbleUpFails ==
  /\ sift.call = "Insert" /\ sift.at > 0
  /\ Returns("Insert", "ERR")
  /\ failed' = TRUE
  /\ UNCHANGED <<zLength, heap, tReturn, due>>

(* Mutant: only the left child is looked at.                               *)
BestLeft(i) == IF 2 * i + 1 < zLength /\ ~Holds(heap, i, 2 * i + 1) THEN 2 * i + 1 ELSE i

(* The largest of node i and its children.                                 *)
Best(i) ==
  LET left == IF 2 * i + 1 < zLength /\ ~Holds(heap, i, 2 * i + 1) THEN 2 * i + 1 ELSE i
  IN  IF 2 * i + 2 < zLength /\ ~Holds(heap, left, 2 * i + 2) THEN 2 * i + 2 ELSE left

(* Mutant: the walk stops one node too early.                              *)
SiftReturnsToOne(status) ==
  IF sift.call = "Heapify" /\ sift.start > 1
  THEN sift' = Sifting("Heapify", sift.start - 1) /\ UNCHANGED last
  ELSE Returns(sift.call, status)

(* Heapify goes on with the node before, whatever the status, down to the  *)
(* root, whose status it returns.                                          *)
SiftReturns(status) ==
  IF sift.call = "Heapify" /\ sift.start > 0
  THEN sift' = Sifting("Heapify", sift.start - 1) /\ UNCHANGED last
  ELSE Returns(sift.call, status)

SiftDown ==
  /\ sift.call \in {"Pop", "Heapify"}
  /\ 2 * sift.at + 2 <= zCapacity
  /\ IF Best(sift.at) = sift.at
     THEN SiftReturns("SUCCESS") /\ UNCHANGED heap
     ELSE /\ heap' = Swapped(heap, sift.at, Best(sift.at))
          /\ sift' = [sift EXCEPT !.at = Best(sift.at)]
          /\ UNCHANGED last
  /\ UNCHANGED <<zLength, tReturn, due, failed>>

(* The child index is checked before it is known whether there is a child. *)
SiftOutOfBounds ==
  /\ sift.call \in {"Pop", "Heapify"}
  /\ 2 * sift.at + 2 > zCapacity
  /\ SiftReturns("OOB")
  /\ UNCHANGED <<zLength, heap, tReturn, due, failed>>

SiftDownFails ==
  /\ sift.call \in {"Pop", "Heapify"}
  /\ 2 * sift.at + 2 <= zCapacity
  /\ SiftReturns("ERR")
  /\ failed' = TRUE
  /\ UNCHANGED <<zLength, heap, tReturn, due>>

-----------------------------------------------------------------------------
Insert(x) ==
  /\ sift = Idle /\ zLength < zCapacity
  /\ heap' = [heap EXCEPT ![zLength] = x]
  /\ zLength' = zLength + 1
  /\ sift' = Sifting("Insert", zLength)
  /\ due' = due (+) SetToBag({x})
  /\ UNCHANGED <<tReturn, failed, last>>

InsertFull ==
  /\ sift = Idle /\ zLength >= zCapacity
  /\ Returns("Insert", "ERR")
  /\ UNCHANGED <<zLength, heap, tReturn, due, failed>>

(* SetAt fails: its status is overwritten by Update's, zLength grows over  *)
(* whatever the slot holds.                                                *)
InsertSetAtFails ==
  /\ sift = Idle /\ zLength < zCapacity
  /\ zLength' = zLength + 1
  /\ sift' = Sifting("Insert", zLength)
  /\ failed' = TRUE
  /\ UNCHANGED <<heap, tReturn, due, last>>

(* The application fills the first n slots of an empty heap's array, sets  *)
(* zLength and calls Heapify.  (Filling a heap in use is the same as       *)
(* popping it empty first: a bound on the interleavings, not on results.)  *)
Heapify(n, s) ==
  /\ sift = Idle /\ zLength = 0
  /\ heap' = [i \in Slots |-> IF i < n THEN s[i] ELSE heap[i]]
  /\ zLength' = n
  /\ sift' = Sifting("Heapify", Parent(n))
  /\ due' = Contents(s, n)
  /\ UNCHANGED <<tReturn, failed, last>>

(* Root and last element have changed places.                              *)
Ended == Swapped(heap, 0, zLength - 1)

(* Root and last element are swapped, the last slot is copied out and      *)
(* reset, the new root is to sink.                                         *)
Pop ==
  /\ sift = Idle /\ zLength > 0
  /\ tReturn' = heap[0]
  /\ heap' = [Ended EXCEPT ![zLength - 1] = Cleared]
  /\ zLength' = zLength - 1
  /\ due' = due (-) SetToBag({heap[0]})
  /\ IF zLength = 1
     THEN Returns("Pop", "SUCCESS") /\ failed' = FALSE
     ELSE sift' = Sifting("Pop", 0) /\ UNCHANGED <<failed, last>>

(* Mutant: the length is lowered before anything can fail.                 *)
PopFailsShorter ==
  /\ sift = Idle /\ zLength > 0
  /\ zLength' = zLength - 1
  /\ Returns("Pop", "ERR")
  /\ failed' = TRUE
  /\ UNCHANGED <<heap, tReturn, due>>

(* GetAt or Swap fails (nothing is done), Copy fails (root and last have   *)
(* changed places), or RemoveAt fails (and the caller has its copy).       *)
PopFails ==
  /\ sift = Idle /\ zLength > 0
  /\ heap' \in {heap, Ended}
  /\ tReturn' \in IF heap' = Ended THEN {tReturn, heap[0]} ELSE {tReturn}
  /\ Returns("Pop", "ERR")
  /\ failed' = TRUE
  /\ UNCHANGED <<zLength, due>>

OnEmpty ==
  /\ sift = Idle /\ zLength = 0
  /\ \E op \in {"Pop", "Heapify"} : Returns(op, "ERR")
  /\ UNCHANGED <<zLength, heap, tReturn, due, failed>>

HeapNext ==
  \/ BubbleUp \/ AtRoot \/ BubbleUpFails
  \/ SiftDown \/ SiftOutOfBounds \/ SiftDownFails
  \/ \E x \in Priorities : Insert(x)
  \/ InsertFull
  \/ InsertSetAtFails
  \/ \E n \in 1..zCapacity : \E s \in [0..(n - 1) -> Priorities] : Heapify(n, s)
  \/ Pop
  \/ PopFails
  \/ OnEmpty

HeapSpec == HeapInit /\ [][HeapNext]_heapVars

-----------------------------------------------------------------------------
(* Compare holds of every parent and child whenever no call is under way,  *)
(* although Heapify ignores the errors of its sifts: the out-of-bounds     *)
(* ones come only from nodes that have no child.  A failed operation       *)
(* disturbs the order no longer than until the heap is empty again.        *)
HeapOrder ==
  sift = Idle /\ ~failed => \A i \in 1..(zLength - 1) : Holds(heap, Parent(i), i)

Queue == INSTANCE PriorityQueueSpec WITH
           items <- [x \in Priorities |-> Count(heap, zLength, x)], out <- tReturn

(* Until an operation of the application fails the heap is a priority      *)
(* queue: at every point of every call the array below zLength holds its   *)
(* elements.  An Insert adds one, a Heapify whatever the array was filled  *)
(* with, a Pop hands out a greatest one and takes out just that, and the   *)
(* rounds of the loops add and lose none.                                  *)
IsPriorityQueue ==
  Queue!Init /\ [][~failed /\ ~failed' => [Queue!Next]_(Queue!vars)]_heapVars

(* Insert, Heapify and Pop rearrange the elements and lose none: whichever *)
(* operation of the application fails at whichever point of which call,    *)
(* what was accepted and not handed out is still in the array, and when    *)
(* none has failed the array holds nothing else.                           *)
NothingLost ==
  /\ due \sqsubseteq Contents(heap, zLength)
  /\ failed \/ due = Contents(heap, zLength)

(* "JUNO_STATUS_SUCCESS on success" (heap_api.h:177, and test_heap.c:597   *)
(* for every Pop of a non-empty heap), when no operation of the            *)
(* application has failed.                                                 *)
PopSucceeds ==
  [][zLength > 0 /\ ~failed' /\ last'.op = "Pop" => last'.tStatus = "SUCCESS"]_last
=============================================================================
