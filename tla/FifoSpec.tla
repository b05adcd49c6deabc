------------------------------ MODULE FifoSpec ------------------------------
(***************************************************************************)
(* What a queue of capacity zCapacity promises (queue_api.h, "Fixed-       *)
(* capacity FIFO queue"): a sequence, appended to at one end and consumed  *)
(* at the other, that a failed call leaves as it was.  The status of a     *)
(* refusal is the one of the code and its tests, OOB; the header has       *)
(* others (see ImplementsFifo of BuffQueue).                               *)
(***************************************************************************)
EXTENDS Integers, Sequences

CONSTANTS Items, NoItem, zCapacity

VARIABLES
  fifo,      \* the items enqueued and not yet dequeued, oldest first
  tReturn,   \* the caller's buffer for dequeued items
  last       \* the last call: its name, the item it was about, its status

vars == <<fifo, tReturn, last>>

Call(op, x, status) == [op |-> op, item |-> x, tStatus |-> status]

Init ==
  /\ fifo = << >>
  /\ tReturn = NoItem
  /\ last = Call("Init", NoItem, "SUCCESS")

Enqueue(x) ==
  /\ Len(fifo) < zCapacity
  /\ fifo' = Append(fifo, x)
  /\ last' = Call("Enqueue", x, "SUCCESS")
  /\ UNCHANGED tReturn

(* OOB means full; ERR means that the element type's operations failed.    *)
EnqueueFails(x) ==
  /\ \/ Len(fifo) = zCapacity /\ last' = Call("Enqueue", x, "OOB")
     \/ Len(fifo) < zCapacity /\ last' = Call("Enqueue", x, "ERR")
  /\ UNCHANGED <<fifo, tReturn>>

Dequeue ==
  /\ fifo # << >>
  /\ fifo' = Tail(fifo)
  /\ tReturn' = Head(fifo)
  /\ last' = Call("Dequeue", Head(fifo), "SUCCESS")

(* A failed Dequeue removes nothing, though the caller's buffer may        *)
(* already hold the item.                                                  *)
DequeueFails ==
  /\ \/ fifo = << >> /\ last' = Call("Dequeue", NoItem, "OOB") /\ UNCHANGED tReturn
     \/ /\ fifo # << >>
        /\ last' = Call("Dequeue", NoItem, "ERR")
        /\ tReturn' \in {tReturn, Head(fifo)}
  /\ UNCHANGED fifo

Peek ==
  /\ last' \in IF fifo = << >>
                 THEN {Call("Peek", NoItem, "OOB")}
                 ELSE {Call("Peek", Head(fifo), "SUCCESS"), Call("Peek", NoItem, "ERR")}
  /\ UNCHANGED <<fifo, tReturn>>

Next ==
  \/ \E x \in Items : Enqueue(x) \/ EnqueueFails(x)
  \/ Dequeue
  \/ DequeueFails
  \/ Peek

Spec == Init /\ [][Next]_vars
=============================================================================
