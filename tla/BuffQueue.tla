----------------------------- MODULE BuffQueue ------------------------------
(***************************************************************************)
(* The queue of juno_buff_queue.c, over a backing array whose operations   *)
(* (SetAt, GetAt, RemoveAt, and the element's Copy) are the application's  *)
(* and may fail.                                                           *)
(***************************************************************************)
EXTENDS JunoQueue

CONSTANT Items

VARIABLES
  queue,     \* the JUNO_DS_QUEUE_ROOT_T and its backing array
  tReturn,   \* the caller's buffer for dequeued items
  last       \* history: the last call, the item it was about, its status

vars == <<queue, tReturn, last>>

Call(op, x, status) == [op |-> op, item |-> x, tStatus |-> status]

Init ==
  /\ queue = QueueInit(EmptySlots)
  /\ tReturn = NoItem
  /\ last = Call("Init", NoItem, "SUCCESS")

Enqueue(x) ==
  /\ ~Full(queue)
  /\ queue' = Push(queue, x)
  /\ last' = Call("Enqueue", x, "SUCCESS")
  /\ UNCHANGED tReturn

EnqueueFull(x) ==
  /\ Full(queue)
  /\ last' = Call("Enqueue", x, "OOB")
  /\ UNCHANGED <<queue, tReturn>>

(* SetAt fails.                                                            *)
EnqueueSetAtFails(x) ==
  /\ ~Full(queue)
  /\ last' = Call("Enqueue", x, "ERR")
  /\ UNCHANGED <<queue, tReturn>>

Dequeue ==
  /\ ~IsEmpty(queue)
  /\ queue' = Pop(queue)
  /\ tReturn' = Oldest(queue)
  /\ last' = Call("Dequeue", Oldest(queue), "SUCCESS")

DequeueEmpty ==
  /\ IsEmpty(queue)
  /\ last' = Call("Dequeue", NoItem, "OOB")
  /\ UNCHANGED <<queue, tReturn>>

(* GetAt or Copy fails: nothing has happened yet.                          *)
DequeueCopyFails ==
  /\ ~IsEmpty(queue)
  /\ last' = Call("Dequeue", NoItem, "ERR")
  /\ UNCHANGED <<queue, tReturn>>

(* Mutant: the indices move before RemoveAt's status is looked at.         *)
DequeueRemoveFailsMoved ==
  /\ ~IsEmpty(queue)
  /\ tReturn' = Oldest(queue)
  /\ queue' = PopKeepsSlot(queue)
  /\ last' = Call("Dequeue", NoItem, "ERR")

(* RemoveAt fails: the caller has its copy, the queue still has the item.  *)
DequeueRemoveFails ==
  /\ ~IsEmpty(queue)
  /\ tReturn' = Oldest(queue)
  /\ last' = Call("Dequeue", NoItem, "ERR")
  /\ UNCHANGED queue

Peek ==
  /\ last' \in IF IsEmpty(queue)
                 THEN {Call("Peek", NoItem, "OOB")}
                 ELSE {Call("Peek", Oldest(queue), "SUCCESS"), Call("Peek", NoItem, "ERR")}
  /\ UNCHANGED <<queue, tReturn>>

Next ==
  \/ \E x \in Items : Enqueue(x) \/ EnqueueFull(x) \/ EnqueueSetAtFails(x)
  \/ Dequeue
  \/ DequeueEmpty
  \/ DequeueCopyFails
  \/ DequeueRemoveFails
  \/ Peek

Spec == Init /\ [][Next]_vars

-----------------------------------------------------------------------------
(* The fields' types; the bounds are the header's invariants (37-39).      *)
TypeOK ==
  /\ queue \in [iStartIndex : Slots, zLength : 0..zCapacity, slots : [Slots -> Items \cup {NoItem}]]
  /\ tReturn \in Items \cup {NoItem}

(* A slot that holds no queued item holds nothing at all: what has been    *)
(* dequeued leaves no copy behind in the array.                            *)
NoStaleItems ==
  \A i \in Slots : queue.slots[i] # NoItem =>
    \E k \in 1..queue.zLength : i = SlotOf(queue, k)

Fifo == INSTANCE FifoSpec WITH fifo <- Contents(queue)

(* Whatever wraps around and whatever fails, the buffer is a FIFO queue:   *)
(* items come out once, in order, and a refused call loses nothing.  The   *)
(* status of a full or empty queue is OOB, as juno_buff_queue.c:42, 72 and *)
(* 87 have it and the tests assert; queue_api.h:43-45 and REQ-QUEUE-004,   *)
(* 006 and 008 say INVALID_SIZE, ERR and INVALID_SIZE.                     *)
ImplementsFifo == Fifo!Spec
=============================================================================
