----------------------------- MODULE JunoQueue ------------------------------
(***************************************************************************)
(* The circular buffer of juno_buff_queue.c as a value: operators on a     *)
(* record with the fields of JUNO_DS_QUEUE_ROOT_T.  A pipe of the software *)
(* bus derives from it, so the queue and the broker share these.           *)
(***************************************************************************)
EXTENDS JunoArray, Sequences

(* The slots keep what they hold: Init only resets the indices.            *)
QueueInit(slots) == [iStartIndex |-> 0, zLength |-> 0, slots |-> slots]

(* Mutant: the test for a full queue lets one item too many in.            *)
FullOffByOne(q) == q.zLength > zCapacity

Full(q)    == q.zLength >= zCapacity
IsEmpty(q) == q.zLength = 0

Back(q)  == (q.iStartIndex + q.zLength) % zCapacity
Oldest(q) == GetAt(q.slots, q.iStartIndex)

(* Mutant: the new item goes one slot past the back.                       *)
PushPastBack(q, x) ==
  [iStartIndex |-> q.iStartIndex,
   zLength     |-> q.zLength + 1,
   slots       |-> SetAt(q.slots, (Back(q) + 1) % zCapacity, x)]

Push(q, x) ==
  [iStartIndex |-> q.iStartIndex,
   zLength     |-> q.zLength + 1,
   slots       |-> SetAt(q.slots, Back(q), x)]

(* Mutant: the slot of the item is not removed.                            *)
PopKeepsSlot(q) ==
  [q EXCEPT !.iStartIndex = (@ + 1) % zCapacity, !.zLength = @ - 1]

Pop(q) ==
  [iStartIndex |-> (q.iStartIndex + 1) % zCapacity,
   zLength     |-> q.zLength - 1,
   slots       |-> ResetAt(q.slots, q.iStartIndex)]

(* The slot of the k-th oldest item, and the items, oldest first.          *)
SlotOf(q, k) == (q.iStartIndex + k - 1) % zCapacity
Contents(q)  == [k \in 1..q.zLength |-> GetAt(q.slots, SlotOf(q, k))]
=============================================================================
