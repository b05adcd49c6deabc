------------------------- MODULE PriorityQueueSpec --------------------------
(***************************************************************************)
(* What a heap promises (heap_api.h): a priority queue.  Elements come one *)
(* by one, or many at once while it is empty, equal ones as often as they  *)
(* are put in; the one taken out is among the greatest.                    *)
(***************************************************************************)
EXTENDS Integers

CONSTANT Priorities

VARIABLES
  items,     \* how many elements of each priority are in the queue
  out        \* the element taken out last

vars == <<items, out>>

Init == items = [x \in Priorities |-> 0]

Insert(x) ==
  /\ items' = [items EXCEPT ![x] = @ + 1]
  /\ UNCHANGED out

Fill ==
  /\ \A x \in Priorities : items[x] = 0
  /\ items' \in [Priorities -> Nat]
  /\ UNCHANGED out

Pop ==
  \E x \in Priorities :
    /\ items[x] > 0
    /\ \A y \in Priorities : items[y] > 0 => x >= y
    /\ out' = x
    /\ items' = [items EXCEPT ![x] = @ - 1]

Next == Fill \/ Pop \/ \E x \in Priorities : Insert(x)

Spec == Init /\ [][Next]_vars
=============================================================================
