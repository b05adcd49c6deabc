----------------------------- MODULE JunoArray ------------------------------
(***************************************************************************)
(* The array interface every container is built on (array_api.h): a        *)
(* capacity fixed at initialisation, indices below it, and operations that *)
(* copy an item into a slot, find a slot, and reset a slot.  The library   *)
(* has no array of its own: these are the command pipe's of the example    *)
(* project, when they succeed.  What may fail is said where they are used. *)
(***************************************************************************)
EXTENDS Integers

CONSTANTS
  zCapacity,
  NoItem       \* content of a slot after Reset

ASSUME CapacityAssumption == zCapacity \in Nat \ {0}    \* JunoDs_ArrayVerify

(* The indices JunoDs_ArrayVerifyIndex accepts.                            *)
Slots == 0..(zCapacity - 1)

(* The static buffer handed to ArrayInit is zero, as Reset leaves a slot.  *)
EmptySlots == [i \in Slots |-> NoItem]

SetAt(slots, i, x) == [slots EXCEPT ![i] = x]

GetAt(slots, i) == slots[i]

(* RemoveAt.                                                               *)
ResetAt(slots, i) == [slots EXCEPT ![i] = NoItem]
=============================================================================
