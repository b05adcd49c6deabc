----------------------------- MODULE BuffStack ------------------------------
(***************************************************************************)
(* The stack of juno_buff_stack.c, over a backing array whose operations   *)
(* (SetAt, GetAt, and the element's Copy) may fail.                        *)
(***************************************************************************)
EXTENDS JunoArray, Sequences

CONSTANT Items

VARIABLES
  zLength,   \* number of items
  slots,     \* the backing array
  tReturn,   \* the caller's buffer for popped items
  last       \* history: the last call, the item it was about, its status

vars == <<zLength, slots, tReturn, last>>

Call(op, x, status) == [op |-> op, item |-> x, tStatus |-> status]

Init ==
  /\ zLength = 0
  /\ slots = EmptySlots
  /\ tReturn = NoItem
  /\ last = Call("Init", NoItem, "SUCCESS")

Push(x) ==
  /\ zLength < zCapacity
  /\ slots' = SetAt(slots, zLength, x)
  /\ zLength' = zLength + 1
  /\ last' = Call("Push", x, "SUCCESS")
  /\ UNCHANGED tReturn

(* Full, or SetAt fails.                                                   *)
PushFails(x) ==
  /\ last' = Call("Push", x, IF zLength < zCapacity THEN "ERR" ELSE "OOB")
  /\ UNCHANGED <<zLength, slots, tReturn>>

(* Mutant: the item is read before zLength is lowered.                     *)
PopAboveTop ==
  /\ zLength > 0
  /\ zLength' = zLength - 1
  /\ tReturn' = GetAt(slots, zLength % zCapacity)
  /\ last' = Call("Pop", tReturn', "SUCCESS")
  /\ UNCHANGED slots

(* The slot keeps its content.                                             *)
Pop ==
  /\ zLength > 0
  /\ zLength' = zLength - 1
  /\ tReturn' = GetAt(slots, zLength - 1)
  /\ last' = Call("Pop", tReturn', "SUCCESS")
  /\ UNCHANGED slots

PopEmpty ==
  /\ zLength = 0
  /\ last' = Call("Pop", NoItem, "OOB")
  /\ UNCHANGED <<zLength, slots, tReturn>>

(* GetAt or Copy fails, after zLength was lowered.                         *)
PopCopyFails ==
  /\ zLength > 0
  /\ zLength' = zLength - 1
  /\ last' = Call("Pop", NoItem, "ERR")
  /\ UNCHANGED <<slots, tReturn>>

Peek ==
  /\ last' \in IF zLength = 0
                 THEN {Call("Peek", NoItem, "OOB")}
                 ELSE {Call("Peek", GetAt(slots, zLength - 1), "SUCCESS"), Call("Peek", NoItem, "ERR")}
  /\ UNCHANGED <<zLength, slots, tReturn>>

Next ==
  \/ \E x \in Items : Push(x) \/ PushFails(x)
  \/ Pop
  \/ PopEmpty
  \/ PopCopyFails
  \/ Peek

Spec == Init /\ [][Next]_vars

-----------------------------------------------------------------------------
(* "0 <= zLength <= ptStackArray->zCapacity" (stack_api.h:36), and types.  *)
TypeOK ==
  /\ zLength \in 0..zCapacity
  /\ slots \in [Slots -> Items \cup {NoItem}]
  /\ tReturn \in Items \cup {NoItem}

Lifo == INSTANCE LifoSpec WITH lifo <- SubSeq([k \in 1..zCapacity |-> slots[k - 1]], 1, zLength)

(* Items come out newest first and once each, though Pop never clears a    *)
(* slot: what a popped slot still holds is never handed out again.  The    *)
(* status of a full or empty stack is OOB, as juno_buff_stack.c:43, 69 and *)
(* 85 have it and the tests assert; stack_api.h:41-43 and REQ-STACK-004,   *)
(* 006 and 008 say INVALID_SIZE.                                           *)
ImplementsLifo == Lifo!Spec
=============================================================================
