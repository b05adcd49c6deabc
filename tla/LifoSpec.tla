------------------------------ MODULE LifoSpec ------------------------------
(***************************************************************************)
(* What the stack of juno_buff_stack.c promises: last in, first out, each  *)
(* item handed out at most once.  It is weaker than FifoSpec: a Pop that   *)
(* fails may cost the item on top (PopFails).  The status of a refusal is  *)
(* the one of the code and its tests, OOB; the header has another          *)
(* (see ImplementsLifo of BuffStack).                                      *)
(***************************************************************************)
EXTENDS Integers, SequencesExt

CONSTANTS Items, NoItem, zCapacity

VARIABLES
  lifo,      \* the items pushed and not yet popped, the newest last
  tReturn,   \* the caller's buffer for popped items
  last       \* the last call: its name, the item it was about, its status

vars == <<lifo, tReturn, last>>

Call(op, x, status) == [op |-> op, item |-> x, tStatus |-> status]

Init ==
  /\ lifo = << >>
  /\ tReturn = NoItem
  /\ last = Call("Init", NoItem, "SUCCESS")

Push(x) ==
  /\ Len(lifo) < zCapacity
  /\ lifo' = Append(lifo, x)
  /\ last' = Call("Push", x, "SUCCESS")
  /\ UNCHANGED tReturn

PushFails(x) ==
  /\ \/ Len(lifo) = zCapacity /\ last' = Call("Push", x, "OOB")
     \/ Len(lifo) < zCapacity /\ last' = Call("Push", x, "ERR")
  /\ UNCHANGED <<lifo, tReturn>>

Pop ==
  /\ lifo # << >>
  /\ lifo' = Front(lifo)
  /\ tReturn' = Last(lifo)
  /\ last' = Call("Pop", Last(lifo), "SUCCESS")

PopFails ==
  /\ \/ lifo = << >> /\ last' = Call("Pop", NoItem, "OOB") /\ UNCHANGED lifo
     \/ lifo # << >> /\ last' = Call("Pop", NoItem, "ERR") /\ lifo' = Front(lifo)
  /\ UNCHANGED tReturn

Peek ==
  /\ last' \in IF lifo = << >>
                 THEN {Call("Peek", NoItem, "OOB")}
                 ELSE {Call("Peek", Last(lifo), "SUCCESS"), Call("Peek", NoItem, "ERR")}
  /\ UNCHANGED <<lifo, tReturn>>

Next ==
  \/ \E x \in Items : Push(x) \/ PushFails(x)
  \/ Pop
  \/ PopFails
  \/ Peek

Spec == Init /\ [][Next]_vars
=============================================================================
