------------------------------ MODULE CppBuff -------------------------------
(***************************************************************************)
(* The C++ queue and stack of juno_buff.hpp: templates over the element    *)
(* type and the capacity, whose elements are copied by assignment, which   *)
(* cannot fail.  Neither clears the slot of an item it hands out.          *)
(***************************************************************************)
EXTENDS JunoQueue

CONSTANT Items

VARIABLES
  cppQueue,   \* QUEUE_ROOT_T, the last value dequeued, the last call
  cppStack    \* STACK_ROOT_T, the last value popped, the last call, and
              \* history: the slot StackPeek last pointed to

CppCall(op, x, status) == [op |-> op, item |-> x, tStatus |-> status]

CppInit ==
  /\ cppQueue = [tRoot |-> QueueInit(EmptySlots), tReturn |-> NoItem,
                 last |-> CppCall("Init", NoItem, "SUCCESS")]
  /\ cppStack = [zLength |-> 0, tArr |-> EmptySlots, tReturn |-> NoItem,
                 last |-> CppCall("Init", NoItem, "SUCCESS"), peeked |-> 0]

-----------------------------------------------------------------------------
CppEnqueue(x) ==
  cppQueue' = IF cppQueue.tRoot.zLength < zCapacity
                THEN [cppQueue EXCEPT !.tRoot = Push(@, x),
                                      !.last = CppCall("Enqueue", x, "SUCCESS")]
                ELSE [cppQueue EXCEPT !.last = CppCall("Enqueue", x, "INVALID_SIZE")]

(* Mutant: the length stays, the oldest item is handed out again.          *)
AdvancedNot(q) == [q EXCEPT !.zLength = @ - 1]

Advanced(q) == [q EXCEPT !.iStartIndex = (@ + 1) % zCapacity, !.zLength = @ - 1]

CppDequeue ==
  cppQueue' = IF cppQueue.tRoot.zLength > 0
                THEN [cppQueue EXCEPT !.tRoot = Advanced(@), !.tReturn = Oldest(cppQueue.tRoot),
                        !.last = CppCall("Dequeue", Oldest(cppQueue.tRoot), "SUCCESS")]
                ELSE [cppQueue EXCEPT !.last = CppCall("Dequeue", NoItem, "ERR")]

CppQueuePeek ==
  cppQueue' = [cppQueue EXCEPT !.last =
                 IF cppQueue.tRoot.zLength > 0
                   THEN CppCall("Peek", Oldest(cppQueue.tRoot), "SUCCESS")
                   ELSE CppCall("Peek", NoItem, "ERR")]

CppQueueNext == (\E x \in Items : CppEnqueue(x)) \/ CppDequeue \/ CppQueuePeek

-----------------------------------------------------------------------------
CppPush(x) ==
  cppStack' = IF cppStack.zLength < zCapacity
                THEN [cppStack EXCEPT !.tArr[cppStack.zLength] = x, !.zLength = @ + 1,
                                      !.last = CppCall("Push", x, "SUCCESS")]
                ELSE [cppStack EXCEPT !.last = CppCall("Push", x, "INVALID_SIZE")]

CppPop ==
  cppStack' = IF cppStack.zLength > 0
                THEN LET top == cppStack.tArr[cppStack.zLength - 1] IN
                     [cppStack EXCEPT !.zLength = @ - 1, !.tReturn = top,
                                      !.last = CppCall("Pop", top, "SUCCESS")]
                ELSE [cppStack EXCEPT !.last = CppCall("Pop", NoItem, "ERR")]

(* Points to slot zLength.                                                 *)
CppStackPeek ==
  /\ cppStack.zLength > 0
  /\ cppStack' = [cppStack EXCEPT !.peeked = cppStack.zLength]

CppStackPeekEmpty ==
  /\ cppStack.zLength = 0
  /\ cppStack' = cppStack

CppStackNext == (\E x \in Items : CppPush(x)) \/ CppPop \/ CppStackPeek \/ CppStackPeekEmpty

CppSpec ==
  /\ CppInit
  /\ [][\/ CppQueueNext /\ UNCHANGED cppStack
        \/ CppStackNext /\ UNCHANGED cppQueue]_<<cppQueue, cppStack>>

-----------------------------------------------------------------------------
(* A refusal is an error of its own here, INVALID_SIZE or ERR.             *)
AsOob(call) == IF call.tStatus = "SUCCESS" THEN call ELSE [call EXCEPT !.tStatus = "OOB"]

CppFifo == INSTANCE FifoSpec WITH
  fifo <- Contents(cppQueue.tRoot), tReturn <- cppQueue.tReturn, last <- AsOob(cppQueue.last)

CppLifo == INSTANCE LifoSpec WITH
  lifo <- SubSeq([k \in 1..zCapacity |-> cppStack.tArr[k - 1]], 1, cppStack.zLength),
  tReturn <- cppStack.tReturn, last <- AsOob(cppStack.last)

(* The C++ containers keep the promises of the C ones, StackPeek left out. *)
CppImplements == CppFifo!Spec /\ CppLifo!Spec

(* "Peek into data on the stack buffer" (buff_api.hpp): what a successful  *)
(* StackPeek points to is an item of the stack.                            *)
PeekPointsToItem ==
  [][cppStack'.peeked # cppStack.peeked => cppStack'.peeked < cppStack.zLength]_cppStack
=============================================================================
