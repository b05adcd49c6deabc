----------------------------- MODULE Containers -----------------------------
(***************************************************************************)
(* The containers, and the broker whose pipes are queues.  They share      *)
(* nothing: a behaviour is one of them, and the others stay where they     *)
(* began, so that the states add up instead of multiplying.                *)
(***************************************************************************)
EXTENDS BuffQueue

CONSTANTS
  Keys, Values, NoValue, SIZE_MAX, Hashes, zMapCapacity,                  \* JunoMap
  Pipes, Mids, iMsgId, Types, ptArray, zRegistryCapacity, MaxMsgs         \* Broker

(* NoValue is what IsValueNull tells from an entry.                        *)
ASSUME ContainersAssumption ==
  /\ SIZE_MAX \in Nat
  /\ Hashes \subseteq 0..SIZE_MAX
  /\ zMapCapacity \in Nat \ {0}
  /\ NoValue \notin Keys

VARIABLES
  which,                                       \* the container in use
  zStack, stackSlots, stackReturn, stackLast,
  hash, mapSlots, holed, mapLast,
  cppQueue, cppStack,
  registry, pipe, sent, due, lastPublish

stackVars == <<zStack, stackSlots, stackReturn, stackLast>>
mapVars   == <<hash, mapSlots, holed, mapLast>>
cppVars   == <<cppQueue, cppStack>>
busVars   == <<registry, pipe, sent, due, lastPublish>>

Stack == INSTANCE BuffStack WITH
  zLength <- zStack, slots <- stackSlots, tReturn <- stackReturn, last <- stackLast
Map == INSTANCE JunoMap WITH zCapacity <- zMapCapacity, slots <- mapSlots, last <- mapLast
Cpp == INSTANCE CppBuff

Bus == INSTANCE Broker WITH last <- lastPublish

ASSUME PipesAssumption == Bus!BrokerAssumption

ContainersInit ==
  /\ Init /\ Stack!Init /\ Map!Init /\ Cpp!CppInit /\ Bus!Init
  /\ which \in {"queue", "stack", "map", "cppQueue", "cppStack", "broker"}
  /\ which # "map" => \A k, l \in Keys : hash[k] = 0 /\ hash[l] = 0

QueueStep ==
  which = "queue" /\ Next /\ UNCHANGED <<which, stackVars, mapVars, cppVars, busVars>>
StackStep ==
  which = "stack" /\ Stack!Next /\ UNCHANGED <<which, vars, mapVars, cppVars, busVars>>
MapStep ==
  which = "map" /\ Map!Next /\ UNCHANGED <<which, vars, stackVars, cppVars, busVars>>
CppQueueStep ==
  /\ which = "cppQueue"
  /\ Cpp!CppQueueNext
  /\ UNCHANGED <<which, vars, stackVars, mapVars, cppStack, busVars>>
CppStackStep ==
  /\ which = "cppStack"
  /\ Cpp!CppStackNext
  /\ UNCHANGED <<which, vars, stackVars, mapVars, cppQueue, busVars>>
BrokerStep ==
  which = "broker" /\ Bus!Next /\ UNCHANGED <<which, vars, stackVars, mapVars, cppVars>>

ContainersSpec ==
  /\ ContainersInit
  /\ [][\/ QueueStep \/ StackStep \/ MapStep \/ CppQueueStep \/ CppStackStep \/ BrokerStep
       ]_<<which, vars, stackVars, mapVars, cppVars, busVars>>

(* The properties of the containers that are not extended here; they are   *)
(* stated and explained in the modules of the containers.                  *)

(* The stack of juno_buff_stack.c is a LIFO stack (BuffStack).             *)
ImplementsLifo == Stack!ImplementsLifo

(* The C++ queue and stack are a FIFO queue and a LIFO stack (CppBuff).    *)
CppImplements == Cpp!CppImplements

(* The map of juno_map.c is a dictionary until a Remove cuts the chain of  *)
(* another entry (JunoMap).                                                *)
MapUntilHoled == Map!MapUntilHoled

(* An entry just set is found, even with holes in the chains (JunoMap).    *)
SetIsVisible == Map!SetIsVisible

(* Start index and length of the queue and length of the stack stay within *)
(* their arrays, the slots of the map hold entries or nothing, and the     *)
(* registry and the pipes of the broker never pass their capacity.         *)
TypesOK == TypeOK /\ Stack!TypeOK /\ Map!TypeOK /\ Bus!TypeOK

(* A pipe holds what was enqueued for it, in order (Broker).               *)
PipeHoldsDue == Bus!PipeHoldsDue

(* A Publish serves a prefix of the registry (Broker).                     *)
PrefixFanOut == Bus!PrefixFanOut
=============================================================================
