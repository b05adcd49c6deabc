------------------------------- MODULE JunoMap ------------------------------
(***************************************************************************)
(* The hash map of juno_map.c: open addressing with linear probing over an *)
(* array of entries.  The hash function is the application's: the initial  *)
(* state picks any.                                                        *)
(***************************************************************************)
EXTENDS Integers, FiniteSetsExt, Functions

CONSTANTS
  Keys, Values, NoValue,
  zCapacity,   \* slots of the backing array: not 0
  SIZE_MAX,    \* of size_t, the type of hashes and indices
  Hashes       \* what the application's hash function may return: of 0..SIZE_MAX

VARIABLES
  hash,      \* hash[k]: the application's Hash of key k
  slots,     \* the table; IsValueNull holds of the slots that are Empty
  holed,     \* history: a Remove has cut the probe chain of another entry
  last       \* history: the last call, its key, value and status

vars == <<hash, slots, holed, last>>

Slots == 0..(zCapacity - 1)
Empty == [key |-> NoValue, value |-> NoValue]
Call(op, k, v, status) == [op |-> op, key |-> k, value |-> v, tStatus |-> status]

(* The table starts logically empty; JunoDs_MapInit does not touch it.     *)
Init ==
  /\ hash \in [Keys -> Hashes]
  /\ slots = [i \in Slots |-> Empty]
  /\ holed = FALSE
  /\ last = Call("Init", NoValue, NoValue, "SUCCESS")

-----------------------------------------------------------------------------
(* The i-th slot of key k's probe sequence; the sum wraps like a size_t.   *)
Probe(k, i) == ((hash[k] + i) % (SIZE_MAX + 1)) % zCapacity

(* Mutant: the probe sequence ends at the end of the array.                *)
StopsNoWrap(k) ==
  { i \in 0..(zCapacity - 1 - Probe(k, 0)) : slots[Probe(k, i)].key \in {k, NoValue} }

(* Where probing for k stops: at an empty slot or at one that equals k.    *)
Stops(k) == { i \in Slots : slots[Probe(k, i)].key \in {k, NoValue} }

Traversed(k) == Stops(k) = {}     \* the whole table, without finding either

Found(k)   == Probe(k, Min(Stops(k)))
Present(k) == ~Traversed(k) /\ slots[Found(k)].key = k

(* The slots probed on the way to the entry of k, that one included.       *)
Chain(k) == { Probe(k, i) : i \in 0..Min(Stops(k)) }

(* Mutant: probing starts one slot past the home slot.                     *)
SetSkipsHome(k, v) ==
  /\ Stops(k) \ {0} # {}
  /\ slots' = [slots EXCEPT ![Probe(k, Min(Stops(k) \ {0}))] = [key |-> k, value |-> v]]
  /\ last' = Call("Set", k, v, "SUCCESS")
  /\ UNCHANGED <<hash, holed>>

(* Into the first stop: the first empty slot, or over the entry of k.      *)
Set(k, v) ==
  /\ ~Traversed(k)
  /\ slots' = [slots EXCEPT ![Found(k)] = [key |-> k, value |-> v]]
  /\ last' = Call("Set", k, v, "SUCCESS")
  /\ UNCHANGED <<hash, holed>>

SetFull(k, v) ==
  /\ Traversed(k)
  /\ last' = Call("Set", k, v, "TABLE_FULL")
  /\ UNCHANGED <<hash, slots, holed>>

Get(k) ==
  /\ last' = IF Traversed(k) THEN Call("Get", k, NoValue, "TABLE_FULL")
             ELSE IF ~Present(k) THEN Call("Get", k, NoValue, "DNE")
             ELSE Call("Get", k, slots[Found(k)].value, "SUCCESS")
  /\ UNCHANGED <<hash, slots, holed>>

(* RemoveAt resets the slot, and leaves no mark that it was in use.        *)
Remove(k) ==
  /\ slots' = IF Present(k) THEN [slots EXCEPT ![Found(k)] = Empty] ELSE slots
  /\ holed' = (holed \/ \E j \in Keys \ {k} : Present(k) /\ Present(j) /\ Found(k) \in Chain(j))
  /\ last' = Call("Remove", k, NoValue, IF Traversed(k) THEN "TABLE_FULL" ELSE "SUCCESS")
  /\ UNCHANGED hash

(* Hash, IsValueNull, Equals, Copy or an array operation fails.            *)
Fails(op, k, v) ==
  /\ last' = Call(op, k, v, "ERR")
  /\ UNCHANGED <<hash, slots, holed>>

Next ==
  \E k \in Keys :
    \/ Get(k) \/ Fails("Get", k, NoValue)
    \/ \E v \in Values : Set(k, v) \/ SetFull(k, v) \/ Fails("Set", k, v)
    \/ Remove(k) \/ Fails("Remove", k, NoValue)

Spec == Init /\ [][Next]_vars

-----------------------------------------------------------------------------
(* A slot is empty or holds a key together with a value.                   *)
TypeOK ==
  /\ hash \in [Keys -> Hashes]
  /\ slots \in [Slots -> [key : Keys, value : Values] \cup {Empty}]
  /\ holed \in BOOLEAN

(* "The map shall retrieve an entry by key using linear probing"           *)
(* (REQ-MAP-006): probing for the key of an entry finds that entry.        *)
Retrievable ==
  \A i \in Slots : slots[i] # Empty => Present(slots[i].key) /\ Found(slots[i].key) = i

(* What Get would answer, key by key, is a dictionary.                     *)
Dict == INSTANCE MapSpec WITH
          dict <- [k \in { k \in Keys : Present(k) } |-> slots[Found(k)].value]

(* No index of a probe sequence passes SIZE_MAX, or passing it is harmless *)
(* because the capacity divides 2^w.                                       *)
ProbesEverySlot ==
  (SIZE_MAX + 1) % zCapacity = 0 \/ \A k \in Keys : hash[k] + zCapacity - 1 <= SIZE_MAX

(* Up to the first Remove that cuts the chain of another entry, every call *)
(* is a call of the dictionary: Get, Set and Remove of one key disturb no  *)
(* other, whatever collides, and TABLE_FULL is answered only when every    *)
(* slot is taken by another key.                                           *)
MapUntilHoled == [][ProbesEverySlot /\ ~holed' => Dict!Next]_vars

(* Even with holes in the chains and with hashes that wrap, an entry just  *)
(* set is found by a Get.                                                  *)
SetIsVisible ==
  [][\A k \in Keys, v \in Values :
       last' = Call("Set", k, v, "SUCCESS") =>
         Present(k)' /\ (slots[Found(k)].value = v)']_vars
=============================================================================
