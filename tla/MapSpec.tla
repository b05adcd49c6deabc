------------------------------ MODULE MapSpec -------------------------------
(***************************************************************************)
(* What a map of zCapacity entries promises (map_api.h): a dictionary, in  *)
(* which every call concerns the entry of one key and no other.            *)
(***************************************************************************)
EXTENDS Integers, FiniteSets, Functions

CONSTANTS Keys, Values, NoValue, zCapacity

VARIABLES
  dict,      \* the entries, a function from the keys present
  last       \* the last call: its name, key, value and status

vars == <<dict, last>>

Call(op, k, v, status) == [op |-> op, key |-> k, value |-> v, tStatus |-> status]

Has(k)  == k \in DOMAIN dict
IsFull  == Cardinality(DOMAIN dict) = zCapacity

Init ==
  /\ dict = << >>
  /\ last = Call("Init", NoValue, NoValue, "SUCCESS")

Set(k, v) ==
  /\ Has(k) \/ ~IsFull
  /\ dict' = [j \in DOMAIN dict \cup {k} |-> IF j = k THEN v ELSE dict[j]]
  /\ last' = Call("Set", k, v, "SUCCESS")

SetFull(k, v) ==
  /\ ~Has(k) /\ IsFull
  /\ last' = Call("Set", k, v, "TABLE_FULL")
  /\ UNCHANGED dict

Get(k) ==
  /\ last' = IF Has(k) THEN Call("Get", k, dict[k], "SUCCESS")
             ELSE Call("Get", k, NoValue, IF IsFull THEN "TABLE_FULL" ELSE "DNE")
  /\ UNCHANGED dict

Remove(k) ==
  /\ dict' = Restrict(dict, DOMAIN dict \ {k})
  /\ last' = Call("Remove", k, NoValue,
                  IF ~Has(k) /\ IsFull THEN "TABLE_FULL" ELSE "SUCCESS")

(* A callback of the element type failed.                                  *)
Fails(op, k, v) ==
  /\ last' = Call(op, k, v, "ERR")
  /\ UNCHANGED dict

Next ==
  \E k \in Keys :
    \/ Get(k) \/ Remove(k) \/ Fails("Get", k, NoValue) \/ Fails("Remove", k, NoValue)
    \/ \E v \in Values : Set(k, v) \/ SetFull(k, v) \/ Fails("Set", k, v)

Spec == Init /\ [][Next]_vars
=============================================================================
