---------------------------- MODULE MCContainers ----------------------------
(* Instances of the containers and of the broker for TLC.                  *)
EXTENDS Containers, TLC

CONSTANTS p1, p2, p3, a, b, s, t

(* Two pipes of one message id but different element types, and one of     *)
(* another message id.                                                     *)
MCiMsgId  == (p1 :> a) @@ (p2 :> a) @@ (p3 :> b)
MCptArray == (p1 :> s) @@ (p2 :> t) @@ (p3 :> t)

Symmetry == Permutations(Keys) \cup Permutations(Values)
=============================================================================
