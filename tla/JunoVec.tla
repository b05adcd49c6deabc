------------------------------ MODULE JunoVec -------------------------------
(***************************************************************************)
(* Vectors and quaternions of juno_vec.h.  The union types name the same   *)
(* components by field and by index; here a vector is its array, from 1.   *)
(* Doubles and floats are exact numbers (rounding is left out, so integer  *)
(* components stand for all of them); an int32 component has a width, and  *)
(* an operation one of whose partial results leaves it is undefined.       *)
(* For each type, the record of what its operations make of two vectors    *)
(* and a scalar.                                                           *)
(***************************************************************************)
EXTENDS Integers

CONSTANTS I32_MAX, Undefined

ASSUME VecAssumption == I32_MAX \in Nat /\ Undefined \notin Int

I32 == (-I32_MAX - 1)..I32_MAX

Vec2_F64 == [1..2 -> Int]
Vec2_F32 == [1..2 -> Int]
Vec2_I32 == [1..2 -> I32]
Vec3_F64 == [1..3 -> Int]
Vec3_F32 == [1..3 -> Int]
Vec3_I32 == [1..3 -> I32]
RQuat_F64 == [1..4 -> Int]

-----------------------------------------------------------------------------
Vec2_F64_Ops(u, v, d) ==
  [Add     |-> << u[1] + v[1], u[2] + v[2] >>,
   Sub     |-> << u[1] - v[1], u[2] - v[2] >>,
   Mult    |-> << u[1] * d, u[2] * d >>,
   Dot     |-> u[1] * v[1] + u[2] * v[2],
   Cross   |-> u[1] * v[2] - u[2] * v[1],
   L2Norm2 |-> u[1] * u[1] + u[2] * u[2]]

(* Mutant: the second component of Cross has its terms the wrong way round. *)
Vec3_F64_OpsSwapped(u, v, d) ==
  [Add     |-> << u[1] + v[1], u[2] + v[2], u[3] + v[3] >>,
   Sub     |-> << u[1] - v[1], u[2] - v[2], u[3] - v[3] >>,
   Mult    |-> << u[1] * d, u[2] * d, u[3] * d >>,
   Dot     |-> u[1] * v[1] + u[2] * v[2] + u[3] * v[3],
   Cross   |-> << u[2] * v[3] - u[3] * v[2],
                  u[1] * v[3] - u[3] * v[1],
                  u[1] * v[2] - u[2] * v[1] >>,
   L2Norm2 |-> u[1] * u[1] + u[2] * u[2] + u[3] * u[3]]

Vec3_F64_Ops(u, v, d) ==
  [Add     |-> << u[1] + v[1], u[2] + v[2], u[3] + v[3] >>,
   Sub     |-> << u[1] - v[1], u[2] - v[2], u[3] - v[3] >>,
   Mult    |-> << u[1] * d, u[2] * d, u[3] * d >>,
   Dot     |-> u[1] * v[1] + u[2] * v[2] + u[3] * v[3],
   Cross   |-> << u[2] * v[3] - u[3] * v[2],
                  u[3] * v[1] - u[1] * v[3],
                  u[1] * v[2] - u[2] * v[1] >>,
   L2Norm2 |-> u[1] * u[1] + u[2] * u[2] + u[3] * u[3]]

(* The same expressions in single precision.                               *)
Vec2_F32_Ops(u, v, d) == Vec2_F64_Ops(u, v, d)
Vec3_F32_Ops(u, v, d) == Vec3_F64_Ops(u, v, d)

(* Results of int32 arithmetic: undefined as soon as an operation leaves   *)
(* the width.                                                              *)
Plus(a, b)  == IF Undefined \in {a, b} \/ a + b \notin I32 THEN Undefined ELSE a + b
Minus(a, b) == IF Undefined \in {a, b} \/ a - b \notin I32 THEN Undefined ELSE a - b
Times(a, b) == IF a * b \notin I32 THEN Undefined ELSE a * b

Vec2_I32_Ops(u, v, d) ==
  [Add     |-> << Plus(u[1], v[1]), Plus(u[2], v[2]) >>,
   Sub     |-> << Minus(u[1], v[1]), Minus(u[2], v[2]) >>,
   Mult    |-> << Times(u[1], d), Times(u[2], d) >>,
   Dot     |-> Plus(Times(u[1], v[1]), Times(u[2], v[2])),
   Cross   |-> Minus(Times(u[1], v[2]), Times(u[2], v[1])),
   L2Norm2 |-> Plus(Times(u[1], u[1]), Times(u[2], u[2]))]

Vec3_I32_Ops(u, v, d) ==
  [Add     |-> [c \in 1..3 |-> Plus(u[c], v[c])],
   Sub     |-> [c \in 1..3 |-> Minus(u[c], v[c])],
   Mult    |-> [c \in 1..3 |-> Times(u[c], d)],
   Dot     |-> Plus(Plus(Times(u[1], v[1]), Times(u[2], v[2])), Times(u[3], v[3])),
   Cross   |-> << Minus(Times(u[2], v[3]), Times(u[3], v[2])),
                  Minus(Times(u[3], v[1]), Times(u[1], v[3])),
                  Minus(Times(u[1], v[2]), Times(u[2], v[1])) >>,
   L2Norm2 |-> Plus(Plus(Times(u[1], u[1]), Times(u[2], u[2])), Times(u[3], u[3]))]

-----------------------------------------------------------------------------
(* Quaternions [s, i, j, k].                                               *)
RQuat_Add(p, q)  == << p[1] + q[1], p[2] + q[2], p[3] + q[3], p[4] + q[4] >>
RQuat_Sub(p, q)  == << p[1] - q[1], p[2] - q[2], p[3] - q[3], p[4] - q[4] >>
RQuat_Mult(q, d) == << q[1] * d, q[2] * d, q[3] * d, q[4] * d >>

(* Mutant: the left-handed product.                                        *)
RQuat_HamProdLeft(p, q) ==
  << p[1] * q[1] - p[2] * q[2] - p[3] * q[3] - p[4] * q[4],
     p[1] * q[2] + p[2] * q[1] + p[3] * q[4] - p[4] * q[3],
     p[1] * q[3] + p[2] * q[4] + p[3] * q[1] - p[4] * q[2],
     p[1] * q[4] + p[2] * q[3] - p[3] * q[2] + p[4] * q[1] >>

RQuat_HamProd(p, q) ==
  << p[1] * q[1] - p[2] * q[2] - p[3] * q[3] - p[4] * q[4],
     p[1] * q[2] + p[2] * q[1] + p[3] * q[4] - p[4] * q[3],
     p[1] * q[3] - p[2] * q[4] + p[3] * q[1] + p[4] * q[2],
     p[1] * q[4] + p[2] * q[3] - p[3] * q[2] + p[4] * q[1] >>

(* Mutant: the last component keeps its sign.                              *)
RQuat_ConjPartial(q) == << q[1], -q[2], -q[3], q[4] >>

RQuat_Conj(q)    == << q[1], -q[2], -q[3], -q[4] >>
RQuat_L2Norm2(q) == q[1] * q[1] + q[2] * q[2] + q[3] * q[3] + q[4] * q[4]

(* The reciprocal is a fraction: its numerator and its denominator.        *)
RQuat_Recip(q) == [num |-> RQuat_Conj(q), den |-> RQuat_L2Norm2(q)]
=============================================================================
