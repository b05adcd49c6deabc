----------------------------- MODULE VecClient ------------------------------
(***************************************************************************)
(* A module that keeps an attitude: it multiplies quaternions onto it, one *)
(* after the other, and multiplies their reciprocals together to undo all  *)
(* of it.  Beside it, an int32 vector is multiplied over and over.         *)
(***************************************************************************)
EXTENDS JunoVec

CONSTANTS
  Rotations,    \* the quaternions it is given
  Vectors,      \* the int32 vectors it is given
  TurnBound     \* rotations in one behaviour

ASSUME VecClientAssumption ==
  /\ Rotations \subseteq RQuat_F64
  /\ Vectors \subseteq Vec3_I32

VARIABLES
  tAttitude,   \* the product of the rotations
  tUndo,       \* the product of their reciprocals, last one first
  tVec,        \* the int32 vector, or Undefined
  turns        \* history: the number of rotations

vecVars == <<tAttitude, tUndo, tVec, turns>>

One == <<1, 0, 0, 0>>

VecInit ==
  /\ tAttitude = One
  /\ tUndo = [num |-> One, den |-> 1]
  /\ tVec \in Vectors
  /\ turns = 0

Rotate(q) ==
  /\ turns < TurnBound
  /\ tAttitude' = RQuat_HamProd(tAttitude, q)
  /\ tUndo' = [num |-> RQuat_HamProd(RQuat_Recip(q).num, tUndo.num),
               den |-> RQuat_Recip(q).den * tUndo.den]
  /\ turns' = turns + 1
  /\ UNCHANGED tVec

(* Signed overflow ends what is known of the vector.                       *)
Multiply(v) ==
  /\ tVec # Undefined
  /\ \E r \in {Vec3_I32_Ops(tVec, v, v[1]).Cross, Vec3_I32_Ops(tVec, v, v[1]).Mult,
               Vec3_I32_Ops(tVec, v, v[1]).Add, Vec3_I32_Ops(tVec, v, v[1]).Sub} :
       tVec' = IF r \in Vec3_I32 THEN r ELSE Undefined
  /\ UNCHANGED <<tAttitude, tUndo, turns>>

Load(v) ==
  /\ tVec' = v
  /\ UNCHANGED <<tAttitude, tUndo, turns>>

VecNext ==
  \/ \E q \in Rotations : Rotate(q)
  \/ \E v \in Vectors : Multiply(v) \/ Load(v)

VecSpec == VecInit /\ [][VecNext]_vecVars

-----------------------------------------------------------------------------
(* A sequence of rotations is undone by the product of their reciprocals,  *)
(* and its squared norm is the product of theirs: the Hamilton product,    *)
(* the conjugate, the reciprocal and the norm agree on order and sign.     *)
RotationsUndone ==
  /\ RQuat_HamProd(tAttitude, tUndo.num) = RQuat_Mult(One, tUndo.den)
  /\ RQuat_L2Norm2(tAttitude) = tUndo.den

(* The vector part of the attitude, and the vector part alone.             *)
Im(q)   == <<q[2], q[3], q[4]>>
Pure(u) == <<0, u[1], u[2], u[3]>>

(* Dot, Cross and L2Norm2 of vectors and the Hamilton product of the       *)
(* quaternions made of them are one algebra: the product has the dot       *)
(* product for scalar and the cross product for vector part, which is      *)
(* orthogonal to both and as long as Lagrange's identity says; the plane   *)
(* is a part of space; and int32 arithmetic is exact while it is defined,  *)
(* which it is for components whose squares add up within the width.       *)
OneAlgebra ==
  LET u == Im(tAttitude) IN
  \A v \in Vectors :
    LET r == Vec3_F64_Ops(u, v, 0)
        p == Vec2_F64_Ops(u, v, 0)
        s == Vec3_F64_Ops(<<u[1], u[2], 0>>, <<v[1], v[2], 0>>, 0)
        i == Vec3_I32_Ops(tVec, v, 0)
    IN  /\ RQuat_HamProd(Pure(u), Pure(v)) = << -r.Dot, r.Cross[1], r.Cross[2], r.Cross[3] >>
        /\ Vec3_F64_Ops(u, r.Cross, 0).Dot = 0 /\ Vec3_F64_Ops(v, r.Cross, 0).Dot = 0
        /\ Vec3_F64_Ops(r.Cross, v, 0).L2Norm2 + r.Dot * r.Dot
             = r.L2Norm2 * Vec3_F64_Ops(v, v, 0).L2Norm2
        /\ p.Cross = s.Cross[3] /\ p.Dot = s.Dot /\ p.L2Norm2 = s.L2Norm2
        /\ tVec # Undefined /\ i.Dot # Undefined => i.Dot = Vec3_F64_Ops(tVec, v, 0).Dot
        /\ tVec # Undefined /\ (\A c, e \in 1..3 : 3 * tVec[c] * tVec[c] <= I32_MAX
                                                    /\ 3 * v[e] * v[e] <= I32_MAX)
             => i.Dot # Undefined /\ i.Cross \in Vec3_I32 /\ i.L2Norm2 # Undefined
=============================================================================
