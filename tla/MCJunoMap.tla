----------------------------- MODULE MCJunoMap ------------------------------
(* Instances of JunoMap for TLC.                                           *)
EXTENDS JunoMap, TLC

Symmetry == Permutations(Keys) \cup Permutations(Values)
=============================================================================
