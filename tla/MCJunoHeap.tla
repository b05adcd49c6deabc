---------------------------- MODULE MCJunoHeap -----------------------------
(* Instances of JunoHeap for TLC.                                          *)
EXTENDS JunoHeap
=============================================================================
