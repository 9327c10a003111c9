------------------------------ MODULE MCHandover ------------------------------
(* Handover on a small instance.                                           *)
EXTENDS Handover, TLC

HandoverSymmetry == Permutations(Workers) \cup Permutations(Teachers)
=============================================================================
