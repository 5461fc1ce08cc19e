------------------------------ MODULE MCMemory ------------------------------
(* Instances of Memory for TLC. *)
EXTENDS Memory, TLC

MCMessages == 1..2
ContentSymmetry == Permutations(Contents) \cup Permutations(Facts)
=============================================================================
