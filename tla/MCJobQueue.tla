----------------------------- MODULE MCJobQueue -----------------------------
(* Instances of JobQueue for TLC.  The cfg files name at most one job of   *)
(* each family; every job has two attempts, enough for a retry after a     *)
(* failure and for the last attempt to be used up (the code gives 3 to a   *)
(* sync and 5 to the others).                                              *)
EXTENDS JobQueue, TLC

MCMaxAttempts == [j \in Jobs |-> 2]

WorkerSymmetry == Permutations(Workers)
=============================================================================
