-------------------------- MODULE MCAlreadyRunning --------------------------
(***************************************************************************)
(* AlreadyRunning for TLC, with the instances and files as model values.   *)
(* Instances are told apart by LowFd in some runs and by fairness in       *)
(* others, so only the files are symmetric, and only for safety.           *)
(***************************************************************************)
EXTENDS AlreadyRunning, TLC

CONSTANTS p1, p2, p3

Symmetry == Permutations(File)
=============================================================================
