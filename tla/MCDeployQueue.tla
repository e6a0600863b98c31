---------------------------- MODULE MCDeployQueue ----------------------------
(***************************************************************************)
(* Instances of DeployQueue for TLC.  Jobs and API threads are             *)
(* interchangeable model values, so safety runs use them as symmetry sets; *)
(* liveness runs do not.                                                   *)
(***************************************************************************)
EXTENDS DeployQueue, TLC

Symmetry == Permutations(Jobs) \cup Permutations(Threads)
==============================================================================
