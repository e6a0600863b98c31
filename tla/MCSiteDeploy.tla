---------------------------- MODULE MCSiteDeploy ----------------------------
(***************************************************************************)
(* Instances of SiteDeploy for TLC.  Jobs and API threads are              *)
(* interchangeable model values.                                           *)
(***************************************************************************)
EXTENDS SiteDeploy, TLC

Symmetry == Permutations(Jobs) \cup Permutations(Threads)
==============================================================================
