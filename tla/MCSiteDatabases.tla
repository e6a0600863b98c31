---------------------------- MODULE MCSiteDatabases ----------------------------
(***************************************************************************)
(* SiteDatabases on small instances, for TLC.  Passwords and handlers are  *)
(* interchangeable.                                                        *)
(***************************************************************************)
EXTENDS SiteDatabases, TLC

Symmetry == Permutations(Passwords) \cup Permutations(Requests)
=============================================================================
