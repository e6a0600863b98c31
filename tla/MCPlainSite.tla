------------------------------ MODULE MCPlainSite ------------------------------
(***************************************************************************)
(* PlainSite on small instances, for TLC.  Container ids are fresh and     *)
(* interchangeable, and so are the threads of the REST API.                *)
(***************************************************************************)
EXTENDS PlainSite, TLC

Symmetry == Permutations(Containers) \cup Permutations(Threads)
=============================================================================
