----------------------------- MODULE MCInternalCA -----------------------------
(***************************************************************************)
(* InternalCA on small instances, for TLC.  Sites, threads and the keys of *)
(* either size are interchangeable model values.                           *)
(***************************************************************************)
EXTENDS InternalCA, TLC

Symmetry ==
  Permutations(Sites) \cup Permutations(CaKeys) \cup Permutations(SiteKeys)
    \cup Permutations(Threads)
=============================================================================
