------------------------------ MODULE MCSharedFile ------------------------------
(***************************************************************************)
(* SharedFile on small instances, for TLC.  Keys, passwords and threads    *)
(* are interchangeable.                                                    *)
(***************************************************************************)
EXTENDS SharedFile, TLC

Symmetry == Permutations(Keys) \cup Permutations(Passwords) \cup Permutations(Threads)
=============================================================================
