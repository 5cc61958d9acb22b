------------------------------ MODULE MCSessions ------------------------------
(***************************************************************************)
(* Sessions for TLC.                                                       *)
(***************************************************************************)
EXTENDS Sessions

Symmetry == Permutations(Names) \cup Permutations(Conns) \cup Permutations(JobThreads)
===============================================================================
