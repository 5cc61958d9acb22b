--------------------------- MODULE MCRequestParsing ---------------------------
(***************************************************************************)
(* RequestParsing for TLC.                                                 *)
(***************************************************************************)
EXTENDS RequestParsing

Symmetry == Permutations(JobThreads)
===============================================================================
