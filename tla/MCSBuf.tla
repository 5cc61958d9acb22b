-------------------------------- MODULE MCSBuf --------------------------------
(***************************************************************************)
(* SBuf with symmetric client threads and symmetric job threads, for TLC.  *)
(***************************************************************************)
EXTENDS SBuf, TLC

Symmetry == Permutations(Clients) \cup Permutations(JobThreads)
===============================================================================
