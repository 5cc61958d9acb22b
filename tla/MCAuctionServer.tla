---------------------------- MODULE MCAuctionServer ----------------------------
(***************************************************************************)
(* AuctionServer for TLC.                                                  *)
(***************************************************************************)
EXTENDS AuctionServer

(* ANCREATE with a bad price among the good ones. *)
PricesWithInvalid == {-1, 0}

Symmetry == Permutations(Users) \cup Permutations(JobThreads)
===============================================================================
