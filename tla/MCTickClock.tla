------------------------------ MODULE MCTickClock ------------------------------
(***************************************************************************)
(* TickClock for TLC.                                                      *)
(***************************************************************************)
EXTENDS TickClock
===============================================================================
