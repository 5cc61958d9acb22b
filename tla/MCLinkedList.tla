----------------------------- MODULE MCLinkedList -----------------------------
(***************************************************************************)
(* LinkedList for TLC.                                                     *)
(***************************************************************************)
EXTENDS LinkedList

Symmetry == Permutations(Nodes)

(* removeByIndex with "not found", each end, the middle and past the end. *)
SomeIndices == -1..3
===============================================================================
