----------------------------- MODULE LinkedSequence -----------------------------
(***************************************************************************)
(* What the lists of the server promise: a sequence of values that grows   *)
(* and shrinks at either end, at an index, or at the place the order of    *)
(* its values asks for; each call takes effect at one moment.  LinkedList  *)
(* is the code that has to keep this promise with nodes and pointers.      *)
(***************************************************************************)
EXTENDS Integers, SequencesExt

CONSTANTS Calls,  \* the calls that may be made, [op, arg] records
          NoCall, \* "no call is waiting to take effect"
          NoVal   \* NULL, as a value

VARIABLES call,     \* the call that has not taken effect yet
          contents, \* the values in the list
          retval    \* what the last call has returned, if a value

vars == <<call, contents, retval>>

Init == call = NoCall /\ contents = <<>> /\ retval = NoVal

Sorted(s) == \A i \in 1..Len(s) - 1 : s[i] <= s[i + 1]

(* Puts v at one of the places; NULL is not put anywhere. *)
Insert(v, places) ==
  /\ IF v = NoVal
       THEN UNCHANGED contents
       ELSE \E i \in places : contents' = InsertAt(contents, i, v)
  /\ UNCHANGED retval

InsertAtHead == call.op = "InsertAtHead" /\ Insert(call.arg, {1})
InsertAtTail == call.op = "InsertAtTail" /\ Insert(call.arg, {Len(contents) + 1})
InsertInOrder ==
  /\ call.op = "InsertInOrder" /\ Insert(call.arg, 1..Len(contents) + 1)
  /\ Sorted(contents) => Sorted(contents')

(* Indices count from 0. *)
TakeOut(i) ==
  IF i < Len(contents)
    THEN retval' = contents[i + 1] /\ contents' = RemoveAt(contents, i + 1)
    ELSE retval' = NoVal /\ UNCHANGED contents

RemoveFront == call.op = "removeFront" /\ TakeOut(0)
RemoveRear == call.op = "removeRear" /\ TakeOut(IF contents = <<>> THEN 0 ELSE Len(contents) - 1)
RemoveByIndex == call.op = "removeByIndex" /\ call.arg >= 0 /\ TakeOut(call.arg)

Call == call = NoCall /\ call' \in Calls /\ retval' = NoVal /\ UNCHANGED contents

TakeEffect ==
  /\ call # NoCall /\ call' = NoCall
  /\ \/ InsertAtHead \/ InsertAtTail \/ InsertInOrder
     \/ RemoveFront \/ RemoveRear \/ RemoveByIndex

Next == Call \/ TakeEffect

Spec == Init /\ [][Next]_vars
===============================================================================
