------------------------------- MODULE LinkedList -------------------------------
(***************************************************************************)
(* linkedlist.c: the lists of users, auctions, watchers, sales and wins.   *)
(* A heap of nodes, given out and taken back by malloc and free; one       *)
(* writer, the thread that holds the semaphore of the list, which makes    *)
(* calls; and one reader that walks the list without the semaphore, as     *)
(* findUsername, logout, createAuction and run_tick do.                    *)
(*                                                                         *)
(* Nobody but the writer reads the length, and nobody but the writer has a *)
(* node before it is linked.  So a call is cut at the stores to head and   *)
(* to linked nodes, and at free; the rest goes with the nearest of these.  *)
(*                                                                         *)
(* Bounds: the nodes are those the heap has room for; the reader reads at  *)
(* most MaxSeen values.                                                    *)
(***************************************************************************)
EXTENDS Integers, FiniteSets, SequencesExt

CONSTANTS
  Nodes,
  Vals,     \* the data, ordered by the comparator
  NoVal,    \* NULL, as a value
  Null,     \* NULL, as a pointer
  Wild,     \* what is in memory nobody has set: a value and a pointer
  NoCall,
  Inserts,  \* the names of the insertions that are called
  Removes,  \* "removeFront", "removeRear" or both
  Indices,  \* the arguments of removeByIndex
  MaxSeen

ASSUME LinkedListAssumption ==
  /\ IsFiniteSet(Nodes) /\ Null \notin Nodes \cup {Wild} /\ Wild \notin Nodes
  /\ Vals \subseteq Int /\ NoVal \notin Vals /\ Wild \notin Vals \cup {NoVal}
  /\ Inserts \subseteq {"InsertAtHead", "InsertAtTail", "InsertInOrder"}
  /\ Removes \subseteq {"removeFront", "removeRear"}
  /\ Indices \subseteq Int /\ MaxSeen \in Nat

Calls == [op : Inserts, arg : Vals \cup {NoVal}] \cup [op : Removes, arg : {NoVal}]
           \cup [op : {"removeByIndex"}, arg : Indices]
ASSUME NoCallAssumption == NoCall \notin Calls

Pointers == Nodes \cup {Null, Wild}

VARIABLES
  head, length,           \* list_t
  data, next, allocated,  \* the heap of node_t
  pc,                     \* where the writer is
  call,                   \* the call it is in
  node, rest,             \* the nodes it holds on to
  retval,                 \* what the last call has returned, if a value
  walk, cursor,           \* the reader: "idle", "data" or "next"; its node
  start, seen,            \* history: the list when it began; what it has read
  disturbed,              \* history: the list has since been changed but at
                          \* its ends, and start and seen are forgotten
  crashed                 \* a wild or null pointer has been followed

list == <<head, length>>
heap == <<data, next, allocated>>
writer == <<pc, call, node, rest, retval>>
history == <<start, seen, disturbed>>
vars == <<list, heap, writer, walk, cursor, history, crashed>>
-------------------------------------------------------------------------------
(* CreateList *)
Init ==
  /\ head = Null /\ length = 0
  /\ data = [n \in Nodes |-> Wild] /\ next = [n \in Nodes |-> Wild]
  /\ allocated = {}
  /\ pc = "idle" /\ call = NoCall /\ node = Null /\ rest = Null /\ retval = NoVal
  /\ walk = "idle" /\ cursor = Null /\ seen = <<>> /\ start = <<>>
  /\ disturbed = FALSE /\ crashed = FALSE

(* Where one gets from head by following next k times.                     *)
Succ(n) == IF n \in Nodes THEN next[n] ELSE n
Value(n) == IF n \in Nodes THEN data[n] ELSE Wild
Nth[k \in 0..Cardinality(Nodes)] == IF k = 0 THEN head ELSE Succ(Nth[k - 1])

(* The loop of InsertAtTail and removeRear: the last node has no next.     *)
LastPlace == CHOOSE k \in DOMAIN Nth : Nth[k] \in Nodes /\ next[Nth[k]] = Null

(* The loop of InsertInOrder: it stops, behind the head, at nodes that are *)
(* not below v.                                                            *)
Stops(v) == {k \in DOMAIN Nth \ {0} : Nth[k] \in Nodes /\ data[Nth[k]] >= v}
FirstStop(v) == CHOOSE k \in Stops(v) : \A i \in Stops(v) : k <= i

Calling(ops) == pc = "called" /\ call.op \in ops
Putting(ops) == Calling(ops) /\ call.arg # NoVal
Continue(to, n, r) == pc' = to /\ node' = n /\ rest' = r /\ UNCHANGED call
Return == pc' = "idle" /\ call' = NoCall /\ node' = Null /\ rest' = Null
Disturb == disturbed' = (walk # "idle") /\ start' = <<>> /\ seen' = <<>>

MakeCall ==
  /\ pc = "idle" /\ pc' = "called" /\ call' \in Calls
  /\ call'.op \in Inserts /\ call'.arg # NoVal => allocated # Nodes
  /\ retval' = NoVal
  /\ UNCHANGED <<list, heap, node, rest, history, crashed>>

(* val_ref == NULL, and a removal from where nothing is.                   *)
InsertNothing ==
  /\ Calling(Inserts) /\ call.arg = NoVal
  /\ Return
  /\ UNCHANGED <<list, heap, retval, history, crashed>>

RemoveNothing ==
  /\ \/ Calling(Removes) /\ length = 0
     \/ Calling({"removeByIndex"}) /\ length <= call.arg
  /\ Return /\ retval' = NoVal
  /\ UNCHANGED <<list, heap, history, crashed>>
-------------------------------------------------------------------------------
(* malloc: what is in the node is what was there, or anything. *)
Malloc(n) == n \in Nodes \ allocated /\ allocated' = allocated \cup {n}
Fill(n) ==
  /\ Malloc(n)
  /\ data' = [data EXCEPT ![n] = call.arg]

LinkFirst ==
  /\ \E n \in Nodes :
       /\ Fill(n)
       /\ next' = [next EXCEPT ![n] = IF length = 0 THEN Null ELSE head]
       /\ head' = n
  /\ length' = length + 1
  /\ Return /\ UNCHANGED <<retval, history, crashed>>

(* InsertAtTail and InsertInOrder call InsertAtHead for an empty list.     *)
InsertAtHead ==
  /\ Putting({"InsertAtHead"}) \/ (Putting(Inserts) /\ length = 0)
  /\ LinkFirst

(* Mutant: the loop of removeRear, which stops one node before the last. *)
TailLinkBeforeLast ==
  /\ Putting({"InsertAtTail"}) /\ length # 0
  /\ \E n \in Nodes :
       /\ Malloc(n)
       /\ next' = [next EXCEPT ![IF LastPlace = 0 THEN head ELSE Nth[LastPlace - 1]] = n]
       /\ Continue("tailData", n, Null)
  /\ UNCHANGED <<list, data, retval, history, crashed>>

(* InsertAtTail links the node, then sets its data, then its next.         *)
TailLink ==
  /\ Putting({"InsertAtTail"}) /\ length # 0
  /\ \E n \in Nodes :
       /\ Malloc(n)
       /\ next' = [next EXCEPT ![Nth[LastPlace]] = n]
       /\ Continue("tailData", n, Null)
  /\ UNCHANGED <<list, data, retval, history, crashed>>

(* Mutant: the data of the new node is not set. *)
TailDataUnset ==
  /\ pc = "tailData" /\ Continue("tailNext", node, Null)
  /\ UNCHANGED <<list, heap, retval, history, crashed>>

TailData ==
  /\ pc = "tailData" /\ Continue("tailNext", node, Null)
  /\ data' = [data EXCEPT ![node] = call.arg]
  /\ UNCHANGED <<list, next, allocated, retval, history, crashed>>

TailNext ==
  /\ pc = "tailNext" /\ Return
  /\ next' = [next EXCEPT ![node] = Null]
  /\ length' = length + 1
  /\ UNCHANGED <<head, data, allocated, retval, history, crashed>>

InsertInOrderFirst ==
  /\ Putting({"InsertInOrder"}) /\ length # 0 /\ call.arg < data[head]
  /\ LinkFirst

InsertInOrderLast ==
  /\ Putting({"InsertInOrder"}) /\ length # 0 /\ call.arg >= data[head]
  /\ Stops(call.arg) = {}
  /\ \E n \in Nodes :
       /\ Fill(n)
       /\ next' = [next EXCEPT ![n] = Null, ![Nth[LastPlace]] = n]
  /\ length' = length + 1
  /\ Return /\ UNCHANGED <<head, retval, history, crashed>>

(* In the middle the new node is linked first, and the rest of the list    *)
(* hangs on the local variable current until it is linked to the new node. *)
InsertInOrderMiddle ==
  /\ Putting({"InsertInOrder"}) /\ length # 0 /\ call.arg >= data[head]
  /\ Stops(call.arg) # {}
  /\ LET k == FirstStop(call.arg) IN
     \E n \in Nodes :
       /\ Fill(n)
       /\ next' = [next EXCEPT ![n] = Null, ![Nth[k - 1]] = n]
       /\ Continue("rejoin", n, Nth[k])
  /\ Disturb /\ UNCHANGED <<list, retval, crashed>>

Rejoin ==
  /\ pc = "rejoin" /\ Return
  /\ next' = [next EXCEPT ![node] = rest]
  /\ length' = length + 1
  /\ UNCHANGED <<head, data, allocated, retval, history, crashed>>
-------------------------------------------------------------------------------
(* free: the node is left as it was, or written to. *)
Free(n) ==
  /\ allocated' = allocated \ {n}
  /\ \/ UNCHANGED <<data, next>>
     \/ /\ data' = [data EXCEPT ![n] = Wild]
        /\ \E p \in {Null, Wild} : next' = [next EXCEPT ![n] = p]

UnlinkFirst ==
  /\ retval' = data[head]
  /\ head' = next[head]
  /\ length' = length - 1
  /\ Continue("free", head, Null)
  /\ Disturb /\ UNCHANGED <<heap, crashed>>

(* removeFront, also when it is called by removeRear. *)
RemoveFront ==
  /\ \/ Calling({"removeFront"}) /\ length > 0
     \/ Calling({"removeRear"}) /\ length = 1
  /\ UnlinkFirst

RemoveByIndexFirst == Calling({"removeByIndex"}) /\ call.arg = 0 /\ length > 0 /\ UnlinkFirst

(* Mutant: the loop stops one node early. *)
RemoveByIndexBefore ==
  /\ Calling({"removeByIndex"}) /\ call.arg \in 1..length - 1
  /\ LET k == IF call.arg = 1 THEN 1 ELSE call.arg - 1 IN
     /\ next' = [next EXCEPT ![Nth[k - 1]] = Nth[k + 1]]
     /\ retval' = Value(Nth[k])
     /\ Continue("free", Nth[k], Null)
  /\ length' = length - 1
  /\ Disturb /\ UNCHANGED <<head, data, allocated, crashed>>

RemoveByIndex ==
  /\ Calling({"removeByIndex"}) /\ call.arg \in 1..length - 1
  /\ LET k == call.arg IN
     /\ next' = [next EXCEPT ![Nth[k - 1]] = Succ(Nth[k])]
     /\ retval' = Value(Nth[k])
     /\ Continue("free", Nth[k], Null)
  /\ length' = length - 1
  /\ Disturb /\ UNCHANGED <<head, data, allocated, crashed>>

(* An index below 0, "not found" to the callers: the loop runs off the end. *)
RemoveByIndexNegative ==
  /\ Calling({"removeByIndex"}) /\ call.arg < 0
  /\ crashed' = TRUE
  /\ UNCHANGED <<list, heap, writer, history>>

FreeUnlinked ==
  /\ pc = "free" /\ Return
  /\ Free(node)
  /\ UNCHANGED <<list, retval, history, crashed>>

(* removeRear frees the last node while it is still linked. *)
RemoveRear ==
  /\ Calling({"removeRear"}) /\ length > 1
  /\ LET last == Nth[LastPlace] IN
     /\ retval' = data[last]
     /\ Free(last)
  /\ Continue("cut", Nth[LastPlace - 1], Null)
  /\ Disturb /\ UNCHANGED <<list, crashed>>

(* Mutant: the pointer to the freed node stays. *)
CutNothing ==
  /\ pc = "cut" /\ Return
  /\ length' = length - 1
  /\ UNCHANGED <<head, heap, retval, history, crashed>>

Cut ==
  /\ pc = "cut" /\ Return
  /\ next' = [next EXCEPT ![node] = Null]
  /\ length' = length - 1
  /\ UNCHANGED <<head, data, allocated, retval, history, crashed>>
-------------------------------------------------------------------------------
(* The list as its calls have made it: a new last node counts when its     *)
(* next is set, a new node in the middle when the rest hangs on it, and a  *)
(* node that removeRear has freed does not count.                          *)
Follow(n) == IF pc = "rejoin" /\ Succ(n) = node THEN rest ELSE Succ(n)
Place[k \in 0..Cardinality(Nodes)] == IF k = 0 THEN head ELSE Follow(Place[k - 1])
Contents == [k \in 1..IF pc = "cut" THEN length - 1 ELSE length |-> Value(Place[k - 1])]

(* A walk: PrintLinkedList, and every loop over a list in the server.      *)
StartWalk ==
  /\ walk = "idle" /\ walk' = "data"
  /\ cursor' = head /\ seen' = <<>>
  /\ disturbed' = (pc \in {"rejoin", "cut"})
  /\ start' = IF disturbed' THEN <<>> ELSE Contents
  /\ UNCHANGED crashed

ReadData ==
  /\ walk = "data" /\ cursor \in Nodes /\ Len(seen) < MaxSeen
  /\ walk' = "next"
  /\ seen' = IF disturbed THEN seen ELSE Append(seen, data[cursor])
  /\ UNCHANGED <<cursor, start, disturbed, crashed>>

ReadNext ==
  /\ walk = "next" /\ walk' = "data"
  /\ cursor' = next[cursor]
  /\ UNCHANGED <<seen, start, disturbed, crashed>>

FollowWild ==
  /\ walk = "data" /\ (cursor = Wild \/ (cursor \in Nodes /\ data[cursor] = Wild))
  /\ crashed' = TRUE
  /\ UNCHANGED <<walk, cursor, history>>

EndWalk ==
  /\ walk = "data" /\ (cursor = Null \/ Len(seen) = MaxSeen)
  /\ walk' = "idle" /\ cursor' = Null /\ seen' = <<>> /\ start' = <<>>
  /\ disturbed' = FALSE
  /\ UNCHANGED crashed
-------------------------------------------------------------------------------
Write ==
  /\ \/ MakeCall \/ InsertNothing \/ RemoveNothing
     \/ InsertAtHead \/ TailLink \/ TailData \/ TailNext
     \/ InsertInOrderFirst \/ InsertInOrderLast \/ InsertInOrderMiddle \/ Rejoin
     \/ RemoveFront \/ RemoveByIndexFirst \/ RemoveByIndex \/ RemoveByIndexNegative \/ FreeUnlinked
     \/ RemoveRear \/ Cut
  /\ UNCHANGED <<walk, cursor>>

Walk ==
  /\ StartWalk \/ ReadData \/ ReadNext \/ FollowWild \/ EndWalk
  /\ UNCHANGED <<list, heap, writer>>

Next == IF crashed THEN UNCHANGED vars ELSE Write \/ Walk

Spec == Init /\ [][Next]_vars
-------------------------------------------------------------------------------
(* Every variable has its type; no call returns what nobody has put in.    *)
TypeOK ==
  /\ head \in Pointers /\ length \in 0..Cardinality(Nodes)
  /\ data \in [Nodes -> Vals \cup {Wild}] /\ next \in [Nodes -> Pointers]
  /\ allocated \subseteq Nodes
  /\ pc \in {"idle", "called", "tailData", "tailNext", "rejoin", "free", "cut"}
  /\ call \in Calls \cup {NoCall}
  /\ node \in Nodes \cup {Null} /\ rest \in Nodes \cup {Null}
  /\ retval \in Vals \cup {NoVal}
  /\ walk \in {"idle", "data", "next"} /\ cursor \in Pointers
  /\ start \in Seq(Vals) /\ seen \in Seq(Vals \cup {Wild})
  /\ disturbed \in BOOLEAN /\ crashed \in BOOLEAN

(* Between calls the nodes that can be reached from head are exactly those *)
(* that are allocated: length of them, each once, the last one without a   *)
(* next.  No call leaks a node, loops, or leaves a freed one in the list,  *)
(* whatever malloc and free do with their memory.                          *)
WellFormed ==
  pc \in {"idle", "called"} =>
    /\ \A k \in 0..length - 1 : Nth[k] \in Nodes
    /\ {Nth[k] : k \in 0..length - 1} = allocated
    /\ Cardinality(allocated) = length
    /\ length = 0 \/ next[Nth[length - 1]] = Null

(* The calls do to the list what they promise to do to a sequence, and     *)
(* return what was there.                                                  *)
Sequence == INSTANCE LinkedSequence WITH
              call <- IF pc \in {"free", "cut"} THEN NoCall ELSE call,
              contents <- Contents

ImplementsSequence == Sequence!Spec

(* A reader without the semaphore reads every value that was in the list   *)
(* when it began, in order and before any other, as long as the list is    *)
(* changed at its ends only: a login or the ANCREATE of another thread     *)
(* cannot make findUsername or the tick thread miss one.  What it reads    *)
(* behind them is another matter: it may not be set yet.                   *)
WalkSeesAll ==
  ~disturbed =>
    /\ IsPrefix(seen, start) \/ IsPrefix(start, seen)
    /\ walk = "data" /\ cursor = Null => IsPrefix(start, seen)
===============================================================================
