---------------------------- MODULE LinkedListProofs ----------------------------
(***************************************************************************)
(* Proofs about LinkedList, for any number of nodes and values:            *)
(*   - TypeCorrect: TypeOK;                                                *)
(*   - StaysWellFormed: WellFormed;                                        *)
(*   - ReaderMissesNothing: WalkSeesAll;                                   *)
(*   - KeepsThePromise: ImplementsSequence.                                *)
(* All of them follow from one invariant: there is a sequence c of         *)
(* distinct nodes, those that count, which the pointers run through.       *)
(***************************************************************************)
EXTENDS LinkedList, DataLemmas

(* A sequence of nodes without repetitions.                                *)
Distinct(c) == \A i, j \in 1..Len(c) : c[i] = c[j] => i = j

(* The nodes behind head, c[k] but for a moment linked to the new node.    *)
Chained(c, k) ==
  /\ head = IF c = <<>> THEN Null ELSE c[1]
  /\ \A i \in 1..(Len(c) - 1) : next[c[i]] = IF i = k THEN node ELSE c[i + 1]
  /\ c # <<>> /\ pc # "cut" =>
       next[c[Len(c)]] = IF pc \in {"tailData", "tailNext"} THEN node ELSE Null

(* The nodes of c are allocated, and besides them the one that the writer  *)
(* is about to link or to free.                                            *)
Owned(c) ==
  /\ Distinct(c)
  /\ IF pc \in {"tailData", "tailNext", "rejoin", "free"}
       THEN node \in Nodes \ Range(c) /\ allocated = Range(c) \cup {node}
       ELSE allocated = Range(c)
  /\ length = IF pc = "cut" THEN Len(c) + 1 ELSE Len(c)

(* What the writer knows half way through a call. *)
Halfway(c, k) ==
  /\ IF pc = "idle" THEN call = NoCall ELSE call \in Calls
  /\ Putting(Inserts) => allocated # Nodes
  /\ pc \in {"tailData", "tailNext"} =>
       c # <<>> /\ call.op = "InsertAtTail" /\ call.arg \in Vals
  /\ pc \in {"tailNext", "rejoin"} => data[node] = call.arg
  /\ pc = "rejoin" =>
       /\ call.op = "InsertInOrder" /\ call.arg \in Vals
       /\ k \in 1..(Len(c) - 1) /\ rest = c[k + 1] /\ next[node] = Null
       /\ data[c[k]] <= call.arg /\ call.arg <= data[c[k + 1]]
  /\ pc # "rejoin" => k = 0
  /\ pc = "cut" => c # <<>> /\ node = c[Len(c)]

Shape(c, k) ==
  /\ Chained(c, k) /\ Owned(c) /\ Halfway(c, k)
  /\ \A i \in 1..Len(c) : data[c[i]] \in Vals

(* The reader has read all that was in the list when it began; or its node *)
(* is in c, and from c[j + 1] on are the values that it began with.        *)
ReadAll == Len(start) <= Len(seen) /\ \A i \in 1..Len(start) : seen[i] = start[i]
Amid(c, j) ==
  /\ j + Len(start) <= Len(c) /\ \A i \in 1..Len(start) : data[c[j + i]] = start[i]
  /\ Len(seen) < Len(start) /\ \A i \in 1..Len(seen) : seen[i] = start[i]
  /\ walk = "data" => cursor = c[j + Len(seen) + 1]
  /\ walk = "next" => Len(seen) > 0 /\ cursor = c[j + Len(seen)]
Reading(c) ==
  /\ walk = "idle" => ~disturbed /\ seen = <<>> /\ start = <<>>
  /\ walk = "next" => cursor \in Nodes
  /\ pc \in {"rejoin", "cut"} => walk = "idle" \/ disturbed
  /\ disturbed \/ ReadAll \/ \E j \in Nat : Amid(c, j)

Inv(c, k) == TypeOK /\ c \in Seq(Nodes) /\ k \in Nat /\ Shape(c, k) /\ Reading(c)
-------------------------------------------------------------------------------
LEMMA Lengths ==
  ASSUME NEW c \in Seq(Nodes), Distinct(c)
  PROVE  /\ Len(c) \in Nat /\ Cardinality(Nodes) \in Nat /\ Len(c) <= Cardinality(Nodes)
         /\ Cardinality(Range(c)) = Len(c) /\ Range(c) \subseteq Nodes
         /\ \A i \in 1..Len(c) : c[i] \in Nodes /\ c[i] \in Range(c)
         /\ \A n \in Range(c) : \E i \in 1..Len(c) : n = c[i]
         /\ c = <<>> <=> Len(c) = 0
<1>1. IsFiniteSet(Nodes) /\ Cardinality(Nodes) \in Nat /\ Len(c) \in Nat
  BY LinkedListAssumption, FS_CardinalityType
<1>2. /\ \A i \in 1..Len(c) : c[i] \in Nodes /\ c[i] \in Range(c)
      /\ \A n \in Range(c) : \E i \in 1..Len(c) : n = c[i]
  BY DEF Range
<1>3. /\ Len(c) <= Cardinality(Nodes) /\ Cardinality(Range(c)) = Len(c)
      /\ Range(c) \subseteq Nodes
  BY <1>1, DistinctLength DEF Distinct
<1>4. c = <<>> <=> Len(c) = 0
  OBVIOUS
<1> QED BY <1>1, <1>2, <1>3, <1>4

(* A new node goes in at i, or the node at i goes out: d is c with n at i, *)
(* or c without what is at i.                                              *)
With(c, i, n, d) ==
  /\ d \in Seq(Nodes) /\ Len(d) = Len(c) + 1 /\ Distinct(d)
  /\ Range(d) = Range(c) \cup {n}
  /\ \A j \in 1..(Len(c) + 1) :
       d[j] = IF j < i THEN c[j] ELSE IF j = i THEN n ELSE c[j - 1]

Without(c, i, d) ==
  /\ d \in Seq(Nodes) /\ Len(d) = Len(c) - 1 /\ Distinct(d)
  /\ Range(d) = Range(c) \ {c[i]}
  /\ \A j \in 1..(Len(c) - 1) : d[j] = IF j < i THEN c[j] ELSE c[j + 1]

LEMMA NodePut ==
  ASSUME NEW c \in Seq(Nodes), Distinct(c), NEW n \in Nodes \ Range(c),
         NEW i \in 1..(Len(c) + 1), NEW d, d = InsertAt(c, i, n)
  PROVE  With(c, i, n, d)
<1>1. Len(c) \in Nat /\ i \in Nat /\ 1 <= i /\ i <= Len(c) + 1 /\ n \in Nodes
  OBVIOUS
<1>2. InsertAt(c, i, n) \in Seq(Nodes) /\ Len(InsertAt(c, i, n)) = Len(c) + 1
  BY <1>1, InsertAtPuts
<1>3. \A j \in 1..(Len(c) + 1) :
        InsertAt(c, i, n)[j] = IF j < i THEN c[j] ELSE IF j = i THEN n ELSE c[j - 1]
  BY <1>1, InsertAtPuts
<1>4. /\ d \in Seq(Nodes) /\ Len(d) = Len(c) + 1 /\ Len(c) \in Nat /\ i \in Nat
      /\ \A j \in 1..(Len(c) + 1) :
           d[j] = IF j < i THEN c[j] ELSE IF j = i THEN n ELSE c[j - 1]
  BY <1>1, <1>2, <1>3
<1>5. \A j \in 1..Len(c) : c[j] # n /\ c[j] \in Range(c)
  BY Lengths
<1>6. Distinct(d)
  <2> SUFFICES ASSUME NEW a \in 1..Len(d), NEW b \in 1..Len(d), a < b PROVE d[a] # d[b]
    BY <1>4 DEF Distinct
  <2>1. a \in 1..(Len(c) + 1) /\ b \in 1..(Len(c) + 1) /\ a \in Nat /\ b \in Nat
    BY <1>4
  <2>2. CASE b < i
    <3>1. a \in 1..Len(c) /\ b \in 1..Len(c) /\ a # b /\ a < i
      BY <1>1, <2>1, <2>2
    <3>2. d[a] = c[a] /\ d[b] = c[b]
      BY <1>4, <2>1, <2>2, <3>1
    <3> QED BY <3>1, <3>2 DEF Distinct
  <2>3. CASE b = i
    BY <1>4, <1>5, <2>1, <2>3
  <2>4. CASE b > i
    <3>1. b - 1 \in 1..Len(c) /\ d[b] = c[b - 1]
      BY <1>4, <2>1, <2>4
    <3>2. CASE a < i
      <4>1. a \in 1..Len(c) /\ a # b - 1 /\ d[a] = c[a]
        BY <1>1, <1>4, <2>1, <2>4, <3>2
      <4> QED BY <3>1, <4>1 DEF Distinct
    <3>3. CASE a = i
      BY <1>4, <1>5, <2>1, <3>1, <3>3
    <3>4. CASE a > i
      <4>1. a - 1 \in 1..Len(c) /\ d[a] = c[a - 1] /\ a - 1 # b - 1
        BY <1>4, <2>1, <3>4
      <4> QED BY <3>1, <4>1 DEF Distinct
    <3> QED BY <1>4, <2>1, <3>2, <3>3, <3>4
  <2> QED BY <1>4, <2>1, <2>2, <2>3, <2>4
<1>7. ASSUME NEW x \in Range(d) PROVE x \in Range(c) \cup {n}
  <2>1. PICK j \in 1..(Len(c) + 1) : x = d[j]
    BY <1>4, <1>6, Lengths
  <2>2. j > i => j - 1 \in 1..Len(c)
    BY <1>4
  <2> QED BY <1>4, <1>5, <2>1, <2>2
<1>8. ASSUME NEW x \in Range(c) PROVE x \in Range(d)
  <2>1. PICK j \in 1..Len(c) : x = c[j]
    BY Lengths
  <2>2. CASE j < i
    <3>1. j \in 1..(Len(c) + 1) /\ x = d[j]
      BY <1>1, <1>4, <2>1, <2>2
    <3> QED BY <1>4, <1>6, <3>1, Lengths
  <2>3. CASE j >= i
    <3>1. j + 1 \in 1..(Len(c) + 1) /\ ~(j + 1 < i) /\ j + 1 # i /\ (j + 1) - 1 = j
      BY <1>1, <2>1, <2>3
    <3>2. d[j + 1] = c[j] /\ j + 1 \in 1..Len(d)
      BY <1>4, <3>1
    <3> QED BY <1>4, <1>6, <2>1, <3>2, Lengths
  <2> QED BY <1>1, <2>2, <2>3
<1>9. n \in Range(d)
  <2>1. i \in 1..Len(d) /\ d[i] = n
    BY <1>4
  <2> QED BY <1>4, <1>6, <2>1, Lengths
<1>10. Range(d) = Range(c) \cup {n}
  BY <1>7, <1>8, <1>9
<1> QED BY <1>4, <1>6, <1>10 DEF With

LEMMA NodeOut ==
  ASSUME NEW c \in Seq(Nodes), Distinct(c), NEW i \in 1..Len(c),
         NEW d, d = RemoveAt(c, i)
  PROVE  Without(c, i, d)
<1>1. Len(c) \in Nat /\ i \in Nat /\ 1 <= i /\ i <= Len(c)
  OBVIOUS
<1>2. /\ RemoveAt(c, i) \in Seq(Nodes) /\ Len(RemoveAt(c, i)) = Len(c) - 1
      /\ \A j \in 1..(Len(c) - 1) :
           RemoveAt(c, i)[j] = IF j < i THEN c[j] ELSE c[j + 1]
  BY RemoveAtDrops
<1>3. /\ d \in Seq(Nodes) /\ Len(d) = Len(c) - 1 /\ Len(c) \in Nat /\ i \in Nat
      /\ \A j \in 1..(Len(c) - 1) : d[j] = IF j < i THEN c[j] ELSE c[j + 1]
  BY <1>1, <1>2
<1>4. \A j \in 1..Len(d) : \E k \in 1..Len(c) :
        d[j] = c[k] /\ k # i /\ k = IF j < i THEN j ELSE j + 1
  BY <1>3
<1>5. Distinct(d)
  BY <1>3, <1>4 DEF Distinct
<1>6. ASSUME NEW x \in Range(d) PROVE x \in Range(c) \ {c[i]}
  <2>1. PICK j \in 1..Len(d) : x = d[j]
    BY <1>3, <1>5, Lengths
  <2>2. PICK k \in 1..Len(c) : x = c[k] /\ k # i
    BY <1>4, <2>1
  <2> QED BY <2>2, Lengths DEF Distinct
<1>7. ASSUME NEW x \in Range(c) \ {c[i]} PROVE x \in Range(d)
  <2>1. PICK j \in 1..Len(c) : x = c[j]
    BY Lengths
  <2>2. j # i
    BY <2>1
  <2>3. x = d[IF j < i THEN j ELSE j - 1] /\ (IF j < i THEN j ELSE j - 1) \in 1..Len(d)
    BY <1>3, <2>1, <2>2
  <2> QED BY <1>3, <1>5, <2>3, Lengths
<1>8. Range(d) = Range(c) \ {c[i]}
  BY <1>6, <1>7
<1> QED BY <1>3, <1>5, <1>8 DEF Without
-------------------------------------------------------------------------------
(* Nth and Place satisfy the equations that define them. *)
LEMMA NthIs ==
  ASSUME TypeOK
  PROVE  /\ Nth[0] = head /\ DOMAIN Nth = 0..Cardinality(Nodes)
         /\ \A k \in 1..Cardinality(Nodes) : Nth[k] = Succ(Nth[k - 1])
<1> DEFINE N == Cardinality(Nodes)
           g == [p \in Pointers |-> Succ(p)]
<1>1. N \in Nat
  BY LinkedListAssumption, FS_CardinalityType
<1>2. g \in [Pointers -> Pointers] /\ head \in Pointers
  BY DEF TypeOK, Succ
<1>3. \A p \in Pointers : g[p] = Succ(p)
  OBVIOUS
<1> HIDE DEF N, g
<1>4. PICK f : Iterates(f, Pointers, g, head, N)
  BY <1>1, <1>2, Iteration
<1>5. f = [k \in 0..N |-> IF k = 0 THEN head ELSE Succ(f[k - 1])]
  <2>1. ASSUME NEW k \in 0..N, k # 0 PROVE f[k] = Succ(f[k - 1])
    <3>1. k \in 1..N /\ k - 1 \in 0..N
      BY <1>1, <2>1
    <3> QED BY <1>3, <1>4, <3>1 DEF Iterates
  <2> QED BY <1>4, <2>1 DEF Iterates
<1>6. Nth = [k \in 0..N |-> IF k = 0 THEN head ELSE Succ(Nth[k - 1])]
  BY <1>5 DEF Nth, N
<1> QED BY <1>1, <1>6 DEF N

LEMMA PlaceIs ==
  ASSUME TypeOK
  PROVE  /\ Place[0] = head /\ DOMAIN Place = 0..Cardinality(Nodes)
         /\ \A k \in 1..Cardinality(Nodes) : Place[k] = Follow(Place[k - 1])
<1> DEFINE N == Cardinality(Nodes)
           g == [p \in Pointers |-> Follow(p)]
<1>1. N \in Nat
  BY LinkedListAssumption, FS_CardinalityType
<1>2. g \in [Pointers -> Pointers] /\ head \in Pointers
  BY DEF TypeOK, Follow, Succ, Pointers
<1>3. \A p \in Pointers : g[p] = Follow(p)
  OBVIOUS
<1> HIDE DEF N, g
<1>4. PICK f : Iterates(f, Pointers, g, head, N)
  BY <1>1, <1>2, Iteration
<1>5. f = [k \in 0..N |-> IF k = 0 THEN head ELSE Follow(f[k - 1])]
  <2>1. ASSUME NEW k \in 0..N, k # 0 PROVE f[k] = Follow(f[k - 1])
    <3>1. k \in 1..N /\ k - 1 \in 0..N
      BY <1>1, <2>1
    <3> QED BY <1>3, <1>4, <3>1 DEF Iterates
  <2> QED BY <1>4, <2>1 DEF Iterates
<1>6. Place = [k \in 0..N |-> IF k = 0 THEN head ELSE Follow(Place[k - 1])]
  BY <1>5 DEF Place, N
<1> QED BY <1>1, <1>6 DEF N

(* The loops of the code get to the nodes of c, one by one. *)
LEMMA NthOfChain ==
  ASSUME TypeOK, NEW c \in Seq(Nodes), Owned(c), Chained(c, 0)
  PROVE  /\ \A i \in 1..Len(c) : Nth[i - 1] = c[i]
         /\ pc \in {"idle", "called"} =>
              \A k \in DOMAIN Nth : k >= Len(c) => Nth[k] = Null
<1> DEFINE N == Cardinality(Nodes)
           T == {n \in Nat : n <= N =>
                   /\ n < Len(c) => Nth[n] = c[n + 1]
                   /\ pc \in {"idle", "called"} /\ n >= Len(c) => Nth[n] = Null}
<1>1. N \in Nat /\ Len(c) \in Nat /\ Len(c) <= N /\ (c = <<>> <=> Len(c) = 0)
  BY Lengths DEF Owned
<1>2. \A i \in 1..Len(c) : c[i] \in Nodes
  BY Lengths DEF Owned
<1>3. /\ Nth[0] = head /\ DOMAIN Nth = 0..N
      /\ \A k \in 1..N : Nth[k] = Succ(Nth[k - 1])
  BY NthIs
<1>4. /\ head = IF c = <<>> THEN Null ELSE c[1]
      /\ \A i \in 1..(Len(c) - 1) : next[c[i]] = c[i + 1]
      /\ c # <<>> /\ pc \in {"idle", "called"} => next[c[Len(c)]] = Null
  BY <1>1 DEF Chained
<1> HIDE DEF N
<1>5. 0 \in T
  BY <1>1, <1>3, <1>4
<1>6. ASSUME NEW n \in T, n + 1 <= N PROVE n + 1 \in T
  <2>0. n \in Nat
    OBVIOUS
  <2>1. n <= N /\ n + 1 \in 1..N /\ (n + 1) - 1 = n
    <3> HIDE DEF T
    <3> QED BY <1>1, <1>6, <2>0
  <2>2. Nth[n + 1] = Succ(Nth[n])
    BY <1>3, <2>1
  <2>3. n + 1 < Len(c) => Nth[n + 1] = c[(n + 1) + 1]
    <3> SUFFICES ASSUME n + 1 < Len(c) PROVE Nth[n + 1] = c[(n + 1) + 1]
      OBVIOUS
    <3>1. n + 1 \in 1..(Len(c) - 1) /\ n + 1 \in 1..Len(c) /\ Nth[n] = c[n + 1]
      BY <1>1, <1>6, <2>0, <2>1
    <3> QED BY <1>2, <1>4, <2>2, <3>1 DEF Succ
  <2>4. pc \in {"idle", "called"} /\ n + 1 >= Len(c) => Nth[n + 1] = Null
    <3> SUFFICES ASSUME pc \in {"idle", "called"}, n + 1 >= Len(c) PROVE Nth[n + 1] = Null
      OBVIOUS
    <3>1. CASE n + 1 = Len(c)
      <4>1. Len(c) \in 1..Len(c) /\ Nth[n] = c[Len(c)] /\ c # <<>>
        BY <1>1, <1>6, <2>0, <2>1, <3>1
      <4> QED BY <1>2, <1>4, <2>2, <4>1 DEF Succ
    <3>2. CASE n >= Len(c)
      BY <1>6, <2>0, <2>1, <2>2, <3>2, LinkedListAssumption DEF Succ
    <3> QED BY <1>1, <2>0, <2>1, <3>1, <3>2
  <2> QED BY <2>0, <2>3, <2>4
<1>7. T = Nat
  <2>1. \A n \in T : n + 1 \in T
    BY <1>1, <1>6
  <2> HIDE DEF T
  <2>2. T \in SUBSET Nat
    BY DEF T
  <2> QED BY <1>5, <2>1, <2>2, InductiveSet
<1> HIDE DEF T
<1>8. ASSUME NEW i \in 1..Len(c) PROVE Nth[i - 1] = c[i]
  <2>0. i \in Nat /\ 1 <= i /\ i <= Len(c)
    BY <1>1
  <2>1. i - 1 \in Nat /\ i - 1 <= N /\ i - 1 < Len(c) /\ (i - 1) + 1 = i
    BY <1>1, <2>0
  <2> QED BY <1>7, <2>1 DEF T
<1>9. ASSUME pc \in {"idle", "called"}, NEW k \in 0..N, k >= Len(c) PROVE Nth[k] = Null
  <2>1. k \in T /\ k <= N
    BY <1>1, <1>7
  <2> QED BY <1>9, <2>1 DEF T
<1> QED BY <1>3, <1>8, <1>9

(* So does the walk of Contents, past the node that is being linked. *)
LEMMA PlaceOfChain ==
  ASSUME TypeOK, NEW c \in Seq(Nodes), NEW k \in Nat, Shape(c, k)
  PROVE  \A i \in 1..Len(c) : Place[i - 1] = c[i]
<1> DEFINE N == Cardinality(Nodes)
           T == {n \in Nat : n <= N /\ n < Len(c) => Place[n] = c[n + 1]}
<1>1. N \in Nat /\ Len(c) \in Nat /\ Len(c) <= N /\ (c = <<>> <=> Len(c) = 0)
  BY Lengths DEF Shape, Owned
<1>2. \A i \in 1..Len(c) : c[i] \in Nodes /\ c[i] \in Range(c)
  BY Lengths DEF Shape, Owned
<1>3. /\ Place[0] = head /\ DOMAIN Place = 0..N
      /\ \A i \in 1..N : Place[i] = Follow(Place[i - 1])
  BY PlaceIs
<1>4. /\ head = IF c = <<>> THEN Null ELSE c[1]
      /\ \A i \in 1..(Len(c) - 1) : next[c[i]] = IF i = k THEN node ELSE c[i + 1]
  BY DEF Chained, Shape
<1>5. IF pc = "rejoin" THEN node \notin Range(c) /\ rest = c[k + 1] ELSE k = 0
  BY DEF Owned, Halfway, Shape
<1> HIDE DEF N
<1>6. 0 \in T
  BY <1>1, <1>3, <1>4
<1>7. ASSUME NEW i \in 1..(Len(c) - 1) PROVE Follow(c[i]) = c[i + 1]
  <2>1. i \in 1..Len(c) /\ i + 1 \in 1..Len(c) /\ i # 0
    BY <1>1
  <2>2. c[i] \in Nodes /\ c[i + 1] \in Range(c) /\ Succ(c[i]) = next[c[i]]
    BY <1>2, <2>1 DEF Succ
  <2>3. CASE i = k
    BY <1>4, <1>5, <2>1, <2>2, <2>3 DEF Follow
  <2>4. CASE i # k
    BY <1>4, <1>5, <2>2, <2>4 DEF Follow
  <2> QED BY <2>3, <2>4
<1>8. ASSUME NEW n \in T PROVE n + 1 \in T
  <2>0. n \in Nat
    OBVIOUS
  <2> SUFFICES ASSUME n + 1 <= N, n + 1 < Len(c) PROVE Place[n + 1] = c[(n + 1) + 1]
    BY <2>0
  <2>1. /\ n <= N /\ n < Len(c) /\ n + 1 \in 1..N /\ (n + 1) - 1 = n
        /\ n + 1 \in 1..(Len(c) - 1)
    <3> HIDE DEF T
    <3> QED BY <1>1, <2>0
  <2>2. Place[n + 1] = Follow(Place[n]) /\ Place[n] = c[n + 1]
    BY <1>3, <2>1
  <2> QED BY <1>7, <2>1, <2>2
<1>9. T = Nat
  BY <1>6, <1>8, InductiveSet
<1> HIDE DEF T
<1> SUFFICES ASSUME NEW i \in 1..Len(c) PROVE Place[i - 1] = c[i]
  OBVIOUS
<1>10. i - 1 \in Nat /\ i - 1 <= N /\ i - 1 < Len(c) /\ (i - 1) + 1 = i
  BY <1>1
<1> QED BY <1>9, <1>10 DEF T

Values(c) == [i \in 1..Len(c) |-> data[c[i]]]
ContentsAre(c, k) == TypeOK /\ Shape(c, k) => Contents = Values(c)

LEMMA ContentsIs == ASSUME NEW c \in Seq(Nodes), NEW k \in Nat PROVE ContentsAre(c, k)
<1> SUFFICES ASSUME TypeOK, Shape(c, k) PROVE Contents = Values(c)
  BY DEF ContentsAre
<1>1. \A i \in 1..Len(c) : Place[i - 1] = c[i] /\ c[i] \in Nodes
  BY PlaceOfChain, Lengths DEF Shape, Owned
<1>2. (IF pc = "cut" THEN length - 1 ELSE length) = Len(c)
  BY DEF Shape, Owned
<1> QED BY <1>1, <1>2 DEF Contents, Values, Value

LEMMA ValuesTyped ==
  ASSUME NEW c \in Seq(Nodes), NEW k, Shape(c, k)
  PROVE  Values(c) \in Seq(Vals) /\ Len(Values(c)) = Len(c)
BY DEF Values, Shape

(* Where InsertAtTail and removeRear stop. *)
LEMMA LastPlaceIs ==
  ASSUME TypeOK, NEW c \in Seq(Nodes), Shape(c, 0), pc = "called", c # <<>>
  PROVE  /\ Nth[LastPlace] = c[Len(c)]
         /\ Len(c) > 1 => Nth[LastPlace - 1] = c[Len(c) - 1]
<1>1. /\ Len(c) \in Nat /\ Len(c) > 0 /\ Len(c) <= Cardinality(Nodes)
      /\ Cardinality(Nodes) \in Nat /\ \A i \in 1..Len(c) : c[i] \in Nodes
  BY Lengths DEF Shape, Owned
<1>2. /\ \A i \in 1..Len(c) : Nth[i - 1] = c[i]
      /\ \A k \in DOMAIN Nth : k >= Len(c) => Nth[k] = Null
      /\ DOMAIN Nth = 0..Cardinality(Nodes)
  BY NthOfChain, NthIs DEF Shape
<1>3. /\ \A i \in 1..(Len(c) - 1) : next[c[i]] = c[i + 1]
      /\ next[c[Len(c)]] = Null
  BY <1>1 DEF Shape, Chained
<1> DEFINE P(k) == Nth[k] \in Nodes /\ next[Nth[k]] = Null
<1>4. P(Len(c) - 1) /\ Len(c) - 1 \in DOMAIN Nth
  <2>1. Len(c) \in 1..Len(c)
    BY <1>1
  <2> QED BY <1>1, <1>2, <1>3, <2>1
<1>5. ASSUME NEW k \in DOMAIN Nth, P(k) PROVE k = Len(c) - 1
  <2>1. k \in Nat /\ k < Len(c)
    BY <1>1, <1>2, <1>5, LinkedListAssumption
  <2> SUFFICES ASSUME k + 1 < Len(c) PROVE FALSE
    BY <1>1, <2>1
  <2>2. k + 1 \in 1..Len(c) /\ k + 1 \in 1..(Len(c) - 1) /\ k + 2 \in 1..Len(c) /\ (k + 1) + 1 = k + 2
        /\ (k + 1) - 1 = k
    BY <1>1, <2>1
  <2>3. Nth[k] = c[k + 1] /\ next[c[k + 1]] = c[k + 2] /\ c[k + 2] \in Nodes
    BY <1>1, <1>2, <1>3, <2>2
  <2> QED BY <1>5, <2>3, LinkedListAssumption
<1>6. LastPlace = Len(c) - 1
  <2>1. LastPlace = CHOOSE k \in DOMAIN Nth : P(k)
    BY DEF LastPlace
  <2> HIDE DEF P
  <2> QED BY <1>4, <1>5, <2>1
<1>7. Len(c) \in 1..Len(c) /\ (Len(c) > 1 => Len(c) - 1 \in 1..Len(c))
  BY <1>1
<1> QED BY <1>1, <1>2, <1>6, <1>7

(* Where InsertInOrder stops. *)
LEMMA FirstStopIs ==
  ASSUME TypeOK, NEW c \in Seq(Nodes), Shape(c, 0), pc = "called", c # <<>>,
         NEW v \in Vals, v >= data[head]
  PROVE  /\ Stops(v) = {} => \A i \in 1..Len(c) : data[c[i]] <= v
         /\ Stops(v) # {} => LET k == FirstStop(v) IN
              /\ k \in 1..(Len(c) - 1) /\ Nth[k - 1] = c[k] /\ Nth[k] = c[k + 1]
              /\ data[c[k]] <= v /\ v <= data[c[k + 1]]
<1>1. /\ Len(c) \in Nat /\ Len(c) > 0 /\ Len(c) <= Cardinality(Nodes)
      /\ Cardinality(Nodes) \in Nat /\ \A i \in 1..Len(c) : c[i] \in Nodes
  BY Lengths DEF Shape, Owned
<1>2. /\ \A i \in 1..Len(c) : Nth[i - 1] = c[i]
      /\ \A k \in DOMAIN Nth : k >= Len(c) => Nth[k] = Null
      /\ DOMAIN Nth = 0..Cardinality(Nodes)
  BY NthOfChain, NthIs DEF Shape
<1>3. v \in Int /\ \A i \in 1..Len(c) : data[c[i]] \in Int
  BY LinkedListAssumption DEF Shape
<1>4. data[c[1]] <= v
  BY <1>1, <1>3 DEF Shape, Chained
<1>5. ASSUME NEW i \in 1..(Len(c) - 1)
      PROVE  /\ i \in 1..Len(c) /\ i + 1 \in 1..Len(c) /\ i \in DOMAIN Nth \ {0}
             /\ Nth[i - 1] = c[i] /\ Nth[i] = c[i + 1]
             /\ i \in Stops(v) <=> data[c[i + 1]] >= v
  <2>1. /\ i \in 1..Len(c) /\ i + 1 \in 1..Len(c) /\ (i + 1) - 1 = i
        /\ i \in DOMAIN Nth /\ i # 0
    BY <1>1, <1>2
  <2> QED BY <1>1, <1>2, <2>1 DEF Stops
<1>6. ASSUME NEW k \in Stops(v) PROVE k \in 1..(Len(c) - 1)
  <2>1. k \in DOMAIN Nth /\ k # 0 /\ Nth[k] \in Nodes
    BY DEF Stops
  <2> QED BY <1>1, <1>2, <2>1, LinkedListAssumption
<1>7. ASSUME NEW i \in 1..Len(c), i = 1 \/ i - 1 \notin Stops(v) PROVE data[c[i]] <= v
  <2>1. CASE i = 1
    BY <1>4, <2>1
  <2>2. CASE i # 1
    <3>1. i - 1 \in 1..(Len(c) - 1) /\ (i - 1) + 1 = i
      BY <1>1, <2>2
    <3>2. ~(data[c[i]] >= v)
      BY <1>5, <1>7, <2>2, <3>1
    <3> QED BY <1>3, <3>2
  <2> QED BY <2>1, <2>2
<1>8. ASSUME Stops(v) # {}
      PROVE  FirstStop(v) \in Stops(v) /\ FirstStop(v) - 1 \notin Stops(v)
  <2>1. Stops(v) \in SUBSET Nat
    BY <1>1, <1>6
  <2>2. \E k \in Stops(v) : \A i \in Stops(v) : k <= i
    BY <1>8, <2>1, MinOfNaturals
  <2>3. FirstStop(v) \in Stops(v) /\ \A i \in Stops(v) : FirstStop(v) <= i
    BY <2>2 DEF FirstStop
  <2> QED BY <2>1, <2>3
<1>9. ASSUME Stops(v) # {}, NEW k, k = FirstStop(v)
      PROVE  /\ k \in 1..(Len(c) - 1) /\ Nth[k - 1] = c[k] /\ Nth[k] = c[k + 1]
             /\ data[c[k]] <= v /\ v <= data[c[k + 1]]
  <2>1. k \in 1..(Len(c) - 1)
    BY <1>6, <1>8, <1>9
  <2>2. /\ k \in 1..Len(c) /\ k + 1 \in 1..Len(c) /\ Nth[k - 1] = c[k] /\ Nth[k] = c[k + 1]
        /\ data[c[k + 1]] >= v
    BY <1>5, <1>8, <1>9, <2>1
  <2> QED BY <1>3, <1>7, <1>8, <1>9, <2>1, <2>2
<1> QED BY <1>7, <1>9
-------------------------------------------------------------------------------
(* What a step of the writer keeps for the reader: the values that it is   *)
(* among are still there, behind o others; *)
LEMMA ReadingKept ==
  ASSUME NEW c \in Seq(Nodes), NEW d \in Seq(Nodes), NEW o \in Nat,
         TypeOK, Reading(c), UNCHANGED <<walk, cursor, history>>,
         pc' \notin {"rejoin", "cut"}, o + Len(c) <= Len(d),
         \A i \in 1..Len(c) : d[o + i] = c[i] /\ data'[c[i]] = data[c[i]]
  PROVE  Reading(d)'
<1>1. Len(c) \in Nat /\ Len(d) \in Nat /\ Len(start) \in Nat /\ Len(seen) \in Nat
  BY DEF TypeOK
<1>2. /\ walk' = walk /\ cursor' = cursor /\ start' = start /\ seen' = seen
      /\ disturbed' = disturbed
  BY DEF history
<1>3. ASSUME NEW j \in Nat, Amid(c, j) PROVE Amid(d, o + j)'
  <2>1. /\ j + Len(start) <= Len(c) /\ \A i \in 1..Len(start) : data[c[j + i]] = start[i]
        /\ Len(seen) < Len(start)
        /\ walk = "data" => cursor = c[j + Len(seen) + 1]
        /\ walk = "next" => Len(seen) > 0 /\ cursor = c[j + Len(seen)]
    BY <1>3 DEF Amid
  <2>2. o + j + Len(start) <= Len(d)
    BY <1>1, <2>1
  <2>3. \A i \in 1..Len(start) : data'[d[o + j + i]] = start[i]
    <3> TAKE i \in 1..Len(start)
    <3>1. j + i \in 1..Len(c) /\ o + (j + i) = o + j + i
      BY <1>1, <2>1
    <3> QED BY <2>1, <3>1
  <2>4. walk = "data" => cursor = d[o + j + Len(seen) + 1]
    <3>1. j + Len(seen) + 1 \in 1..Len(c) /\ o + (j + Len(seen) + 1) = o + j + Len(seen) + 1
      BY <1>1, <2>1
    <3> QED BY <2>1, <3>1
  <2>5. walk = "next" => Len(seen) > 0 /\ cursor = d[o + j + Len(seen)]
    <3> SUFFICES ASSUME walk = "next" PROVE Len(seen) > 0 /\ cursor = d[o + j + Len(seen)]
      OBVIOUS
    <3>1. j + Len(seen) \in 1..Len(c) /\ o + (j + Len(seen)) = o + j + Len(seen)
      BY <1>1, <2>1
    <3> QED BY <2>1, <3>1
  <2> QED BY <1>2, <1>3, <2>2, <2>3, <2>4, <2>5 DEF Amid
<1>4. \A j \in Nat : o + j \in Nat
  OBVIOUS
<1> QED BY <1>2, <1>3, <1>4 DEF Reading, ReadAll

(* or the reader is told that they may not be. *)
LEMMA ReadingDisturbed ==
  ASSUME NEW c, NEW d, Reading(c), UNCHANGED <<walk, cursor>>,
         \/ Disturb
         \/ pc \in {"rejoin", "cut"} /\ UNCHANGED history
  PROVE  Reading(d)'
<1>1. CASE Disturb
  <2>1. start' = <<>> /\ seen' = <<>> /\ disturbed' = (walk # "idle")
    BY <1>1 DEF Disturb
  <2>2. ReadAll'
    BY <2>1 DEF ReadAll
  <2> QED BY <2>1, <2>2 DEF Reading
<1>2. CASE pc \in {"rejoin", "cut"} /\ UNCHANGED history
  <2>1. /\ walk' = walk /\ cursor' = cursor /\ start' = start /\ seen' = seen
        /\ disturbed' = disturbed
    BY <1>2 DEF history
  <2>2. CASE disturbed
    BY <2>1, <2>2 DEF Reading
  <2>3. CASE walk = "idle"
    <3>1. seen = <<>> /\ start = <<>>
      BY <2>3 DEF Reading
    <3>2. ReadAll'
      BY <2>1, <3>1 DEF ReadAll
    <3> QED BY <2>1, <2>3, <3>2 DEF Reading
  <2> QED BY <1>2, <2>2, <2>3 DEF Reading
<1> QED BY <1>1, <1>2
-------------------------------------------------------------------------------
(* A step of the reader. *)
LEMMA ReaderStep ==
  ASSUME NEW c \in Seq(Nodes), NEW k \in Nat, Inv(c, k), Walk
  PROVE  Inv(c, k)' /\ Values(c)' = Values(c)
<1>1. UNCHANGED <<head, length, data, next, allocated, pc, call, node, rest, retval>>
  BY DEF Walk, list, heap, writer
<1>2. Shape(c, k)' /\ Values(c)' = Values(c)
  BY <1>1 DEF Inv, Shape, Chained, Owned, Halfway, Putting, Calling, Values
<1>3. Len(start) \in Nat /\ Len(seen) \in Nat /\ Len(c) \in Nat
  BY DEF Inv, TypeOK
<1>4. CASE StartWalk
  <2>1. walk = "idle" /\ walk' = "data" /\ cursor' = head /\ seen' = <<>> /\ crashed' = crashed
    BY <1>4 DEF StartWalk
  <2>2. disturbed' = (pc \in {"rejoin", "cut"}) /\ start' = IF disturbed' THEN <<>> ELSE Values(c)
    BY <1>4, ContentsIs DEF StartWalk, Inv, ContentsAre
  <2>3. Values(c) \in Seq(Vals) /\ Len(Values(c)) = Len(c)
    BY ValuesTyped DEF Inv
  <2>4. TypeOK'
    BY <1>1, <2>1, <2>2, <2>3 DEF Inv, TypeOK
  <2>5. CASE disturbed'
    BY <1>1, <1>2, <2>1, <2>4, <2>5 DEF Inv, Reading
  <2>6. CASE ~disturbed' /\ c = <<>>
    <3>1. ReadAll'
      BY <2>1, <2>2, <2>3, <2>6 DEF ReadAll
    <3> QED BY <1>1, <1>2, <2>1, <2>2, <2>4, <2>6, <3>1 DEF Inv, Reading
  <2>7. CASE ~disturbed' /\ c # <<>>
    <3>1. Len(start') = Len(c) /\ Len(c) > 0 /\ cursor' = c[1]
      BY <1>3, <2>1, <2>2, <2>3, <2>7 DEF Inv, Shape, Chained
    <3>2. \A i \in 1..Len(c) : start'[i] = data[c[i]]
      BY <2>2, <2>7 DEF Values
    <3>3. Amid(c, 0)'
      BY <1>1, <1>3, <2>1, <3>1, <3>2 DEF Amid
    <3> QED BY <1>1, <1>2, <2>1, <2>2, <2>4, <2>7, <3>3 DEF Inv, Reading
  <2> QED BY <2>2, <2>5, <2>6, <2>7
<1>5. CASE ReadData
  <2>1. /\ walk = "data" /\ cursor \in Nodes /\ walk' = "next" /\ cursor' = cursor
        /\ start' = start /\ disturbed' = disturbed /\ crashed' = crashed
        /\ seen' = IF disturbed THEN seen ELSE Append(seen, data[cursor])
    BY <1>5 DEF ReadData
  <2>2. data[cursor] \in Vals \cup {Wild} /\ seen \in Seq(Vals \cup {Wild})
    BY <2>1 DEF Inv, TypeOK
  <2>3. TypeOK'
    BY <1>1, <2>1, <2>2 DEF Inv, TypeOK
  <2>4. CASE disturbed
    BY <1>1, <1>2, <2>1, <2>3, <2>4 DEF Inv, Reading
  <2>5. CASE ~disturbed
    <3>1. /\ Len(seen') = Len(seen) + 1 /\ seen'[Len(seen) + 1] = data[cursor]
          /\ \A i \in 1..Len(seen) : seen'[i] = seen[i]
      BY <2>1, <2>2, <2>5
    <3>2. CASE ReadAll
      <4>1. ReadAll'
        BY <1>3, <2>1, <3>1, <3>2 DEF ReadAll
      <4> QED BY <1>1, <1>2, <2>1, <2>3, <2>5, <4>1 DEF Inv, Reading
    <3>3. ASSUME NEW j \in Nat, Amid(c, j) PROVE Reading(c)'
      <4>0. Len(seen) + 1 \in 1..Len(start) /\ j + (Len(seen) + 1) = j + Len(seen) + 1
        BY <1>3, <3>3 DEF Amid
      <4>1. cursor = c[j + (Len(seen) + 1)] /\ data[cursor] = start[Len(seen) + 1]
        BY <2>1, <3>3, <4>0 DEF Amid
      <4>2. ASSUME NEW i \in 1..Len(seen') PROVE seen'[i] = start[i]
        <5>1. i \in 1..Len(seen) \/ i = Len(seen) + 1
          BY <1>3, <3>1
        <5> QED BY <3>1, <3>3, <4>1, <5>1 DEF Amid
      <4>3. CASE Len(seen') = Len(start)
        <5>1. ReadAll'
          BY <1>3, <2>1, <4>2, <4>3 DEF ReadAll
        <5> QED BY <1>1, <2>1, <2>5, <5>1 DEF Inv, Reading
      <4>4. CASE Len(seen') # Len(start)
        <5>1. Len(seen') < Len(start) /\ Len(seen') > 0 /\ cursor' = c[j + Len(seen')]
          BY <1>3, <2>1, <3>1, <4>0, <4>1, <4>4
        <5>2. Amid(c, j)'
          BY <1>1, <2>1, <3>3, <4>2, <5>1 DEF Amid
        <5> QED BY <1>1, <2>1, <2>5, <5>2 DEF Inv, Reading
      <4> QED BY <4>3, <4>4
    <3> QED BY <1>2, <2>3, <2>5, <3>2, <3>3 DEF Inv, Reading
  <2> QED BY <2>4, <2>5
<1>6. CASE ReadNext
  <2>1. /\ walk = "next" /\ walk' = "data" /\ cursor' = next[cursor] /\ seen' = seen
        /\ start' = start /\ disturbed' = disturbed /\ crashed' = crashed
    BY <1>6 DEF ReadNext
  <2>2. cursor \in Nodes /\ cursor' \in Pointers
    BY <2>1 DEF Inv, Reading, TypeOK
  <2>3. TypeOK'
    BY <1>1, <2>1, <2>2 DEF Inv, TypeOK
  <2>4. CASE disturbed \/ ReadAll
    <3>1. disturbed' \/ ReadAll'
      BY <2>1, <2>4 DEF ReadAll
    <3> QED BY <1>1, <1>2, <2>1, <2>3, <3>1 DEF Inv, Reading
  <2>5. ASSUME ~disturbed, NEW j \in Nat, Amid(c, j) PROVE Inv(c, k)'
    <3>1. /\ j + Len(seen) \in 1..(Len(c) - 1) /\ cursor = c[j + Len(seen)]
          /\ (j + Len(seen)) + 1 = j + Len(seen) + 1
      BY <1>3, <2>1, <2>5 DEF Amid
    <3>2. k = 0
      BY <2>1, <2>5 DEF Inv, Reading, Shape, Halfway
    <3>3. cursor' = c[j + Len(seen) + 1]
      <4>1. next[c[j + Len(seen)]] = c[(j + Len(seen)) + 1]
        BY <1>3, <3>1, <3>2 DEF Inv, Shape, Chained
      <4> QED BY <2>1, <3>1, <4>1
    <3>4. Amid(c, j)'
      BY <1>1, <2>1, <2>5, <3>3 DEF Amid
    <3> QED BY <1>1, <1>2, <2>1, <2>3, <2>5, <3>4 DEF Inv, Reading
  <2> QED BY <1>2, <2>4, <2>5 DEF Inv, Reading
<1>7. CASE FollowWild
  <2>1. UNCHANGED <<walk, cursor, start, seen, disturbed>> /\ crashed' = TRUE
    BY <1>7 DEF FollowWild, history
  <2>2. TypeOK'
    BY <1>1, <2>1 DEF Inv, TypeOK
  <2>3. Reading(c)'
    <3>1. (ReadAll' <=> ReadAll) /\ \A j \in Nat : Amid(c, j)' <=> Amid(c, j)
      BY <1>1, <2>1 DEF ReadAll, Amid
    <3> QED BY <1>1, <2>1, <3>1 DEF Inv, Reading
  <2> QED BY <1>2, <2>2, <2>3 DEF Inv
<1>8. CASE EndWalk
  <2>1. /\ walk' = "idle" /\ cursor' = Null /\ seen' = <<>> /\ start' = <<>>
        /\ disturbed' = FALSE /\ crashed' = crashed
    BY <1>8 DEF EndWalk
  <2>2. TypeOK'
    <3>1. cursor' \in Pointers /\ start' \in Seq(Vals) /\ seen' \in Seq(Vals \cup {Wild})
      BY <2>1 DEF Pointers
    <3> QED BY <1>1, <2>1, <3>1 DEF Inv, TypeOK
  <2>3. ReadAll'
    BY <2>1 DEF ReadAll
  <2> QED BY <1>2, <2>1, <2>2, <2>3 DEF Inv, Reading
<1> QED BY <1>2, <1>4, <1>5, <1>6, <1>7, <1>8 DEF Walk
-------------------------------------------------------------------------------
LEMMA CallArgs ==
  ASSUME call \in Calls
  PROVE  /\ call.op \in Inserts => call.arg \in Vals \cup {NoVal}
         /\ call.op = "removeByIndex" => call.arg \in Int
         /\ call.op \in Inserts \cup Removes \cup {"removeByIndex"} /\ call # NoCall
BY LinkedListAssumption, NoCallAssumption DEF Calls

(* The list when a call has begun. *)
LEMMA AtCall ==
  ASSUME NEW c \in Seq(Nodes), NEW k \in Nat, Inv(c, k), pc = "called"
  PROVE  /\ k = 0 /\ Distinct(c) /\ length = Len(c) /\ allocated = Range(c)
         /\ head = IF length = 0 THEN Null ELSE c[1]
         /\ \A i \in 1..(Len(c) - 1) : next[c[i]] = c[i + 1]
         /\ length # 0 => next[c[Len(c)]] = Null
         /\ call \in Calls
         /\ Putting(Inserts) => allocated # Nodes
         /\ Len(c) \in Nat /\ (c = <<>> <=> length = 0)
<1>1. k = 0 /\ Distinct(c) /\ length = Len(c) /\ allocated = Range(c) /\ call \in Calls
  BY DEF Inv, Shape, Owned, Halfway
<1>2. /\ head = IF c = <<>> THEN Null ELSE c[1]
      /\ \A i \in 1..(Len(c) - 1) : next[c[i]] = c[i + 1]
      /\ c # <<>> => next[c[Len(c)]] = Null
      /\ Putting(Inserts) => allocated # Nodes
  <2>1. Chained(c, 0) /\ Halfway(c, 0)
    BY <1>1 DEF Inv, Shape
  <2>2. \A i \in 1..(Len(c) - 1) : i # 0
    OBVIOUS
  <2> QED BY <2>1, <2>2 DEF Chained, Halfway
<1>3. Len(c) \in Nat /\ (c = <<>> <=> Len(c) = 0)
  BY <1>1, Lengths
<1> QED BY <1>1, <1>2, <1>3

(* Steps that leave the list as it is, for whoever counts its nodes. *)
Quiet(c) == \E m \in Nat : Inv(c, m)' /\ Values(c)' = Values(c)

LEMMA CallStep ==
  ASSUME NEW c \in Seq(Nodes), NEW k \in Nat, Inv(c, k), UNCHANGED <<walk, cursor>>,
         MakeCall \/ InsertNothing \/ RemoveNothing \/ RemoveByIndexNegative
  PROVE  Quiet(c) /\ UNCHANGED <<list, heap, history>>
<1>1. UNCHANGED <<head, length, data, next, allocated, start, seen, disturbed>>
  BY DEF MakeCall, InsertNothing, RemoveNothing, RemoveByIndexNegative, list, heap, history
<1>2. /\ pc \in {"idle", "called"} /\ pc' \in {"idle", "called"}
      /\ IF pc' = "idle" THEN call' = NoCall ELSE call' \in Calls
      /\ Putting(Inserts)' => allocated' # Nodes
      /\ TypeOK'
  <2>1. CASE MakeCall
    BY <1>1, <2>1 DEF MakeCall, Inv, TypeOK, Putting, Calling
  <2>2. CASE InsertNothing
    BY <1>1, <2>2 DEF InsertNothing, Calling, Return, Inv, TypeOK, Putting
  <2>3. CASE RemoveNothing
    BY <1>1, <2>3 DEF RemoveNothing, Calling, Return, Inv, TypeOK, Putting
  <2>4. CASE RemoveByIndexNegative
    <3>1. UNCHANGED <<pc, call, node, rest, retval>> /\ pc = "called" /\ crashed' = TRUE
      BY <2>4 DEF RemoveByIndexNegative, Calling, writer
    <3>2. call \in Calls /\ (Putting(Inserts) => allocated # Nodes)
      BY <3>1, AtCall
    <3> QED BY <1>1, <3>1, <3>2 DEF Inv, TypeOK, Putting, Calling
  <2> QED BY <2>1, <2>2, <2>3, <2>4
<1>3. k = 0 /\ \A i \in 1..(Len(c) - 1) : i # 0
  BY <1>2 DEF Inv, Shape, Halfway
<1>4. Chained(c, 0)' /\ Owned(c)' /\ Values(c)' = Values(c)
  BY <1>1, <1>2, <1>3 DEF Inv, Shape, Chained, Owned, Values
<1>5. Halfway(c, 0)'
  BY <1>2 DEF Halfway
<1>6. Reading(c)'
  <2>1. 0 + Len(c) <= Len(c) /\ \A i \in 1..Len(c) : c[0 + i] = c[i] /\ data'[c[i]] = data[c[i]]
    BY <1>1
  <2>2. UNCHANGED <<walk, cursor, history>> /\ pc' \notin {"rejoin", "cut"} /\ 0 \in Nat
    BY <1>1, <1>2 DEF history
  <2> QED BY <2>1, <2>2, ReadingKept DEF Inv
<1>7. Inv(c, 0)'
  BY <1>1, <1>2, <1>4, <1>5, <1>6 DEF Inv, Shape
<1> QED BY <1>1, <1>4, <1>7 DEF Quiet, list, heap, history

LEMMA TailLinkStep ==
  ASSUME NEW c \in Seq(Nodes), NEW k \in Nat, Inv(c, k), UNCHANGED <<walk, cursor>>, TailLink
  PROVE  Quiet(c)
<1>1. /\ pc = "called" /\ call.op = "InsertAtTail" /\ "InsertAtTail" \in {"InsertAtTail"}
      /\ call.arg # NoVal /\ length # 0 /\ Putting({"InsertAtTail"})
  BY DEF TailLink, Putting, Calling
<1>2. PICK n \in Nodes :
        /\ n \notin allocated /\ allocated' = allocated \cup {n}
        /\ next' = [next EXCEPT ![Nth[LastPlace]] = n]
        /\ pc' = "tailData" /\ node' = n /\ rest' = Null /\ call' = call
  BY DEF TailLink, Malloc, Continue
<1>3. UNCHANGED <<head, length, data, retval, start, seen, disturbed, crashed>>
  BY DEF TailLink, list, history
<1>4. /\ k = 0 /\ Distinct(c) /\ length = Len(c) /\ allocated = Range(c)
      /\ head = IF length = 0 THEN Null ELSE c[1]
      /\ \A i \in 1..(Len(c) - 1) : next[c[i]] = c[i + 1]
      /\ call \in Calls /\ Len(c) \in Nat /\ c # <<>>
  BY <1>1, AtCall
<1>5. \A i \in 1..Len(c) : c[i] \in Nodes
  BY <1>4, Lengths
<1>6. next' = [next EXCEPT ![c[Len(c)]] = n] /\ next \in [Nodes -> Pointers]
  BY <1>1, <1>2, <1>4, LastPlaceIs DEF Inv, TypeOK
<1>7. call.arg \in Vals
  <2>1. "InsertAtTail" \notin Removes
    BY LinkedListAssumption
  <2> QED BY <1>1, <1>4, <2>1, CallArgs
<1>8. Len(c) \in 1..Len(c) /\ \A i \in 1..(Len(c) - 1) : i \in 1..Len(c) /\ i # Len(c) /\ i # 0
  BY <1>1, <1>4
<1>9. next'[c[Len(c)]] = n /\ \A i \in 1..(Len(c) - 1) : next'[c[i]] = c[i + 1]
  BY <1>4, <1>5, <1>6, <1>8 DEF Distinct
<1>10. TypeOK'
  <2>1. n \in Pointers
    BY DEF Pointers
  <2>2. next' \in [Nodes -> Pointers]
    BY <1>5, <1>6, <1>8, <2>1
  <2> QED BY <1>2, <1>3, <2>2 DEF Inv, TypeOK
<1>11. Chained(c, 0)'
  BY <1>1, <1>2, <1>3, <1>4, <1>8, <1>9 DEF Chained
<1>12. Owned(c)' /\ Halfway(c, 0)'
  BY <1>1, <1>2, <1>3, <1>4, <1>7 DEF Owned, Halfway, Putting, Calling
<1>13. Reading(c)'
  <2>1. 0 + Len(c) <= Len(c) /\ \A i \in 1..Len(c) : c[0 + i] = c[i] /\ data'[c[i]] = data[c[i]]
    BY <1>3, <1>4
  <2>2. UNCHANGED <<walk, cursor, history>> /\ pc' \notin {"rejoin", "cut"} /\ 0 \in Nat
    BY <1>2, <1>3 DEF history
  <2> QED BY <2>1, <2>2, ReadingKept DEF Inv
<1>14. Values(c)' = Values(c)
  BY <1>3 DEF Values
<1>15. Inv(c, 0)'
  BY <1>3, <1>10, <1>11, <1>12, <1>13 DEF Inv, Shape
<1> QED BY <1>14, <1>15 DEF Quiet

LEMMA TailDataStep ==
  ASSUME NEW c \in Seq(Nodes), NEW k \in Nat, Inv(c, k), UNCHANGED <<walk, cursor>>, TailData
  PROVE  Quiet(c)
<1>1. /\ pc = "tailData" /\ pc' = "tailNext" /\ node' = node /\ rest' = Null /\ call' = call
      /\ data' = [data EXCEPT ![node] = call.arg]
      /\ UNCHANGED <<head, length, next, allocated, retval, start, seen, disturbed, crashed>>
  BY DEF TailData, Continue, list, history
<1>2. /\ k = 0 /\ c # <<>> /\ call.op = "InsertAtTail" /\ call.arg \in Vals /\ call \in Calls
      /\ node \in Nodes \ Range(c) /\ Distinct(c) /\ data \in [Nodes -> Vals \cup {Wild}]
  BY <1>1 DEF Inv, Shape, Halfway, Owned, TypeOK
<1>3. \A i \in 1..Len(c) : data'[c[i]] = data[c[i]]
  BY <1>1, <1>2, Lengths
<1>4. TypeOK'
  BY <1>1, <1>2 DEF Inv, TypeOK
<1>5. Chained(c, 0)'
  BY <1>1, <1>2 DEF Inv, Shape, Chained
<1>6. Owned(c)'
  BY <1>1, <1>2 DEF Inv, Shape, Owned
<1>7. Halfway(c, 0)'
  BY <1>1, <1>2 DEF Halfway, Putting, Calling
<1>8. Reading(c)'
  <2>1. 0 + Len(c) <= Len(c) /\ \A i \in 1..Len(c) : c[0 + i] = c[i] /\ data'[c[i]] = data[c[i]]
    BY <1>3
  <2>2. UNCHANGED <<walk, cursor, history>> /\ pc' \notin {"rejoin", "cut"} /\ 0 \in Nat
    BY <1>1 DEF history
  <2> QED BY <2>1, <2>2, ReadingKept DEF Inv
<1>9. Values(c)' = Values(c)
  BY <1>3 DEF Values
<1>10. Inv(c, 0)'
  BY <1>3, <1>4, <1>5, <1>6, <1>7, <1>8 DEF Inv, Shape
<1> QED BY <1>9, <1>10 DEF Quiet

LEMMA MiddleStep ==
  ASSUME NEW c \in Seq(Nodes), NEW k \in Nat, Inv(c, k), UNCHANGED <<walk, cursor>>,
         InsertInOrderMiddle
  PROVE  Quiet(c)
<1>1. /\ pc = "called" /\ call.op = "InsertInOrder" /\ call.arg # NoVal /\ length # 0
      /\ call.arg >= data[head] /\ Stops(call.arg) # {} /\ Disturb
      /\ UNCHANGED <<head, length, retval, crashed>>
  BY DEF InsertInOrderMiddle, Putting, Calling, list
<1>2. /\ k = 0 /\ Distinct(c) /\ length = Len(c) /\ allocated = Range(c)
      /\ head = IF length = 0 THEN Null ELSE c[1]
      /\ \A i \in 1..(Len(c) - 1) : next[c[i]] = c[i + 1]
      /\ next[c[Len(c)]] = Null
      /\ call \in Calls /\ Len(c) \in Nat /\ c # <<>>
  BY <1>1, AtCall
<1>3. call.arg \in Vals
  <2>1. "InsertInOrder" \notin Removes
    BY LinkedListAssumption
  <2> QED BY <1>1, <1>2, <2>1, CallArgs
<1>4. PICK m : m = FirstStop(call.arg)
  OBVIOUS
<1>5. /\ m \in 1..(Len(c) - 1) /\ Nth[m - 1] = c[m] /\ Nth[m] = c[m + 1]
      /\ data[c[m]] <= call.arg /\ call.arg <= data[c[m + 1]]
  BY <1>1, <1>2, <1>3, <1>4, FirstStopIs DEF Inv
<1>6. PICK n \in Nodes :
        /\ n \notin allocated /\ allocated' = allocated \cup {n}
        /\ data' = [data EXCEPT ![n] = call.arg]
        /\ next' = [next EXCEPT ![n] = Null, ![c[m]] = n]
        /\ pc' = "rejoin" /\ node' = n /\ rest' = c[m + 1] /\ call' = call
  BY <1>4, <1>5 DEF InsertInOrderMiddle, Fill, Malloc, Continue
<1>7. \A i \in 1..Len(c) : c[i] \in Nodes /\ c[i] # n
  BY <1>2, <1>6, Lengths
<1>8. /\ data \in [Nodes -> Vals \cup {Wild}] /\ next \in [Nodes -> Pointers]
      /\ n \in Pointers /\ Null \in Pointers
  BY DEF Inv, TypeOK, Pointers
<1>9. /\ m \in Nat /\ m \in 1..Len(c) /\ m + 1 \in 1..Len(c)
      /\ Len(c) \in 1..Len(c) /\ Len(c) # m
      /\ \A i \in 1..(Len(c) - 1) : i \in 1..Len(c)
  BY <1>2, <1>5
<1>10. /\ \A i \in 1..(Len(c) - 1) : next'[c[i]] = IF i = m THEN n ELSE c[i + 1]
       /\ next'[c[Len(c)]] = Null /\ next'[n] = Null
  <2>1. next'[n] = Null /\ next'[c[m]] = n
    BY <1>6, <1>7, <1>8, <1>9
  <2>2. ASSUME NEW i \in 1..Len(c), i # m PROVE next'[c[i]] = next[c[i]]
    <3>1. c[i] # c[m] /\ c[i] # n /\ c[i] \in Nodes
      BY <1>2, <1>7, <1>9, <2>2 DEF Distinct
    <3> QED BY <1>6, <1>8, <3>1
  <2> QED BY <1>2, <1>9, <2>1, <2>2
<1>11. \A i \in 1..Len(c) : data'[c[i]] = data[c[i]]
  BY <1>6, <1>7, <1>8
<1>12. TypeOK'
  <2>1. /\ data' \in [Nodes -> Vals \cup {Wild}] /\ next' \in [Nodes -> Pointers]
        /\ rest' \in Nodes
    BY <1>3, <1>6, <1>7, <1>8, <1>9
  <2>2. start' = <<>> /\ seen' = <<>> /\ disturbed' \in BOOLEAN
    BY <1>1 DEF Disturb
  <2> QED BY <1>1, <1>6, <2>1, <2>2 DEF Inv, TypeOK
<1>13. Chained(c, m)'
  BY <1>1, <1>2, <1>6, <1>10 DEF Chained
<1>14. Owned(c)'
  BY <1>1, <1>2, <1>6 DEF Owned
<1>15. Halfway(c, m)'
  <2>1. data'[n] = call.arg /\ data'[c[m]] <= call.arg /\ call.arg <= data'[c[m + 1]]
    BY <1>5, <1>6, <1>8, <1>9, <1>11
  <2> QED BY <1>1, <1>2, <1>3, <1>5, <1>6, <1>10, <2>1 DEF Halfway, Putting, Calling
<1>16. Reading(c)'
  BY <1>1, ReadingDisturbed DEF Inv
<1>17. Values(c)' = Values(c)
  BY <1>11 DEF Values
<1>18. Inv(c, m)'
  BY <1>9, <1>11, <1>12, <1>13, <1>14, <1>15, <1>16 DEF Inv, Shape
<1> QED BY <1>9, <1>17, <1>18 DEF Quiet

LEMMA FreeStep ==
  ASSUME NEW c \in Seq(Nodes), NEW k \in Nat, Inv(c, k), UNCHANGED <<walk, cursor>>, FreeUnlinked
  PROVE  Quiet(c)
<1>1. /\ pc = "free" /\ pc' = "idle" /\ node' = Null /\ rest' = Null /\ call' = NoCall
      /\ UNCHANGED <<head, length, retval, start, seen, disturbed, crashed>>
      /\ allocated' = allocated \ {node}
  BY DEF FreeUnlinked, Free, Return, list, history
<1>2. /\ node \in Nodes \ Range(c) /\ allocated = Range(c) \cup {node} /\ Distinct(c) /\ k = 0
      /\ data \in [Nodes -> Vals \cup {Wild}] /\ next \in [Nodes -> Pointers]
      /\ length = Len(c)
  BY <1>1 DEF Inv, Shape, Owned, Halfway, TypeOK
<1>3. /\ data' \in [Nodes -> Vals \cup {Wild}] /\ next' \in [Nodes -> Pointers]
      /\ \A n \in Nodes \ {node} : data'[n] = data[n] /\ next'[n] = next[n]
  <2>1. CASE UNCHANGED <<data, next>>
    BY <1>2, <2>1
  <2>2. ASSUME data' = [data EXCEPT ![node] = Wild], NEW p \in {Null, Wild},
               next' = [next EXCEPT ![node] = p]
        PROVE  /\ data' \in [Nodes -> Vals \cup {Wild}] /\ next' \in [Nodes -> Pointers]
               /\ \A n \in Nodes \ {node} : data'[n] = data[n] /\ next'[n] = next[n]
    <3>1. p \in Pointers
      BY DEF Pointers
    <3> QED BY <1>2, <2>2, <3>1
  <2> QED BY <2>1, <2>2 DEF FreeUnlinked, Free
<1>4. \A i \in 1..Len(c) : c[i] \in Nodes \ {node} /\ data'[c[i]] = data[c[i]] /\ next'[c[i]] = next[c[i]]
  BY <1>2, <1>3, Lengths
<1>5. TypeOK'
  BY <1>1, <1>3 DEF Inv, TypeOK
<1>6. Chained(c, 0)'
  <2>1. /\ Len(c) \in Nat /\ (c # <<>> => Len(c) \in 1..Len(c))
        /\ \A i \in 1..(Len(c) - 1) : i \in 1..Len(c)
    BY <1>2, Lengths
  <2> QED BY <1>1, <1>2, <1>4, <2>1 DEF Inv, Shape, Chained
<1>7. Owned(c)'
  BY <1>1, <1>2 DEF Owned
<1>8. Halfway(c, 0)'
  BY <1>1 DEF Halfway, Putting, Calling
<1>9. Reading(c)'
  <2>1. 0 + Len(c) <= Len(c) /\ \A i \in 1..Len(c) : c[0 + i] = c[i] /\ data'[c[i]] = data[c[i]]
    BY <1>4
  <2>2. UNCHANGED <<walk, cursor, history>> /\ pc' \notin {"rejoin", "cut"} /\ 0 \in Nat
    BY <1>1 DEF history
  <2> QED BY <2>1, <2>2, ReadingKept DEF Inv
<1>10. Values(c)' = Values(c)
  BY <1>4 DEF Values
<1>11. Inv(c, 0)'
  BY <1>4, <1>5, <1>6, <1>7, <1>8, <1>9 DEF Inv, Shape
<1> QED BY <1>10, <1>11 DEF Quiet

LEMMA CutStep ==
  ASSUME NEW c \in Seq(Nodes), NEW k \in Nat, Inv(c, k), UNCHANGED <<walk, cursor>>, Cut
  PROVE  Quiet(c)
<1>1. /\ pc = "cut" /\ pc' = "idle" /\ node' = Null /\ rest' = Null /\ call' = NoCall
      /\ next' = [next EXCEPT ![node] = Null] /\ length' = length - 1
      /\ UNCHANGED <<head, data, allocated, retval, start, seen, disturbed, crashed>>
  BY DEF Cut, Return, history
<1>2. /\ allocated = Range(c) /\ Distinct(c) /\ k = 0 /\ length = Len(c) + 1
      /\ next \in [Nodes -> Pointers] /\ c # <<>> /\ node = c[Len(c)]
  BY <1>1 DEF Inv, Shape, Owned, Halfway, TypeOK
<1>3. /\ Len(c) \in Nat /\ Len(c) \in 1..Len(c) /\ Len(c) <= Cardinality(Nodes)
      /\ Cardinality(Nodes) \in Nat
      /\ \A i \in 1..(Len(c) - 1) : i \in 1..Len(c) /\ i # Len(c) /\ i # 0
      /\ \A i \in 1..Len(c) : c[i] \in Nodes
  BY <1>2, Lengths
<1>4. next'[c[Len(c)]] = Null /\ \A i \in 1..(Len(c) - 1) : next'[c[i]] = next[c[i]]
  BY <1>1, <1>2, <1>3 DEF Distinct
<1>5. TypeOK'
  <2>1. Null \in Pointers
    BY DEF Pointers
  <2>2. next' \in [Nodes -> Pointers] /\ length' \in 0..Cardinality(Nodes)
    BY <1>1, <1>2, <1>3, <2>1
  <2> QED BY <1>1, <2>2 DEF Inv, TypeOK
<1>6. Chained(c, 0)'
  BY <1>1, <1>2, <1>3, <1>4 DEF Inv, Shape, Chained
<1>7. Owned(c)' /\ Halfway(c, 0)'
  BY <1>1, <1>2, <1>3 DEF Owned, Halfway, Putting, Calling
<1>8. Reading(c)'
  BY <1>1, ReadingDisturbed DEF Inv, history
<1>9. Inv(c, 0)'
  BY <1>1, <1>5, <1>6, <1>7, <1>8 DEF Inv, Shape
<1>10. Values(c)' = Values(c)
  BY <1>1 DEF Values
<1> QED BY <1>9, <1>10 DEF Quiet
-------------------------------------------------------------------------------
(* The values of the nodes go in and out as the nodes do. *)
LEMMA ValuesPut ==
  ASSUME NEW c \in Seq(Nodes), NEW k, Shape(c, k), NEW n \in Nodes \ Range(c),
         NEW i \in 1..(Len(c) + 1), NEW d, d = InsertAt(c, i, n),
         NEW v \in Vals, data'[n] = v, \A j \in 1..Len(c) : data'[c[j]] = data[c[j]]
  PROVE  Values(d)' = InsertAt(Values(c), i, v)
<1> DEFINE s == Values(c)
<1>1. s \in Seq(Vals) /\ Len(s) = Len(c) /\ Len(c) \in Nat /\ i \in Nat
  BY ValuesTyped
<1>2. \A j \in 1..Len(c) : s[j] = data[c[j]]
  BY DEF Values
<1> HIDE DEF s
<1>3. /\ d \in Seq(Nodes) /\ Len(d) = Len(c) + 1
      /\ \A j \in 1..(Len(c) + 1) :
           d[j] = IF j < i THEN c[j] ELSE IF j = i THEN n ELSE c[j - 1]
  <2>1. Distinct(c)
    BY DEF Shape, Owned
  <2>2. With(c, i, n, d)
    BY <2>1, NodePut
  <2> QED BY <2>2 DEF With
<1>4. i \in 1..(Len(s) + 1)
  BY <1>1
<1>5. InsertAt(s, i, v) \in Seq(Vals) /\ Len(InsertAt(s, i, v)) = Len(c) + 1
  BY <1>1, <1>4, InsertAtPuts
<1>6. \A j \in 1..(Len(s) + 1) :
        InsertAt(s, i, v)[j] = IF j < i THEN s[j] ELSE IF j = i THEN v ELSE s[j - 1]
  BY <1>1, <1>4, InsertAtPuts
<1>7. ASSUME NEW j \in 1..(Len(c) + 1) PROVE data'[d[j]] = InsertAt(s, i, v)[j]
  <2>0. j \in 1..(Len(s) + 1)
    BY <1>1
  <2>1. CASE j < i
    <3>1. j \in 1..Len(c)
      BY <1>1, <2>1
    <3> QED BY <1>2, <1>3, <1>6, <2>0, <2>1, <3>1
  <2>2. CASE j = i
    <3>1. ~(j < i)
      BY <1>1, <2>2
    <3>2. d[j] = n /\ InsertAt(s, i, v)[j] = v
      BY <1>3, <1>6, <2>0, <2>2, <3>1
    <3> QED BY <3>2
  <2>3. CASE j > i
    <3>1. j - 1 \in 1..Len(c) /\ ~(j < i) /\ j # i
      BY <1>1, <2>3
    <3>2. d[j] = c[j - 1] /\ InsertAt(s, i, v)[j] = s[j - 1]
      BY <1>3, <1>6, <2>0, <3>1
    <3> QED BY <1>2, <3>1, <3>2
  <2> QED BY <1>1, <2>1, <2>2, <2>3
<1>8. Values(d)' = [j \in 1..(Len(c) + 1) |-> data'[d[j]]]
  BY <1>3 DEF Values
<1>9. InsertAt(s, i, v) = [j \in 1..(Len(c) + 1) |-> InsertAt(s, i, v)[j]]
  BY <1>5
<1>10. Values(d)' = InsertAt(s, i, v)
  BY <1>7, <1>8, <1>9
<1> QED BY <1>10 DEF s

LEMMA ValuesOut ==
  ASSUME NEW c \in Seq(Nodes), NEW k, Shape(c, k), NEW i \in 1..Len(c),
         NEW d, d = RemoveAt(c, i),
         \A j \in 1..Len(c) : j # i => data'[c[j]] = data[c[j]]
  PROVE  Values(d)' = RemoveAt(Values(c), i)
<1> DEFINE s == Values(c)
<1>1. s \in Seq(Vals) /\ Len(s) = Len(c) /\ Len(c) \in Nat /\ i \in Nat
  BY ValuesTyped
<1>2. \A j \in 1..Len(c) : s[j] = data[c[j]]
  BY DEF Values
<1> HIDE DEF s
<1>3. /\ d \in Seq(Nodes) /\ Len(d) = Len(c) - 1
      /\ \A j \in 1..(Len(c) - 1) : d[j] = IF j < i THEN c[j] ELSE c[j + 1]
  <2>1. Distinct(c)
    BY DEF Shape, Owned
  <2>2. Without(c, i, d)
    BY <2>1, NodeOut
  <2> QED BY <2>2 DEF Without
<1>4. i \in 1..Len(s)
  BY <1>1
<1>5. RemoveAt(s, i) \in Seq(Vals) /\ Len(RemoveAt(s, i)) = Len(c) - 1
  BY <1>1, <1>4, RemoveAtDrops
<1>6. \A j \in 1..(Len(s) - 1) : RemoveAt(s, i)[j] = IF j < i THEN s[j] ELSE s[j + 1]
  BY <1>1, <1>4, RemoveAtDrops
<1>7. ASSUME NEW j \in 1..(Len(c) - 1) PROVE data'[d[j]] = RemoveAt(s, i)[j]
  <2>1. /\ j \in 1..Len(c) /\ j + 1 \in 1..Len(c)
        /\ (j < i => j # i) /\ (~(j < i) => j + 1 # i)
    BY <1>1
  <2> QED BY <1>1, <1>2, <1>3, <1>6, <2>1
<1>8. Values(d)' = [j \in 1..(Len(c) - 1) |-> data'[d[j]]]
  BY <1>3 DEF Values
<1>9. RemoveAt(s, i) = [j \in 1..(Len(c) - 1) |-> RemoveAt(s, i)[j]]
  BY <1>5
<1>10. Values(d)' = RemoveAt(s, i)
  BY <1>7, <1>8, <1>9
<1> QED BY <1>10 DEF s
-------------------------------------------------------------------------------
(* Steps that put v at i, at the end of a call. *)
Grows(c, i, v) ==
  /\ \E d \in Seq(Nodes) : Inv(d, 0)' /\ Values(d)' = InsertAt(Values(c), i, v)
  /\ pc' = "idle" /\ call' = NoCall /\ retval' = retval

LEMMA Growing ==
  ASSUME NEW c \in Seq(Nodes), NEW k \in Nat, Inv(c, k), length = Len(c),
         NEW n \in Nodes \ Range(c), NEW i \in 1..(Len(c) + 1), NEW d, d = InsertAt(c, i, n),
         Return, length' = length + 1, allocated' = Range(c) \cup {n}, head' = d[1],
         data' \in [Nodes -> Vals \cup {Wild}], next' \in [Nodes -> Pointers],
         NEW v \in Vals, data'[n] = v, \A j \in 1..Len(c) : data'[c[j]] = data[c[j]],
         \A j \in 1..Len(c) : next'[d[j]] = d[j + 1], next'[d[Len(c) + 1]] = Null,
         UNCHANGED <<retval, history, crashed, walk, cursor>>, Reading(d)'
  PROVE  Grows(c, i, v)
<1>1. /\ Distinct(c) /\ Shape(c, k) /\ Len(c) \in Nat
      /\ \A j \in 1..Len(c) : data[c[j]] \in Vals
  BY DEF Inv, Shape, Owned
<1>2. /\ d \in Seq(Nodes) /\ Len(d) = Len(c) + 1 /\ Distinct(d)
      /\ Range(d) = Range(c) \cup {n}
      /\ \A j \in 1..(Len(c) + 1) :
           d[j] = IF j < i THEN c[j] ELSE IF j = i THEN n ELSE c[j - 1]
  <2>1. Distinct(c)
    BY <1>1
  <2>2. With(c, i, n, d)
    BY <2>1, NodePut
  <2> QED BY <2>2 DEF With
<1>3. /\ pc' = "idle" /\ call' = NoCall /\ node' = Null /\ rest' = Null
      /\ UNCHANGED <<retval, start, seen, disturbed, crashed, walk, cursor>>
  BY DEF Return, history
<1>4. Len(d) \in Nat /\ Len(d) <= Cardinality(Nodes) /\ Cardinality(Nodes) \in Nat /\ d # <<>>
      /\ Range(d) \subseteq Nodes
  BY <1>1, <1>2, Lengths
<1>5. TypeOK'
  <2>1. length' \in 0..Cardinality(Nodes) /\ allocated' \subseteq Nodes
    BY <1>2, <1>4
  <2>2. head' \in Pointers
    <3>1. 1 \in 1..Len(d)
      BY <1>1, <1>2
    <3> QED BY <1>2, <3>1 DEF Pointers
  <2> QED BY <1>3, <2>1, <2>2 DEF Inv, TypeOK
<1>6. Chained(d, 0)'
  BY <1>1, <1>2, <1>3, <1>4 DEF Chained
<1>7. Owned(d)' /\ Halfway(d, 0)'
  BY <1>1, <1>2, <1>3 DEF Owned, Halfway, Putting, Calling
<1>8. ASSUME NEW j \in 1..Len(d) PROVE data'[d[j]] \in Vals
  <2>0. j \in 1..(Len(c) + 1) /\ j \in Nat /\ i \in Nat
    BY <1>2
  <2>1. (j < i => j \in 1..Len(c)) /\ (~(j < i) /\ j # i => j - 1 \in 1..Len(c))
    BY <1>1, <2>0
  <2> QED BY <1>1, <1>2, <2>0, <2>1
<1>9. Inv(d, 0)'
  BY <1>2, <1>5, <1>6, <1>7, <1>8 DEF Inv, Shape
<1>10. Values(d)' = InsertAt(Values(c), i, v)
  BY <1>1, ValuesPut
<1> QED BY <1>2, <1>3, <1>9, <1>10 DEF Grows

LEMMA LinkFirstStep ==
  ASSUME NEW c \in Seq(Nodes), NEW k \in Nat, Inv(c, k), UNCHANGED <<walk, cursor>>,
         Putting(Inserts), LinkFirst
  PROVE  call.arg \in Vals /\ Grows(c, 1, call.arg)
<1>1. pc = "called" /\ call.op \in Inserts /\ call.arg # NoVal
  BY DEF Putting, Calling
<1>2. /\ k = 0 /\ Distinct(c) /\ length = Len(c) /\ allocated = Range(c)
      /\ head = IF length = 0 THEN Null ELSE c[1]
      /\ \A i \in 1..(Len(c) - 1) : next[c[i]] = c[i + 1]
      /\ length # 0 => next[c[Len(c)]] = Null
      /\ call \in Calls /\ Len(c) \in Nat
  BY <1>1, AtCall
<1>3. call.arg \in Vals
  BY <1>1, <1>2, CallArgs
<1>4. PICK n \in Nodes :
        /\ n \notin allocated /\ allocated' = allocated \cup {n}
        /\ data' = [data EXCEPT ![n] = call.arg]
        /\ next' = [next EXCEPT ![n] = IF length = 0 THEN Null ELSE head]
        /\ head' = n
  BY DEF LinkFirst, Fill, Malloc
<1>5. length' = length + 1 /\ Return /\ UNCHANGED <<retval, history, crashed>>
  BY DEF LinkFirst
<1>6. PICK d : d = InsertAt(c, 1, n)
  OBVIOUS
<1>7. 1 \in 1..(Len(c) + 1) /\ n \in Nodes \ Range(c)
  BY <1>2, <1>4
<1>8. /\ d \in Seq(Nodes) /\ Len(d) = Len(c) + 1
      /\ \A j \in 1..(Len(c) + 1) :
           d[j] = IF j < 1 THEN c[j] ELSE IF j = 1 THEN n ELSE c[j - 1]
  <2>1. Distinct(c)
    BY <1>2
  <2>2. With(c, 1, n, d)
    BY <1>6, <1>7, <2>1, NodePut
  <2> QED BY <2>2 DEF With
<1>9. d[1] = n /\ \A j \in 1..Len(c) : d[1 + j] = c[j]
  <2>1. ASSUME NEW j \in 1..Len(c) PROVE d[1 + j] = c[j]
    <3>1. 1 + j \in 1..(Len(c) + 1) /\ ~(1 + j < 1) /\ 1 + j # 1 /\ (1 + j) - 1 = j
      BY <1>2
    <3> QED BY <1>8, <3>1
  <2> QED BY <1>7, <1>8, <2>1
<1>10. \A j \in 1..Len(c) : c[j] \in Nodes /\ c[j] # n
  BY <1>2, <1>7, Lengths
<1>11. /\ data \in [Nodes -> Vals \cup {Wild}] /\ next \in [Nodes -> Pointers]
       /\ head \in Pointers /\ Null \in Pointers
  BY DEF Inv, TypeOK, Pointers
<1>12. /\ data' \in [Nodes -> Vals \cup {Wild}] /\ next' \in [Nodes -> Pointers]
       /\ data'[n] = call.arg /\ next'[n] = IF length = 0 THEN Null ELSE c[1]
       /\ \A j \in 1..Len(c) : data'[c[j]] = data[c[j]] /\ next'[c[j]] = next[c[j]]
  BY <1>2, <1>3, <1>4, <1>10, <1>11
<1>13. ASSUME NEW j \in 1..Len(c) PROVE next'[d[j]] = d[j + 1]
  <2>1. CASE j = 1
    BY <1>2, <1>9, <1>12, <2>1
  <2>2. CASE j # 1
    <3>1. /\ j - 1 \in 1..(Len(c) - 1) /\ j - 1 \in 1..Len(c) /\ 1 + (j - 1) = j
          /\ (j - 1) + 1 = j /\ 1 + j = j + 1
      BY <1>2, <2>2
    <3>2. d[j] = c[j - 1] /\ d[j + 1] = c[j]
      BY <1>9, <3>1
    <3>3. next'[c[j - 1]] = next[c[j - 1]] /\ next[c[j - 1]] = c[j]
      BY <1>2, <1>12, <3>1
    <3> QED BY <3>2, <3>3
  <2> QED BY <2>1, <2>2
<1>14. next'[d[Len(c) + 1]] = Null
  <2>1. CASE Len(c) = 0
    BY <1>2, <1>9, <1>12, <2>1
  <2>2. CASE Len(c) # 0
    <3>1. Len(c) \in 1..Len(c) /\ 1 + Len(c) = Len(c) + 1
      BY <1>2, <2>2
    <3> QED BY <1>2, <1>9, <1>12, <2>2, <3>1
  <2> QED BY <2>1, <2>2
<1>15. Reading(d)'
  <2>1. 1 + Len(c) <= Len(d) /\ \A i \in 1..Len(c) : d[1 + i] = c[i] /\ data'[c[i]] = data[c[i]]
    BY <1>2, <1>8, <1>9, <1>12
  <2>2. UNCHANGED <<walk, cursor, history>> /\ pc' \notin {"rejoin", "cut"} /\ 1 \in Nat
    BY <1>5 DEF Return
  <2> QED BY <1>8, <2>1, <2>2, ReadingKept DEF Inv
<1>16. Grows(c, 1, call.arg)
  <2>1. allocated' = Range(c) \cup {n} /\ head' = d[1]
    BY <1>2, <1>4, <1>9
  <2>2. PICK v : v = call.arg
    OBVIOUS
  <2>3. v \in Vals /\ data'[n] = v
    BY <1>3, <1>12, <2>2
  <2>4. Grows(c, 1, v)
    BY <1>2, <1>5, <1>6, <1>7, <1>12, <1>13, <1>14, <1>15, <2>1, <2>3, Growing
  <2> QED BY <2>2, <2>4
<1> QED BY <1>3, <1>16

LEMMA PutLast ==
  ASSUME NEW c \in Seq(Nodes), Distinct(c), NEW n \in Nodes \ Range(c),
         NEW d, d = InsertAt(c, Len(c) + 1, n)
  PROVE  /\ d \in Seq(Nodes) /\ Len(d) = Len(c) + 1 /\ d[Len(c) + 1] = n
         /\ \A j \in 1..Len(c) : d[j] = c[j]
<1>1. Len(c) \in Nat /\ Len(c) + 1 \in 1..(Len(c) + 1)
  OBVIOUS
<1>2. /\ d \in Seq(Nodes) /\ Len(d) = Len(c) + 1
      /\ \A j \in 1..(Len(c) + 1) :
           d[j] = IF j < Len(c) + 1 THEN c[j] ELSE IF j = Len(c) + 1 THEN n ELSE c[j - 1]
  <2>1. With(c, Len(c) + 1, n, d)
    BY <1>1, NodePut
  <2> QED BY <2>1 DEF With
<1>3. \A j \in 1..Len(c) : j \in 1..(Len(c) + 1) /\ j < Len(c) + 1
  BY <1>1
<1> QED BY <1>1, <1>2, <1>3

LEMMA TailNextStep ==
  ASSUME NEW c \in Seq(Nodes), NEW k \in Nat, Inv(c, k), UNCHANGED <<walk, cursor>>, TailNext
  PROVE  call.arg \in Vals /\ call.op = "InsertAtTail" /\ Grows(c, Len(c) + 1, call.arg)
<1>1. /\ pc = "tailNext" /\ Return /\ next' = [next EXCEPT ![node] = Null]
      /\ length' = length + 1 /\ UNCHANGED <<head, data, allocated, retval, history, crashed>>
  BY DEF TailNext
<1>2. /\ k = 0 /\ Distinct(c) /\ length = Len(c) /\ allocated = Range(c) \cup {node}
      /\ node \in Nodes \ Range(c) /\ head = c[1] /\ data[node] = call.arg
      /\ next[c[Len(c)]] = node /\ c # <<>> /\ call.arg \in Vals /\ call.op = "InsertAtTail"
      /\ data \in [Nodes -> Vals \cup {Wild}] /\ next \in [Nodes -> Pointers]
  BY <1>1 DEF Inv, Shape, Owned, Halfway, Chained, TypeOK
<1>3. \A j \in 1..(Len(c) - 1) : next[c[j]] = c[j + 1]
  <2>1. \A j \in 1..(Len(c) - 1) : j # 0
    OBVIOUS
  <2> QED BY <1>2, <2>1 DEF Inv, Shape, Chained
<1>4. PICK n : n = node
  OBVIOUS
<1>5. PICK d : d = InsertAt(c, Len(c) + 1, n)
  OBVIOUS
<1>6. /\ d \in Seq(Nodes) /\ Len(d) = Len(c) + 1 /\ d[Len(c) + 1] = n
      /\ \A j \in 1..Len(c) : d[j] = c[j]
  BY <1>2, <1>4, <1>5, PutLast
<1>7. /\ Len(c) \in Nat /\ Len(c) + 1 \in 1..(Len(c) + 1) /\ Len(c) \in 1..Len(c)
      /\ 1 \in 1..Len(c)
      /\ \A j \in 1..Len(c) : c[j] \in Nodes /\ c[j] # n
  BY <1>2, <1>4, Lengths
<1>8. /\ next' \in [Nodes -> Pointers] /\ next'[n] = Null
      /\ \A j \in 1..Len(c) : next'[c[j]] = next[c[j]]
  <2>1. Null \in Pointers
    BY DEF Pointers
  <2> QED BY <1>1, <1>2, <1>4, <1>7, <2>1
<1>9. ASSUME NEW j \in 1..Len(c) PROVE next'[d[j]] = d[j + 1]
  <2>1. CASE j = Len(c)
    BY <1>2, <1>4, <1>6, <1>8, <2>1
  <2>2. CASE j # Len(c)
    <3>1. j \in 1..(Len(c) - 1) /\ j + 1 \in 1..Len(c)
      BY <1>7, <2>2
    <3> QED BY <1>3, <1>6, <1>8, <3>1
  <2> QED BY <2>1, <2>2
<1>10. Reading(d)'
  <2>1. 0 + Len(c) <= Len(d) /\ \A i \in 1..Len(c) : d[0 + i] = c[i] /\ data'[c[i]] = data[c[i]]
    BY <1>1, <1>6, <1>7
  <2>2. UNCHANGED <<walk, cursor, history>> /\ pc' \notin {"rejoin", "cut"} /\ 0 \in Nat
    BY <1>1 DEF Return
  <2> QED BY <1>6, <2>1, <2>2, ReadingKept DEF Inv
<1>11. /\ allocated' = Range(c) \cup {n} /\ head' = d[1] /\ n \in Nodes \ Range(c)
       /\ data' \in [Nodes -> Vals \cup {Wild}] /\ next'[d[Len(c) + 1]] = Null
       /\ \A j \in 1..Len(c) : data'[c[j]] = data[c[j]]
  BY <1>1, <1>2, <1>4, <1>6, <1>7, <1>8
<1>12. PICK v \in Vals : v = call.arg
  BY <1>2
<1>13. data'[n] = v
  BY <1>1, <1>2, <1>4, <1>12
<1>14. Grows(c, Len(c) + 1, v)
  BY <1>1, <1>2, <1>5, <1>7, <1>8, <1>9, <1>10, <1>11, <1>13, Growing
<1> QED BY <1>2, <1>12, <1>14

LEMMA InOrderLastStep ==
  ASSUME NEW c \in Seq(Nodes), NEW k \in Nat, Inv(c, k), UNCHANGED <<walk, cursor>>,
         InsertInOrderLast
  PROVE  /\ call.arg \in Vals /\ call.op = "InsertInOrder" /\ Grows(c, Len(c) + 1, call.arg)
         /\ \A i \in 1..Len(c) : data[c[i]] <= call.arg
<1>1. /\ pc = "called" /\ call.op = "InsertInOrder" /\ call.arg # NoVal /\ length # 0
      /\ call.arg >= data[head] /\ Stops(call.arg) = {}
      /\ Return /\ length' = length + 1 /\ UNCHANGED <<head, retval, history, crashed>>
  BY DEF InsertInOrderLast, Putting, Calling
<1>2. /\ k = 0 /\ Distinct(c) /\ length = Len(c) /\ allocated = Range(c)
      /\ head = IF length = 0 THEN Null ELSE c[1]
      /\ \A i \in 1..(Len(c) - 1) : next[c[i]] = c[i + 1]
      /\ call \in Calls /\ Len(c) \in Nat /\ c # <<>>
  BY <1>1, AtCall
<1>3. call.arg \in Vals
  <2>1. "InsertInOrder" \notin Removes
    BY LinkedListAssumption
  <2> QED BY <1>1, <1>2, <2>1, CallArgs
<1>4. \A i \in 1..Len(c) : data[c[i]] <= call.arg
  BY <1>1, <1>2, <1>3, FirstStopIs DEF Inv
<1>5. Nth[LastPlace] = c[Len(c)]
  BY <1>1, <1>2, LastPlaceIs DEF Inv
<1>6. PICK n \in Nodes :
        /\ n \notin allocated /\ allocated' = allocated \cup {n}
        /\ data' = [data EXCEPT ![n] = call.arg]
        /\ next' = [next EXCEPT ![n] = Null, ![c[Len(c)]] = n]
  BY <1>5 DEF InsertInOrderLast, Fill, Malloc
<1>7. PICK d : d = InsertAt(c, Len(c) + 1, n)
  OBVIOUS
<1>8. /\ d \in Seq(Nodes) /\ Len(d) = Len(c) + 1 /\ d[Len(c) + 1] = n
      /\ \A j \in 1..Len(c) : d[j] = c[j]
  BY <1>2, <1>6, <1>7, PutLast
<1>9. /\ Len(c) + 1 \in 1..(Len(c) + 1) /\ Len(c) \in 1..Len(c) /\ 1 \in 1..Len(c)
      /\ \A j \in 1..Len(c) : c[j] \in Nodes /\ c[j] # n
  BY <1>1, <1>2, <1>6, Lengths
<1>10. /\ data \in [Nodes -> Vals \cup {Wild}] /\ next \in [Nodes -> Pointers]
       /\ n \in Pointers /\ Null \in Pointers
  BY DEF Inv, TypeOK, Pointers
<1>11. /\ data' \in [Nodes -> Vals \cup {Wild}] /\ next' \in [Nodes -> Pointers]
       /\ data'[n] = call.arg /\ next'[n] = Null /\ next'[c[Len(c)]] = n
       /\ \A j \in 1..Len(c) : data'[c[j]] = data[c[j]]
  BY <1>3, <1>6, <1>9, <1>10
<1>12. ASSUME NEW j \in 1..Len(c) PROVE next'[d[j]] = d[j + 1]
  <2>1. CASE j = Len(c)
    BY <1>8, <1>11, <2>1
  <2>2. CASE j # Len(c)
    <3>1. j \in 1..(Len(c) - 1) /\ j + 1 \in 1..Len(c)
      BY <1>2, <2>2
    <3>2. c[j] # c[Len(c)] /\ c[j] # n /\ c[j] \in Nodes
      BY <1>2, <1>9, <2>2 DEF Distinct
    <3>3. next'[c[j]] = next[c[j]]
      BY <1>6, <1>10, <3>2
    <3> QED BY <1>2, <1>8, <3>1, <3>3
  <2> QED BY <2>1, <2>2
<1>13. Reading(d)'
  <2>1. 0 + Len(c) <= Len(d) /\ \A i \in 1..Len(c) : d[0 + i] = c[i] /\ data'[c[i]] = data[c[i]]
    BY <1>2, <1>8, <1>11
  <2>2. UNCHANGED <<walk, cursor, history>> /\ pc' \notin {"rejoin", "cut"} /\ 0 \in Nat
    BY <1>1 DEF Return
  <2> QED BY <1>8, <2>1, <2>2, ReadingKept DEF Inv
<1>14. /\ allocated' = Range(c) \cup {n} /\ head' = d[1] /\ n \in Nodes \ Range(c)
       /\ next'[d[Len(c) + 1]] = Null
  BY <1>1, <1>2, <1>6, <1>8, <1>9, <1>11
<1>15. PICK v \in Vals : v = call.arg
  BY <1>3
<1>16. data'[n] = v
  BY <1>11, <1>15
<1>17. Grows(c, Len(c) + 1, v)
  BY <1>1, <1>2, <1>7, <1>9, <1>11, <1>12, <1>13, <1>14, <1>16, Growing
<1> QED BY <1>1, <1>3, <1>4, <1>15, <1>17

LEMMA RejoinStep ==
  ASSUME NEW c \in Seq(Nodes), NEW k \in Nat, Inv(c, k), UNCHANGED <<walk, cursor>>, Rejoin
  PROVE  /\ call.arg \in Vals /\ call.op = "InsertInOrder" /\ Grows(c, k + 1, call.arg)
         /\ k \in 1..(Len(c) - 1) /\ data[c[k]] <= call.arg /\ call.arg <= data[c[k + 1]]
<1>1. /\ pc = "rejoin" /\ Return /\ next' = [next EXCEPT ![node] = rest]
      /\ length' = length + 1 /\ UNCHANGED <<head, data, allocated, retval, history, crashed>>
  BY DEF Rejoin
<1>2. /\ Distinct(c) /\ length = Len(c) /\ allocated = Range(c) \cup {node}
      /\ node \in Nodes \ Range(c) /\ data[node] = call.arg
      /\ call.arg \in Vals /\ call.op = "InsertInOrder"
      /\ k \in 1..(Len(c) - 1) /\ rest = c[k + 1]
      /\ data[c[k]] <= call.arg /\ call.arg <= data[c[k + 1]]
      /\ data \in [Nodes -> Vals \cup {Wild}] /\ next \in [Nodes -> Pointers]
  BY <1>1 DEF Inv, Shape, Owned, Halfway, TypeOK
<1>3. /\ Len(c) \in Nat /\ k \in 1..Len(c) /\ k + 1 \in 1..Len(c) /\ k + 1 \in 1..(Len(c) + 1)
      /\ Len(c) \in 1..Len(c) /\ 1 \in 1..(Len(c) + 1) /\ 1 < k + 1 /\ c # <<>>
  BY <1>2, Lengths
<1>4. /\ head = c[1] /\ next[c[Len(c)]] = Null
      /\ \A i \in 1..(Len(c) - 1) : next[c[i]] = IF i = k THEN node ELSE c[i + 1]
  BY <1>1, <1>3 DEF Inv, Shape, Chained
<1>5. PICK n : n = node
  OBVIOUS
<1>6. PICK d : d = InsertAt(c, k + 1, n)
  OBVIOUS
<1>7. /\ d \in Seq(Nodes) /\ Len(d) = Len(c) + 1
      /\ \A j \in 1..(Len(c) + 1) :
           d[j] = IF j < k + 1 THEN c[j] ELSE IF j = k + 1 THEN n ELSE c[j - 1]
  <2>1. k + 1 \in 1..(Len(c) + 1) /\ Distinct(c) /\ n \in Nodes \ Range(c)
    BY <1>2, <1>3, <1>5
  <2>2. With(c, k + 1, n, d)
    BY <1>6, <2>1, NodePut
  <2> QED BY <2>2 DEF With
<1>8. \A j \in 1..Len(c) : c[j] \in Nodes /\ c[j] # n
  BY <1>2, <1>5, Lengths
<1>9. /\ next' \in [Nodes -> Pointers] /\ next'[n] = c[k + 1]
      /\ \A j \in 1..Len(c) : next'[c[j]] = next[c[j]]
  <2>1. c[k + 1] \in Pointers
    BY <1>3, <1>8 DEF Pointers
  <2> QED BY <1>1, <1>2, <1>5, <1>8, <2>1
<1>10. ASSUME NEW j \in 1..Len(c) PROVE next'[d[j]] = d[j + 1]
  <2>0. j \in 1..(Len(c) + 1) /\ j + 1 \in 1..(Len(c) + 1) /\ (j + 1) - 1 = j
    BY <1>3
  <2>1. CASE j < k
    <3>1. j < k + 1 /\ j + 1 < k + 1 /\ j \in 1..(Len(c) - 1) /\ j # k
      BY <1>2, <1>3, <2>1
    <3>2. d[j] = c[j] /\ d[j + 1] = c[j + 1]
      BY <1>7, <2>0, <3>1
    <3> QED BY <1>4, <1>9, <3>1, <3>2
  <2>2. CASE j = k
    <3>1. d[j] = c[k] /\ d[j + 1] = n
      BY <1>3, <1>7, <2>0, <2>2
    <3> QED BY <1>2, <1>3, <1>4, <1>5, <1>9, <3>1
  <2>3. CASE j = k + 1
    <3>1. ~(j < k + 1) /\ ~(j + 1 < k + 1) /\ j + 1 # k + 1
      BY <1>3, <2>3
    <3>2. d[j] = n /\ d[j + 1] = c[j]
      BY <1>7, <2>0, <2>3, <3>1
    <3> QED BY <1>9, <2>3, <3>2
  <2>4. CASE j > k + 1
    <3>1. /\ ~(j < k + 1) /\ j # k + 1 /\ ~(j + 1 < k + 1) /\ j + 1 # k + 1
          /\ j - 1 \in 1..(Len(c) - 1) /\ j - 1 \in 1..Len(c) /\ j - 1 # k /\ (j - 1) + 1 = j
      BY <1>3, <2>4
    <3>2. d[j] = c[j - 1] /\ d[j + 1] = c[j]
      BY <1>7, <2>0, <3>1
    <3> QED BY <1>4, <1>9, <3>1, <3>2
  <2> QED BY <1>3, <2>1, <2>2, <2>3, <2>4
<1>11. d[1] = c[1] /\ next'[d[Len(c) + 1]] = Null
  <2>1. d[1] = c[1]
    BY <1>3, <1>7
  <2>2. /\ Len(c) + 1 \in 1..(Len(c) + 1) /\ ~(Len(c) + 1 < k + 1) /\ Len(c) + 1 # k + 1
        /\ (Len(c) + 1) - 1 = Len(c)
    BY <1>2, <1>3
  <2>3. d[Len(c) + 1] = c[Len(c)]
    BY <1>7, <2>2
  <2> QED BY <1>3, <1>4, <1>9, <2>1, <2>3
<1>12. Reading(d)'
  BY <1>1, ReadingDisturbed DEF Inv
<1>13. /\ allocated' = Range(c) \cup {n} /\ head' = d[1] /\ n \in Nodes \ Range(c)
       /\ data' \in [Nodes -> Vals \cup {Wild}]
       /\ \A j \in 1..Len(c) : data'[c[j]] = data[c[j]]
  BY <1>1, <1>2, <1>4, <1>5, <1>11
<1>14. PICK v \in Vals : v = call.arg
  BY <1>2
<1>15. data'[n] = v
  BY <1>1, <1>2, <1>5, <1>14
<1>16. Grows(c, k + 1, v)
  <2>1. PICK i \in 1..(Len(c) + 1) : i = k + 1
    BY <1>3
  <2>2. /\ d = InsertAt(c, i, n) /\ n \in Nodes \ Range(c) /\ length = Len(c)
        /\ next' \in [Nodes -> Pointers] /\ data' \in [Nodes -> Vals \cup {Wild}]
    BY <1>2, <1>6, <1>9, <1>13, <2>1
  <2>3. UNCHANGED <<retval, history, crashed, walk, cursor>> /\ length' = length + 1 /\ Return
    BY <1>1
  <2>4. Grows(c, i, v)
    BY <1>10, <1>11, <1>12, <1>13, <1>15, <2>2, <2>3, Growing
  <2> QED BY <2>1, <2>4
<1> QED BY <1>2, <1>14, <1>16
-------------------------------------------------------------------------------
(* Steps that take out what is at i, and return it; the call has then      *)
(* taken effect.                                                           *)
Shrinks(c, i) ==
  /\ \E d \in Seq(Nodes) : Inv(d, 0)' /\ Values(d)' = RemoveAt(Values(c), i)
  /\ retval' = Values(c)[i] /\ pc' \in {"free", "cut"}

LEMMA Unlinking ==
  ASSUME NEW c \in Seq(Nodes), NEW k \in Nat, Inv(c, k), pc = "called",
         NEW i \in 1..Len(c), NEW d, d = RemoveAt(c, i),
         Continue("free", c[i], Null), retval' = data[c[i]], length' = length - 1,
         next' \in [Nodes -> Pointers], Chained(d, 0)', Disturb, head' \in Pointers,
         UNCHANGED <<data, allocated, crashed, walk, cursor>>
  PROVE  Shrinks(c, i)
<1>1. /\ Distinct(c) /\ length = Len(c) /\ allocated = Range(c) /\ call \in Calls
      /\ Len(c) \in Nat
  BY AtCall
<1>2. /\ pc' = "free" /\ node' = c[i] /\ rest' = Null /\ call' = call
      /\ start' = <<>> /\ seen' = <<>> /\ disturbed' \in BOOLEAN
  BY DEF Continue, Disturb
<1>3. /\ d \in Seq(Nodes) /\ Len(d) = Len(c) - 1 /\ Distinct(d)
      /\ Range(d) = Range(c) \ {c[i]}
      /\ \A j \in 1..(Len(c) - 1) : d[j] = IF j < i THEN c[j] ELSE c[j + 1]
  <2>1. Distinct(c)
    BY <1>1
  <2>2. Without(c, i, d)
    BY <2>1, NodeOut
  <2> QED BY <2>2 DEF Without
<1>4. /\ \A j \in 1..Len(c) : c[j] \in Nodes /\ c[j] \in Range(c) /\ data[c[j]] \in Vals
      /\ Len(c) <= Cardinality(Nodes) /\ Cardinality(Nodes) \in Nat
  BY <1>1, Lengths DEF Inv, Shape
<1>5. TypeOK'
  <2>1. length' \in 0..Cardinality(Nodes)
    BY <1>1, <1>4
  <2> QED BY <1>2, <1>4, <2>1 DEF Inv, TypeOK
<1>6. Owned(d)' /\ Halfway(d, 0)'
  BY <1>1, <1>2, <1>3, <1>4 DEF Owned, Halfway, Putting, Calling
<1>7. ASSUME NEW j \in 1..Len(d) PROVE data'[d[j]] \in Vals
  <2>1. j \in 1..(Len(c) - 1) /\ j \in 1..Len(c) /\ j + 1 \in 1..Len(c)
    BY <1>1, <1>3
  <2> QED BY <1>3, <1>4, <2>1
<1>8. Reading(d)'
  BY ReadingDisturbed DEF Inv
<1>9. Inv(d, 0)'
  BY <1>3, <1>5, <1>6, <1>7, <1>8 DEF Inv, Shape
<1>10. Values(d)' = RemoveAt(Values(c), i)
  BY ValuesOut DEF Inv
<1>11. retval' = Values(c)[i]
  BY DEF Values
<1> QED BY <1>2, <1>3, <1>9, <1>10, <1>11 DEF Shrinks

LEMMA UnlinkFirstStep ==
  ASSUME NEW c \in Seq(Nodes), NEW k \in Nat, Inv(c, k), UNCHANGED <<walk, cursor>>,
         pc = "called", length > 0, UnlinkFirst
  PROVE  Shrinks(c, 1) /\ c # <<>>
<1>1. /\ retval' = data[head] /\ head' = next[head] /\ length' = length - 1
      /\ Continue("free", head, Null) /\ Disturb
      /\ UNCHANGED <<data, next, allocated, crashed>>
  BY DEF UnlinkFirst, heap
<1>2. /\ Distinct(c) /\ length = Len(c) /\ Len(c) \in Nat /\ c # <<>>
      /\ \A i \in 1..(Len(c) - 1) : next[c[i]] = c[i + 1]
      /\ head = c[1] /\ next[c[Len(c)]] = Null
  BY AtCall
<1>3. 1 \in 1..Len(c) /\ Len(c) \in 1..Len(c)
  BY <1>2
<1>4. PICK d : d = RemoveAt(c, 1)
  OBVIOUS
<1>5. /\ d \in Seq(Nodes) /\ Len(d) = Len(c) - 1 /\ Distinct(d)
      /\ \A j \in 1..(Len(c) - 1) : d[j] = IF j < 1 THEN c[j] ELSE c[j + 1]
  <2>1. Distinct(c)
    BY <1>2
  <2>2. Without(c, 1, d)
    BY <1>3, <1>4, <2>1, NodeOut
  <2> QED BY <2>2 DEF Without
<1>6. \A j \in 1..(Len(c) - 1) : d[j] = c[j + 1] /\ j + 1 \in 1..Len(c)
  BY <1>2, <1>5
<1>7. /\ next \in [Nodes -> Pointers] /\ head' \in Pointers
  BY <1>1, <1>2, <1>3, Lengths DEF Inv, TypeOK
<1>8. Chained(d, 0)'
  <2>1. pc' = "free"
    BY <1>1 DEF Continue
  <2>2. d = <<>> <=> Len(c) = 1
    BY <1>2, <1>5, Lengths
  <2>3. head' = IF d = <<>> THEN Null ELSE d[1]
    <3>1. CASE Len(c) = 1
      BY <1>1, <1>2, <2>2, <3>1
    <3>2. CASE Len(c) # 1
      <4>1. 1 \in 1..(Len(c) - 1)
        BY <1>3, <1>2, <3>2
      <4> QED BY <1>1, <1>2, <1>6, <2>2, <3>2, <4>1
    <3> QED BY <3>1, <3>2
  <2>4. ASSUME NEW i \in 1..(Len(d) - 1) PROVE next'[d[i]] = d[i + 1] /\ i # 0
    <3>1. i \in 1..(Len(c) - 1) /\ i + 1 \in 1..(Len(c) - 1) /\ i # 0
      BY <1>2, <1>5
    <3> QED BY <1>1, <1>2, <1>6, <3>1
  <2>5. ASSUME d # <<>> PROVE next'[d[Len(d)]] = Null
    <3>1. Len(d) \in 1..(Len(c) - 1) /\ Len(d) + 1 = Len(c)
      BY <1>2, <1>5, <2>2, <2>5
    <3> QED BY <1>1, <1>2, <1>6, <3>1
  <2> QED BY <2>1, <2>3, <2>4, <2>5 DEF Chained
<1>9. Continue("free", c[1], Null) /\ retval' = data[c[1]] /\ next' \in [Nodes -> Pointers]
  BY <1>1, <1>2, <1>7
<1>10. Shrinks(c, 1)
  BY <1>1, <1>3, <1>4, <1>7, <1>8, <1>9, Unlinking
<1> QED BY <1>2, <1>10

LEMMA RemoveByIndexStep ==
  ASSUME NEW c \in Seq(Nodes), NEW k \in Nat, Inv(c, k), UNCHANGED <<walk, cursor>>,
         RemoveByIndex
  PROVE  call.arg \in 1..(Len(c) - 1) /\ Shrinks(c, call.arg + 1)
<1>1. pc = "called" /\ call.arg \in 1..length - 1
  BY DEF RemoveByIndex, Calling
<1>2. /\ k = 0 /\ Distinct(c) /\ length = Len(c) /\ Len(c) \in Nat
      /\ head = IF length = 0 THEN Null ELSE c[1]
      /\ \A i \in 1..(Len(c) - 1) : next[c[i]] = c[i + 1]
      /\ length # 0 => next[c[Len(c)]] = Null
  BY <1>1, AtCall
<1>3. PICK m \in 1..(Len(c) - 1) : m = call.arg
  BY <1>1, <1>2
<1>4. /\ m \in 1..Len(c) /\ m + 1 \in 1..Len(c) /\ (m + 1) - 1 = m /\ length # 0
      /\ Len(c) \in 1..Len(c) /\ 1 \in 1..Len(c) /\ m \in Nat
  BY <1>2
<1>5. Nth[m - 1] = c[m] /\ Nth[m] = c[m + 1]
  BY <1>1, <1>2, <1>4, NthOfChain DEF Inv, Shape
<1>6. \A j \in 1..Len(c) : c[j] \in Nodes
  BY <1>2, Lengths
<1>7. /\ next' = [next EXCEPT ![c[m]] = next[c[m + 1]]] /\ retval' = data[c[m + 1]]
      /\ Continue("free", c[m + 1], Null)
  BY <1>3, <1>4, <1>5, <1>6 DEF RemoveByIndex, Succ, Value
<1>8. length' = length - 1 /\ Disturb /\ UNCHANGED <<head, data, allocated, crashed>>
  BY DEF RemoveByIndex
<1>9. PICK i \in 1..Len(c) : i = m + 1
  BY <1>4
<1>10. PICK d : d = RemoveAt(c, i)
  OBVIOUS
<1>11. /\ d \in Seq(Nodes) /\ Len(d) = Len(c) - 1 /\ Distinct(d)
       /\ Range(d) = Range(c) \ {c[i]}
       /\ \A j \in 1..(Len(c) - 1) : d[j] = IF j < i THEN c[j] ELSE c[j + 1]
  <2>1. Distinct(c)
    BY <1>2
  <2>2. i \in 1..Len(c)
    BY <1>9
  <2>3. Without(c, i, d)
    BY <1>10, <2>1, <2>2, NodeOut
  <2> QED BY <2>3 DEF Without
<1>12. next \in [Nodes -> Pointers] /\ next' \in [Nodes -> Pointers] /\ head' \in Pointers
  BY <1>4, <1>6, <1>7, <1>8 DEF Inv, TypeOK
<1>13. /\ next'[c[m]] = next[c[m + 1]]
       /\ \A j \in 1..Len(c) : j # m => next'[c[j]] = next[c[j]]
  BY <1>2, <1>4, <1>6, <1>7, <1>12 DEF Distinct
<1>14. Chained(d, 0)'
  <2>1. pc' = "free"
    BY <1>7 DEF Continue
  <2>2. d # <<>> /\ Len(d) \in 1..(Len(c) - 1) /\ Len(d) + 1 = Len(c)
    BY <1>2, <1>3, <1>11, Lengths
  <2>3. head' = d[1]
    <3>1. 1 < i /\ 1 \in 1..(Len(c) - 1)
      BY <1>2, <1>4, <1>9
    <3> QED BY <1>2, <1>4, <1>8, <1>11, <3>1
  <2>4. ASSUME NEW j \in 1..(Len(d) - 1) PROVE next'[d[j]] = d[j + 1] /\ j # 0
    <3>0. /\ j \in 1..(Len(c) - 1) /\ j + 1 \in 1..(Len(c) - 1) /\ j \in 1..Len(c)
          /\ j + 1 \in 1..Len(c) /\ j # 0 /\ j \in Nat
      BY <1>2, <1>11
    <3>1. CASE j < m
      <4>1. j < i /\ j + 1 < i /\ j # m
        BY <1>4, <1>9, <3>0, <3>1
      <4>2. d[j] = c[j] /\ d[j + 1] = c[j + 1]
        BY <1>11, <3>0, <4>1
      <4> QED BY <1>2, <1>13, <3>0, <4>1, <4>2
    <3>2. CASE j = m
      <4>1. j < i /\ ~(j + 1 < i) /\ m + 1 \in 1..(Len(c) - 1)
        BY <1>4, <1>9, <3>0, <3>2
      <4>2. d[j] = c[m] /\ d[j + 1] = c[(m + 1) + 1]
        BY <1>11, <3>0, <3>2, <4>1
      <4> QED BY <1>2, <1>13, <3>0, <4>1, <4>2
    <3>3. CASE j > m
      <4>1. ~(j < i) /\ ~(j + 1 < i) /\ j + 1 # m
        BY <1>4, <1>9, <3>0, <3>3
      <4>2. d[j] = c[j + 1] /\ d[j + 1] = c[(j + 1) + 1]
        BY <1>11, <3>0, <4>1
      <4> QED BY <1>2, <1>13, <3>0, <4>1, <4>2
    <3> QED BY <1>4, <3>0, <3>1, <3>2, <3>3
  <2>5. next'[d[Len(d)]] = Null
    <3>1. CASE i = Len(c)
      <4>1. Len(d) < i /\ Len(d) = m
        BY <1>4, <1>9, <2>2, <3>1
      <4>2. d[Len(d)] = c[m]
        BY <1>11, <2>2, <4>1
      <4> QED BY <1>2, <1>4, <1>9, <1>13, <3>1, <4>2
    <3>2. CASE i # Len(c)
      <4>1. ~(Len(d) < i) /\ Len(c) # m
        BY <1>2, <1>4, <1>9, <1>11, <3>2
      <4>2. d[Len(d)] = c[Len(c)]
        BY <1>11, <2>2, <4>1
      <4> QED BY <1>2, <1>4, <1>13, <4>1, <4>2
    <3> QED BY <3>1, <3>2
  <2> QED BY <2>1, <2>2, <2>3, <2>4, <2>5 DEF Chained
<1>15. Continue("free", c[i], Null) /\ retval' = data[c[i]]
  BY <1>7, <1>9
<1>16. Shrinks(c, i)
  BY <1>1, <1>8, <1>10, <1>12, <1>14, <1>15, Unlinking
<1> QED BY <1>3, <1>9, <1>16

LEMMA RemoveRearStep ==
  ASSUME NEW c \in Seq(Nodes), NEW k \in Nat, Inv(c, k), UNCHANGED <<walk, cursor>>,
         RemoveRear
  PROVE  Shrinks(c, Len(c)) /\ call.op = "removeRear" /\ Len(c) > 1
<1>1. pc = "called" /\ call.op = "removeRear" /\ length > 1
  BY DEF RemoveRear, Calling
<1>2. /\ k = 0 /\ Distinct(c) /\ length = Len(c) /\ Len(c) \in Nat /\ c # <<>>
      /\ allocated = Range(c) /\ call \in Calls
      /\ head = IF length = 0 THEN Null ELSE c[1]
      /\ \A i \in 1..(Len(c) - 1) : next[c[i]] = c[i + 1]
  BY <1>1, AtCall
<1>3. Nth[LastPlace] = c[Len(c)] /\ Nth[LastPlace - 1] = c[Len(c) - 1]
  BY <1>1, <1>2, LastPlaceIs DEF Inv
<1>4. PICK i \in 1..Len(c) : i = Len(c)
  BY <1>1, <1>2
<1>5. /\ retval' = data[c[i]] /\ Free(c[i]) /\ Continue("cut", c[i - 1], Null) /\ Disturb
      /\ UNCHANGED <<head, length, crashed>>
  BY <1>3, <1>4 DEF RemoveRear, list
<1>6. PICK d : d = RemoveAt(c, i)
  OBVIOUS
<1>7. /\ d \in Seq(Nodes) /\ Len(d) = Len(c) - 1 /\ Distinct(d)
      /\ Range(d) = Range(c) \ {c[i]}
      /\ \A j \in 1..(Len(c) - 1) : d[j] = IF j < i THEN c[j] ELSE c[j + 1]
  <2>1. Distinct(c) /\ i \in 1..Len(c)
    BY <1>2, <1>4
  <2>2. Without(c, i, d)
    BY <1>6, <2>1, NodeOut
  <2> QED BY <2>2 DEF Without
<1>8. \A j \in 1..(Len(c) - 1) : d[j] = c[j] /\ j \in 1..Len(c) /\ j # i
  BY <1>2, <1>4, <1>7
<1>9. /\ \A j \in 1..Len(c) : c[j] \in Nodes /\ data[c[j]] \in Vals
      /\ data \in [Nodes -> Vals \cup {Wild}] /\ next \in [Nodes -> Pointers]
  BY <1>2, Lengths DEF Inv, Shape, TypeOK
<1>10. /\ data' \in [Nodes -> Vals \cup {Wild}] /\ next' \in [Nodes -> Pointers]
       /\ \A n \in Nodes \ {c[i]} : data'[n] = data[n] /\ next'[n] = next[n]
       /\ allocated' = allocated \ {c[i]}
  <2>1. CASE UNCHANGED <<data, next>>
    <3>1. allocated' = allocated \ {c[i]}
      BY <1>5 DEF Free
    <3> QED BY <1>9, <2>1, <3>1
  <2>2. ASSUME data' = [data EXCEPT ![c[i]] = Wild], NEW p \in {Null, Wild},
               next' = [next EXCEPT ![c[i]] = p]
        PROVE  /\ data' \in [Nodes -> Vals \cup {Wild}] /\ next' \in [Nodes -> Pointers]
               /\ \A n \in Nodes \ {c[i]} : data'[n] = data[n] /\ next'[n] = next[n]
    <3>1. p \in Pointers
      BY DEF Pointers
    <3> QED BY <1>9, <2>2, <3>1
  <2>3. /\ allocated' = allocated \ {c[i]}
        /\ \/ UNCHANGED <<data, next>>
           \/ /\ data' = [data EXCEPT ![c[i]] = Wild]
              /\ \E p \in {Null, Wild} : next' = [next EXCEPT ![c[i]] = p]
    BY <1>5 DEF Free
  <2> QED BY <2>1, <2>2, <2>3
<1>11. \A j \in 1..Len(c) : j # i =>
         data'[c[j]] = data[c[j]] /\ next'[c[j]] = next[c[j]]
  BY <1>2, <1>9, <1>10 DEF Distinct
<1>12. /\ Len(d) \in 1..(Len(c) - 1) /\ d # <<>> /\ i - 1 = Len(d) /\ 1 \in 1..(Len(c) - 1)
       /\ i - 1 \in 1..Len(c)
  BY <1>1, <1>2, <1>4, <1>7, Lengths
<1>13. /\ pc' = "cut" /\ node' = d[Len(d)] /\ node' \in Nodes /\ rest' = Null /\ call' = call
       /\ start' = <<>> /\ seen' = <<>> /\ disturbed' \in BOOLEAN
  BY <1>5, <1>8, <1>9, <1>12 DEF Continue, Disturb
<1>14. TypeOK'
  BY <1>5, <1>9, <1>10, <1>13 DEF Inv, TypeOK
<1>15. Chained(d, 0)'
  <2>1. head' = d[1]
    BY <1>1, <1>2, <1>5, <1>8, <1>12
  <2>2. ASSUME NEW j \in 1..(Len(d) - 1) PROVE next'[d[j]] = d[j + 1] /\ j # 0
    <3>1. j \in 1..(Len(c) - 1) /\ j + 1 \in 1..(Len(c) - 1) /\ j # 0
      BY <1>2, <1>7
    <3> QED BY <1>2, <1>8, <1>11, <3>1
  <2> QED BY <1>12, <1>13, <2>1, <2>2 DEF Chained
<1>16. Owned(d)' /\ Halfway(d, 0)'
  BY <1>2, <1>5, <1>7, <1>10, <1>12, <1>13 DEF Owned, Halfway, Putting, Calling
<1>17. ASSUME NEW j \in 1..Len(d) PROVE data'[d[j]] \in Vals
  <2>1. j \in 1..(Len(c) - 1)
    BY <1>7
  <2> QED BY <1>8, <1>9, <1>11, <2>1
<1>18. Reading(d)'
  BY <1>5, ReadingDisturbed DEF Inv
<1>19. Inv(d, 0)'
  BY <1>7, <1>14, <1>15, <1>16, <1>17, <1>18 DEF Inv, Shape
<1>20. Values(d)' = RemoveAt(Values(c), i)
  BY <1>6, <1>11, ValuesOut DEF Inv
<1>21. Shrinks(c, i)
  BY <1>5, <1>7, <1>13, <1>19, <1>20 DEF Shrinks, Values
<1> QED BY <1>1, <1>2, <1>4, <1>21

(* The actions that link or unlink the first node. *)
LEMMA HeadIsPutting ==
  ASSUME NEW c \in Seq(Nodes), NEW k \in Nat, Inv(c, k), InsertAtHead \/ InsertInOrderFirst
  PROVE  Putting(Inserts) /\ LinkFirst
<1>1. /\ pc = "called" /\ call.arg # NoVal /\ LinkFirst
      /\ call.op \in Inserts \cup {"InsertAtHead", "InsertInOrder"}
  BY DEF InsertAtHead, InsertInOrderFirst, Putting, Calling
<1>2. call.op \in Inserts \cup Removes \cup {"removeByIndex"}
  BY <1>1, AtCall, CallArgs
<1>3. "InsertAtHead" \notin Removes /\ "InsertInOrder" \notin Removes
  BY LinkedListAssumption
<1> QED BY <1>1, <1>2, <1>3 DEF Putting, Calling

LEMMA FrontIsThere ==
  ASSUME RemoveFront \/ RemoveByIndexFirst
  PROVE  pc = "called" /\ length > 0 /\ UnlinkFirst
BY DEF RemoveFront, RemoveByIndexFirst, Calling

LEMMA StutterKeeps ==
  ASSUME NEW c \in Seq(Nodes), NEW k \in Nat, Inv(c, k), UNCHANGED vars
  PROVE  Quiet(c) /\ UNCHANGED <<pc, call, retval>>
<1>1. UNCHANGED <<head, length, data, next, allocated, pc, call, node, rest, retval,
                  walk, cursor, start, seen, disturbed, crashed>>
  BY DEF vars, list, heap, writer, history
<1>2. TypeOK'
  BY <1>1 DEF Inv, TypeOK
<1>3. Shape(c, k)' /\ Values(c)' = Values(c)
  BY <1>1 DEF Inv, Shape, Chained, Owned, Halfway, Putting, Calling, Values
<1>4. (ReadAll' <=> ReadAll) /\ \A j \in Nat : Amid(c, j)' <=> Amid(c, j)
  BY <1>1 DEF ReadAll, Amid
<1>5. Reading(c)'
  BY <1>1, <1>4 DEF Inv, Reading
<1> QED BY <1>1, <1>2, <1>3, <1>5 DEF Inv, Quiet
-------------------------------------------------------------------------------
(* The invariant.                                                          *)
ListInv == \E c \in Seq(Nodes), k \in Nat : Inv(c, k)

LEMMA InvHolds == Spec => []ListInv
<1>1. ASSUME Init PROVE ListInv
  <2> DEFINE c == <<>>
  <2>1. c \in Seq(Nodes) /\ Len(c) = 0 /\ c = <<>> /\ Range(c) = {} /\ 0 \in Nat
    BY DEF Range
  <2> HIDE DEF c
  <2>2. Wild \in Pointers /\ Null \in Pointers /\ 0 \in 0..Cardinality(Nodes)
    BY LinkedListAssumption, FS_CardinalityType DEF Pointers
  <2>3. TypeOK
    <3>1. data \in [Nodes -> Vals \cup {Wild}] /\ next \in [Nodes -> Pointers]
      BY <1>1, <2>2 DEF Init
    <3>2. start \in Seq(Vals) /\ seen \in Seq(Vals \cup {Wild})
      BY <1>1 DEF Init
    <3> QED BY <1>1, <2>2, <3>1, <3>2 DEF Init, TypeOK
  <2>4. /\ Chained(c, 0) /\ Owned(c) /\ Halfway(c, 0)
        /\ \A i \in 1..Len(c) : data[c[i]] \in Vals
    <3>0. \A i \in 1..Len(c) : FALSE
      BY <2>1
    <3>1. Chained(c, 0)
      BY <1>1, <2>1 DEF Init, Chained
    <3>2. Owned(c)
      BY <1>1, <2>1, <3>0 DEF Init, Owned, Distinct
    <3>3. Halfway(c, 0)
      BY <1>1, <2>1 DEF Init, Halfway, Putting, Calling
    <3> QED BY <3>0, <3>1, <3>2, <3>3
  <2>5. ReadAll
    BY <1>1 DEF Init, ReadAll
  <2>6. Reading(c)
    BY <1>1, <2>5 DEF Init, Reading
  <2> QED BY <2>1, <2>3, <2>4, <2>6 DEF ListInv, Inv, Shape
<1>2. ListInv /\ [Next]_vars => ListInv'
  <2> SUFFICES ASSUME NEW c \in Seq(Nodes), NEW k \in Nat, Inv(c, k), [Next]_vars
               PROVE  ListInv'
    BY DEF ListInv
  <2>1. CASE UNCHANGED vars
    BY <2>1, StutterKeeps DEF Quiet, ListInv
  <2>2. CASE Walk
    BY <2>2, ReaderStep DEF ListInv
  <2>3. CASE Write
    <3>1. UNCHANGED <<walk, cursor>>
      BY <2>3 DEF Write
    <3>2. CASE MakeCall \/ InsertNothing \/ RemoveNothing \/ RemoveByIndexNegative
      BY <3>1, <3>2, CallStep DEF Quiet, ListInv
    <3>3. CASE TailLink            BY <3>1, <3>3, TailLinkStep DEF Quiet, ListInv
    <3>4. CASE TailData            BY <3>1, <3>4, TailDataStep DEF Quiet, ListInv
    <3>5. CASE InsertInOrderMiddle BY <3>1, <3>5, MiddleStep DEF Quiet, ListInv
    <3>6. CASE FreeUnlinked        BY <3>1, <3>6, FreeStep DEF Quiet, ListInv
    <3>7. CASE Cut                 BY <3>1, <3>7, CutStep DEF Quiet, ListInv
    <3>8. CASE InsertAtHead \/ InsertInOrderFirst
      BY <3>1, <3>8, HeadIsPutting, LinkFirstStep DEF Grows, ListInv
    <3>9. CASE TailNext            BY <3>1, <3>9, TailNextStep DEF Grows, ListInv
    <3>10. CASE InsertInOrderLast  BY <3>1, <3>10, InOrderLastStep DEF Grows, ListInv
    <3>11. CASE Rejoin             BY <3>1, <3>11, RejoinStep DEF Grows, ListInv
    <3>12. CASE RemoveFront \/ RemoveByIndexFirst
      BY <3>1, <3>12, FrontIsThere, UnlinkFirstStep DEF Shrinks, ListInv
    <3>13. CASE RemoveByIndex      BY <3>1, <3>13, RemoveByIndexStep DEF Shrinks, ListInv
    <3>14. CASE RemoveRear         BY <3>1, <3>14, RemoveRearStep DEF Shrinks, ListInv
    <3> QED BY <2>3, <3>2, <3>3, <3>4, <3>5, <3>6, <3>7, <3>8, <3>9, <3>10, <3>11,
               <3>12, <3>13, <3>14 DEF Write
  <2> QED BY <2>1, <2>2, <2>3 DEF Next
<1> QED BY <1>1, <1>2, PTL DEF Spec

(* Every variable has its type; in particular, length never exceeds the    *)
(* number of nodes, and no call of linkedlist.c returns what stands in a   *)
(* node that is not filled in or has been freed.                           *)
THEOREM TypeCorrect == Spec => []TypeOK
<1>1. ListInv => TypeOK
  BY DEF ListInv, Inv
<1> QED BY <1>1, InvHolds, PTL

(* Between the calls of linkedlist.c the nodes that can be reached from    *)
(* head are exactly those that are allocated, length of them and each      *)
(* once, and the last one has no next.                                     *)
THEOREM StaysWellFormed == Spec => []WellFormed
<1>1. ListInv => WellFormed
  <2> SUFFICES ASSUME NEW c \in Seq(Nodes), NEW k \in Nat, Inv(c, k), pc \in {"idle", "called"}
               PROVE  /\ \A i \in 0..length - 1 : Nth[i] \in Nodes
                      /\ {Nth[i] : i \in 0..length - 1} = allocated
                      /\ Cardinality(allocated) = length
                      /\ length = 0 \/ next[Nth[length - 1]] = Null
    BY DEF ListInv, WellFormed
  <2>1. k = 0 /\ Distinct(c) /\ length = Len(c) /\ allocated = Range(c) /\ Chained(c, 0)
    BY DEF Inv, Shape, Owned, Halfway
  <2>2. /\ Len(c) \in Nat /\ Cardinality(Range(c)) = Len(c) /\ (c = <<>> <=> Len(c) = 0)
        /\ \A i \in 1..Len(c) : c[i] \in Nodes /\ c[i] \in Range(c)
        /\ \A n \in Range(c) : \E i \in 1..Len(c) : n = c[i]
    BY <2>1, Lengths
  <2>3. \A i \in 1..Len(c) : Nth[i - 1] = c[i]
    BY <2>1, NthOfChain DEF Inv, Shape
  <2>4. ASSUME NEW i \in 0..length - 1 PROVE Nth[i] \in Nodes /\ Nth[i] \in Range(c)
    <3>1. i + 1 \in 1..Len(c) /\ (i + 1) - 1 = i
      BY <2>1, <2>2
    <3>2. Nth[i] = c[i + 1]
      BY <2>3, <3>1
    <3> QED BY <2>2, <3>1, <3>2
  <2>5. ASSUME NEW n \in Range(c) PROVE \E i \in 0..length - 1 : n = Nth[i]
    <3>1. PICK i \in 1..Len(c) : n = c[i]
      BY <2>2
    <3>2. i - 1 \in 0..length - 1 /\ n = Nth[i - 1]
      BY <2>1, <2>2, <2>3, <3>1
    <3> QED BY <3>2
  <2>6. length = 0 \/ next[Nth[length - 1]] = Null
    <3> SUFFICES ASSUME length # 0 PROVE next[Nth[length - 1]] = Null
      OBVIOUS
    <3>1. Len(c) \in 1..Len(c) /\ c # <<>>
      BY <2>1, <2>2
    <3>2. Nth[Len(c) - 1] = c[Len(c)]
      BY <2>3, <3>1
    <3> QED BY <2>1, <3>1, <3>2 DEF Chained
  <2>7. {Nth[i] : i \in 0..length - 1} = Range(c)
    BY <2>4, <2>5
  <2> QED BY <2>1, <2>2, <2>4, <2>6, <2>7
<1> QED BY <1>1, InvHolds, PTL

(* A walk over a list without its semaphore (findUsername, run_tick) reads *)
(* everything that was in the list when it began, in order, as long as the *)
(* list is changed at its ends only.                                       *)
THEOREM ReaderMissesNothing == Spec => []WalkSeesAll
<1>1. ListInv => WalkSeesAll
  <2> SUFFICES ASSUME NEW c \in Seq(Nodes), NEW k \in Nat, Inv(c, k), ~disturbed
               PROVE  /\ IsPrefix(seen, start) \/ IsPrefix(start, seen)
                      /\ walk = "data" /\ cursor = Null => IsPrefix(start, seen)
    BY DEF ListInv, WalkSeesAll
  <2>1. start \in Seq(Vals) /\ seen \in Seq(Vals \cup {Wild})
    BY DEF Inv, TypeOK
  <2>2. CASE ReadAll
    <3>1. IsPrefix(start, seen)
      BY <2>1, <2>2, PrefixMeans DEF ReadAll
    <3> QED BY <3>1
  <2>3. ASSUME NEW j \in Nat, Amid(c, j)
        PROVE  IsPrefix(seen, start) /\ (walk = "data" => cursor # Null)
    <3>1. /\ Len(start) \in Nat /\ Len(seen) \in Nat /\ Len(c) \in Nat
          /\ Len(seen) < Len(start) /\ \A i \in 1..Len(seen) : seen[i] = start[i]
          /\ j + Len(start) <= Len(c)
      BY <2>1, <2>3 DEF Amid
    <3>2. IsPrefix(seen, start)
      BY <2>1, <3>1, PrefixMeans
    <3>3. j + Len(seen) + 1 \in 1..Len(c)
      BY <3>1
    <3>4. c[j + Len(seen) + 1] \in Nodes
      BY <3>3
    <3> QED BY <2>3, <3>2, <3>4, LinkedListAssumption DEF Amid
  <2> QED BY <2>2, <2>3 DEF Inv, Reading
<1> QED BY <1>1, InvHolds, PTL
-------------------------------------------------------------------------------
(* The refinement: what each step does to Contents. *)
LEMMA SamePutting == ASSUME NEW s, NEW i, NEW v PROVE Sequence!InsertAt(s, i, v) = InsertAt(s, i, v)
BY DEF InsertAt, Sequence!InsertAt

LEMMA SameTaking == ASSUME NEW s, NEW i PROVE Sequence!RemoveAt(s, i) = RemoveAt(s, i)
BY DEF RemoveAt, Sequence!RemoveAt

LEMMA ContentsNow ==
  ASSUME NEW c \in Seq(Nodes), NEW k \in Nat, Inv(c, k)
  PROVE  /\ Contents = Values(c) /\ Contents \in Seq(Vals) /\ Len(Contents) = Len(c)
         /\ \A i \in 1..Len(c) : Contents[i] = data[c[i]]
<1>1. Contents = Values(c)
  BY ContentsIs DEF ContentsAre, Inv
<1>2. Values(c) \in Seq(Vals) /\ Len(Values(c)) = Len(c)
  BY ValuesTyped DEF Inv
<1>3. \A i \in 1..Len(c) : Values(c)[i] = data[c[i]]
  BY DEF Values
<1> QED BY <1>1, <1>2, <1>3

LEMMA ContentsNext == ASSUME NEW c \in Seq(Nodes), NEW k \in Nat PROVE ContentsAre(c, k)'
<1>1. ContentsAre(c, k)
  BY ContentsIs
<1> QED BY <1>1, PTL

LEMMA QuietMeans ==
  ASSUME NEW c \in Seq(Nodes), NEW k \in Nat, Inv(c, k), Quiet(c)
  PROVE  Contents' = Contents
<1>1. PICK m \in Nat : Inv(c, m)' /\ Values(c)' = Values(c)
  BY DEF Quiet
<1>2. Contents' = Values(c)'
  BY <1>1, ContentsNext DEF ContentsAre, Inv
<1> QED BY <1>1, <1>2, ContentsNow

LEMMA GrowsMeans ==
  ASSUME NEW c \in Seq(Nodes), NEW k \in Nat, Inv(c, k), NEW i, NEW v, Grows(c, i, v)
  PROVE  /\ Contents' = InsertAt(Contents, i, v)
         /\ pc' = "idle" /\ call' = NoCall /\ retval' = retval
<1>1. PICK d \in Seq(Nodes) : Inv(d, 0)' /\ Values(d)' = InsertAt(Values(c), i, v)
  BY DEF Grows
<1>2. Contents' = Values(d)'
  BY <1>1, ContentsNext DEF ContentsAre, Inv
<1> QED BY <1>1, <1>2, ContentsNow DEF Grows

LEMMA ShrinksMeans ==
  ASSUME NEW c \in Seq(Nodes), NEW k \in Nat, Inv(c, k), NEW i \in 1..Len(c), Shrinks(c, i)
  PROVE  /\ Contents' = RemoveAt(Contents, i) /\ retval' = Contents[i]
         /\ pc' \in {"free", "cut"}
<1>1. PICK d \in Seq(Nodes) : Inv(d, 0)' /\ Values(d)' = RemoveAt(Values(c), i)
  BY DEF Shrinks
<1>2. Contents' = Values(d)'
  BY <1>1, ContentsNext DEF ContentsAre, Inv
<1> QED BY <1>1, <1>2, ContentsNow DEF Shrinks

(* A value put between smaller and greater ones leaves the order alone. *)
LEMMA SortedPut ==
  ASSUME NEW s \in Seq(Vals), NEW i \in 1..(Len(s) + 1), NEW v \in Vals,
         i > 1 => s[i - 1] <= v, i <= Len(s) => v <= s[i],
         Sequence!Sorted(s)
  PROVE  Sequence!Sorted(InsertAt(s, i, v))
<1> DEFINE t == InsertAt(s, i, v)
<1>1. Len(s) \in Nat /\ i \in Nat /\ 1 <= i /\ i <= Len(s) + 1
  OBVIOUS
<1>2. t \in Seq(Vals) /\ Len(t) = Len(s) + 1
  BY InsertAtPuts
<1>3. \A j \in 1..(Len(s) + 1) : t[j] = IF j < i THEN s[j] ELSE IF j = i THEN v ELSE s[j - 1]
  BY InsertAtPuts
<1> HIDE DEF t
<1>4. \A j \in 1..(Len(s) - 1) : s[j] <= s[j + 1]
  BY DEF Sequence!Sorted
<1>5. ASSUME NEW j \in 1..Len(s) PROVE t[j] <= t[j + 1]
  <2>0. /\ j \in 1..(Len(s) + 1) /\ j + 1 \in 1..(Len(s) + 1) /\ (j + 1) - 1 = j
        /\ j \in Nat
    BY <1>1
  <2>1. CASE j + 1 < i
    <3>1. j < i /\ j \in 1..(Len(s) - 1)
      BY <1>1, <2>0, <2>1
    <3> QED BY <1>3, <1>4, <2>0, <2>1, <3>1
  <2>2. CASE j + 1 = i
    <3>1. j < i /\ ~(j + 1 < i) /\ i > 1 /\ i - 1 = j
      BY <1>1, <2>0, <2>2
    <3>2. t[j] = s[j] /\ t[j + 1] = v
      BY <1>3, <2>0, <2>2, <3>1
    <3> QED BY <3>1, <3>2
  <2>3. CASE j = i
    <3>1. ~(j < i) /\ ~(j + 1 < i) /\ j + 1 # i /\ i <= Len(s)
      BY <1>1, <2>0, <2>3
    <3>2. t[j] = v /\ t[j + 1] = s[j]
      BY <1>3, <2>0, <2>3, <3>1
    <3> QED BY <2>3, <3>1, <3>2
  <2>4. CASE j > i
    <3>1. /\ ~(j < i) /\ j # i /\ ~(j + 1 < i) /\ j + 1 # i
          /\ j - 1 \in 1..(Len(s) - 1) /\ (j - 1) + 1 = j
      BY <1>1, <2>0, <2>4
    <3>2. t[j] = s[j - 1] /\ t[j + 1] = s[j]
      BY <1>3, <2>0, <3>1
    <3> QED BY <1>4, <3>1, <3>2
  <2> QED BY <1>1, <2>0, <2>1, <2>2, <2>3, <2>4
<1>6. \A j \in 1..(Len(t) - 1) : t[j] <= t[j + 1]
  BY <1>1, <1>2, <1>5
<1> QED BY <1>6 DEF t, Sequence!Sorted

(* The steps of LinkedSequence, said of the call and the contents. *)
LEMMA PutsIn ==
  ASSUME pc \notin {"free", "cut"}, pc' = "idle", call \in Calls, call' = NoCall,
         retval' = retval, call.arg \in Vals, NEW i, Contents' = InsertAt(Contents, i, call.arg),
         \/ call.op = "InsertAtHead" /\ i = 1
         \/ call.op = "InsertAtTail" /\ i = Len(Contents) + 1
         \/ /\ call.op = "InsertInOrder" /\ i \in 1..Len(Contents) + 1
            /\ Sequence!Sorted(Contents) => Sequence!Sorted(Contents')
  PROVE  Sequence!Next
<1>1. call # NoCall /\ call.arg # NoVal
  BY CallArgs, LinkedListAssumption
<1>2. Contents' = Sequence!InsertAt(Contents, i, call.arg)
  BY SamePutting
<1>3. CASE call.op = "InsertAtHead" /\ i = 1
  <2>1. Sequence!InsertAtHead
    BY <1>1, <1>2, <1>3 DEF Sequence!InsertAtHead, Sequence!Insert
  <2> QED BY <1>1, <2>1 DEF Sequence!Next, Sequence!TakeEffect
<1>4. CASE call.op = "InsertAtTail" /\ i = Len(Contents) + 1
  <2>1. Sequence!InsertAtTail
    BY <1>1, <1>2, <1>4 DEF Sequence!InsertAtTail, Sequence!Insert
  <2> QED BY <1>1, <2>1 DEF Sequence!Next, Sequence!TakeEffect
<1>5. CASE /\ call.op = "InsertInOrder" /\ i \in 1..Len(Contents) + 1
           /\ Sequence!Sorted(Contents) => Sequence!Sorted(Contents')
  <2>1. Sequence!InsertInOrder
    BY <1>1, <1>2, <1>5 DEF Sequence!InsertInOrder, Sequence!Insert, Sequence!Sorted
  <2> QED BY <1>1, <2>1 DEF Sequence!Next, Sequence!TakeEffect
<1> QED BY <1>3, <1>4, <1>5

LEMMA TakesOut ==
  ASSUME pc \notin {"free", "cut"}, pc' \in {"free", "cut"}, call \in Calls,
         NEW i \in Nat, i < Len(Contents), Contents \in Seq(Vals),
         Contents' = RemoveAt(Contents, i + 1), retval' = Contents[i + 1],
         \/ call.op = "removeFront" /\ i = 0
         \/ call.op = "removeRear" /\ i = Len(Contents) - 1
         \/ call.op = "removeByIndex" /\ i = call.arg
  PROVE  Sequence!Next
<1>1. call # NoCall /\ Contents # <<>> /\ i >= 0
  BY CallArgs
<1>2. Sequence!TakeOut(i)
  BY SameTaking DEF Sequence!TakeOut
<1>3. CASE call.op = "removeFront" /\ i = 0
  <2>1. Sequence!RemoveFront
    BY <1>2, <1>3 DEF Sequence!RemoveFront
  <2> QED BY <1>1, <2>1 DEF Sequence!Next, Sequence!TakeEffect
<1>4. CASE call.op = "removeRear" /\ i = Len(Contents) - 1
  <2>1. Sequence!RemoveRear
    BY <1>1, <1>2, <1>4 DEF Sequence!RemoveRear
  <2> QED BY <1>1, <2>1 DEF Sequence!Next, Sequence!TakeEffect
<1>5. CASE call.op = "removeByIndex" /\ i = call.arg
  <2>1. Sequence!RemoveByIndex
    BY <1>1, <1>2, <1>5 DEF Sequence!RemoveByIndex
  <2> QED BY <1>1, <2>1 DEF Sequence!Next, Sequence!TakeEffect
<1> QED BY <1>3, <1>4, <1>5

LEMMA MakeCallRefines ==
  ASSUME NEW c \in Seq(Nodes), NEW k \in Nat, Inv(c, k), UNCHANGED <<walk, cursor>>, MakeCall
  PROVE  Sequence!Next
<1>1. Contents' = Contents
  BY CallStep, QuietMeans
<1>2. pc = "idle" /\ pc' = "called" /\ call' \in Calls /\ retval' = NoVal
  BY DEF MakeCall
<1>3. call = NoCall
  BY <1>2 DEF Inv, Shape, Halfway
<1> QED BY <1>1, <1>2, <1>3 DEF Sequence!Next, Sequence!Call

LEMMA NothingRefines ==
  ASSUME NEW c \in Seq(Nodes), NEW k \in Nat, Inv(c, k), UNCHANGED <<walk, cursor>>,
         InsertNothing \/ RemoveNothing
  PROVE  Sequence!Next
<1>1. Contents' = Contents
  BY CallStep, QuietMeans
<1>2. pc = "called" /\ pc' = "idle" /\ call' = NoCall
  BY DEF InsertNothing, RemoveNothing, Calling, Return
<1>3. call \in Calls /\ call # NoCall /\ length = Len(c) /\ Len(c) \in Nat
  BY <1>2, AtCall, CallArgs
<1>4. Len(Contents) = Len(c) /\ Contents \in Seq(Vals)
  BY ContentsNow
<1>5. CASE InsertNothing
  <2>1. call.op \in Inserts /\ call.arg = NoVal /\ retval' = retval
    BY <1>5 DEF InsertNothing, Calling
  <2>2. \A p : Sequence!Insert(call.arg, p)
    BY <1>1, <2>1 DEF Sequence!Insert
  <2>3. call.op \in {"InsertAtHead", "InsertAtTail", "InsertInOrder"}
    BY <2>1, LinkedListAssumption
  <2>4. Sequence!InsertAtHead \/ Sequence!InsertAtTail \/ Sequence!InsertInOrder
    <3>1. CASE call.op = "InsertAtHead"
      BY <1>2, <2>2, <3>1 DEF Sequence!InsertAtHead
    <3>2. CASE call.op = "InsertAtTail"
      BY <1>2, <2>2, <3>2 DEF Sequence!InsertAtTail
    <3>3. CASE call.op = "InsertInOrder"
      BY <1>1, <1>2, <2>2, <3>3 DEF Sequence!InsertInOrder, Sequence!Sorted
    <3> QED BY <2>3, <3>1, <3>2, <3>3
  <2> QED BY <1>2, <1>3, <2>4 DEF Sequence!Next, Sequence!TakeEffect
<1>6. CASE RemoveNothing
  <2>1. /\ retval' = NoVal
        /\ \/ call.op \in Removes /\ length = 0
           \/ call.op = "removeByIndex" /\ length <= call.arg
    BY <1>6 DEF RemoveNothing, Calling
  <2>2. ASSUME NEW i \in Int, ~(i < Len(Contents)) PROVE Sequence!TakeOut(i)
    BY <1>1, <2>1, <2>2 DEF Sequence!TakeOut
  <2>3. CASE call.op \in Removes /\ length = 0
    <3>1. Contents = <<>> /\ Sequence!TakeOut(0)
      BY <1>3, <1>4, <2>2, <2>3
    <3>2. call.op \in {"removeFront", "removeRear"}
      BY <2>3, LinkedListAssumption
    <3>3. Sequence!RemoveFront \/ Sequence!RemoveRear
      BY <1>2, <3>1, <3>2 DEF Sequence!RemoveFront, Sequence!RemoveRear
    <3> QED BY <1>2, <1>3, <3>3 DEF Sequence!Next, Sequence!TakeEffect
  <2>4. CASE call.op = "removeByIndex" /\ length <= call.arg
    <3>1. call.arg \in Int /\ call.arg >= 0 /\ ~(call.arg < Len(Contents))
      BY <1>3, <1>4, <2>4, CallArgs
    <3>2. Sequence!RemoveByIndex
      BY <1>2, <2>2, <2>4, <3>1 DEF Sequence!RemoveByIndex
    <3> QED BY <1>2, <1>3, <3>2 DEF Sequence!Next, Sequence!TakeEffect
  <2> QED BY <2>1, <2>3, <2>4
<1> QED BY <1>5, <1>6

LEMMA FirstRefines ==
  ASSUME NEW c \in Seq(Nodes), NEW k \in Nat, Inv(c, k), UNCHANGED <<walk, cursor>>,
         InsertAtHead \/ InsertInOrderFirst
  PROVE  Sequence!Next
<1>1. call.arg \in Vals /\ Grows(c, 1, call.arg)
  BY HeadIsPutting, LinkFirstStep
<1>2. /\ pc = "called"
      /\ \/ call.op = "InsertAtHead" \/ length = 0
         \/ call.op = "InsertInOrder" /\ length # 0 /\ call.arg < data[head]
  BY DEF InsertAtHead, InsertInOrderFirst, Putting, Calling
<1>3. PICK v \in Vals : v = call.arg
  BY <1>1
<1>4. /\ Contents' = InsertAt(Contents, 1, v)
      /\ pc' = "idle" /\ call' = NoCall /\ retval' = retval
  BY <1>1, <1>3, GrowsMeans
<1>5. /\ Contents \in Seq(Vals) /\ Len(Contents) = Len(c)
      /\ \A i \in 1..Len(c) : Contents[i] = data[c[i]]
  BY ContentsNow
<1>6. /\ length = Len(c) /\ Len(c) \in Nat /\ call \in Calls
      /\ head = IF length = 0 THEN Null ELSE c[1]
  BY <1>2, AtCall
<1>7. call.op \in {"InsertAtHead", "InsertAtTail", "InsertInOrder"}
  <2>1. call.op \in Inserts
    BY HeadIsPutting DEF Putting, Calling
  <2> QED BY <2>1, LinkedListAssumption
<1>8. 1 \in 1..(Len(Contents) + 1) /\ (Len(c) # 0 => 1 \in 1..Len(c))
  BY <1>5, <1>6
<1>9. CASE call.op = "InsertInOrder"
  <2>1. 1 <= Len(Contents) => v <= Contents[1]
    <3> SUFFICES ASSUME 1 <= Len(Contents) PROVE v <= Contents[1]
      OBVIOUS
    <3>1. length # 0 /\ call.arg < data[head] /\ head = c[1] /\ Contents[1] = data[c[1]]
      BY <1>2, <1>5, <1>6, <1>8, <1>9
    <3>2. Contents[1] \in Vals
      <4>1. Contents \in Seq(Vals) /\ 1 \in 1..Len(Contents)
        BY <1>5, <1>6, <3>1
      <4> QED BY <4>1
    <3>3. v \in Int /\ Contents[1] \in Int
      BY <1>3, <3>2, LinkedListAssumption
    <3> QED BY <1>3, <3>1, <3>3
  <2>2. Sequence!Sorted(Contents) => Sequence!Sorted(InsertAt(Contents, 1, v))
    BY <1>5, <1>8, <2>1, SortedPut
  <2>3. Sequence!Sorted(Contents) => Sequence!Sorted(Contents')
    BY <1>4, <2>2
  <2> QED BY <1>1, <1>2, <1>3, <1>4, <1>6, <1>8, <1>9, <2>3, PutsIn
<1>10. CASE call.op = "InsertAtTail"
  <2>1. 1 = Len(Contents) + 1
    BY <1>2, <1>5, <1>6, <1>10
  <2> QED BY <1>1, <1>2, <1>3, <1>4, <1>6, <1>10, <2>1, PutsIn
<1>11. CASE call.op = "InsertAtHead"
  BY <1>1, <1>2, <1>3, <1>4, <1>6, <1>11, PutsIn
<1> QED BY <1>7, <1>9, <1>10, <1>11

LEMMA LastRefines ==
  ASSUME NEW c \in Seq(Nodes), NEW k \in Nat, Inv(c, k), UNCHANGED <<walk, cursor>>,
         TailNext \/ InsertInOrderLast
  PROVE  Sequence!Next
<1>1. call.arg \in Vals /\ Grows(c, Len(c) + 1, call.arg)
  BY TailNextStep, InOrderLastStep
<1>2. pc \in {"called", "tailNext"}
  BY DEF TailNext, InsertInOrderLast, Putting, Calling
<1>3. call \in Calls
  BY <1>2 DEF Inv, Shape, Halfway
<1>4. PICK v \in Vals : v = call.arg
  BY <1>1
<1>5. /\ Contents' = InsertAt(Contents, Len(c) + 1, v)
      /\ pc' = "idle" /\ call' = NoCall /\ retval' = retval
  BY <1>1, <1>4, GrowsMeans
<1>6. /\ Contents \in Seq(Vals) /\ Len(Contents) = Len(c)
      /\ \A i \in 1..Len(c) : Contents[i] = data[c[i]]
  BY ContentsNow
<1>7. CASE TailNext
  <2>1. call.op = "InsertAtTail"
    BY <1>7, TailNextStep
  <2> QED BY <1>1, <1>2, <1>3, <1>4, <1>5, <1>6, <2>1, PutsIn
<1>8. CASE InsertInOrderLast
  <2>1. call.op = "InsertInOrder" /\ \A i \in 1..Len(c) : data[c[i]] <= call.arg
    BY <1>8, InOrderLastStep
  <2>2. PICK i \in 1..(Len(Contents) + 1) : i = Len(c) + 1
    BY <1>6
  <2>3. i > 1 => Contents[i - 1] <= v
    <3>1. i > 1 => i - 1 \in 1..Len(c)
      BY <1>6, <2>2
    <3> QED BY <1>4, <1>6, <2>1, <3>1
  <2>4. ~(i <= Len(Contents))
    BY <1>6, <2>2
  <2>5. Sequence!Sorted(Contents) => Sequence!Sorted(InsertAt(Contents, i, v))
    BY <1>6, <2>2, <2>3, <2>4, SortedPut
  <2>6. Contents' = InsertAt(Contents, i, call.arg)
    BY <1>4, <1>5, <2>2
  <2>7. Sequence!Sorted(Contents) => Sequence!Sorted(Contents')
    BY <1>4, <2>5, <2>6
  <2> QED BY <1>1, <1>2, <1>3, <1>5, <2>1, <2>2, <2>6, <2>7, PutsIn
<1> QED BY <1>7, <1>8

LEMMA RejoinRefines ==
  ASSUME NEW c \in Seq(Nodes), NEW k \in Nat, Inv(c, k), UNCHANGED <<walk, cursor>>, Rejoin
  PROVE  Sequence!Next
<1>1. /\ call.arg \in Vals /\ call.op = "InsertInOrder" /\ Grows(c, k + 1, call.arg)
      /\ k \in 1..(Len(c) - 1) /\ data[c[k]] <= call.arg /\ call.arg <= data[c[k + 1]]
  BY RejoinStep
<1>2. pc = "rejoin" /\ call \in Calls
  BY DEF Rejoin, Inv, Shape, Halfway
<1>3. PICK v \in Vals : v = call.arg
  BY <1>1
<1>4. /\ Contents \in Seq(Vals) /\ Len(Contents) = Len(c)
      /\ \A i \in 1..Len(c) : Contents[i] = data[c[i]]
  BY ContentsNow
<1>5. PICK i \in 1..(Len(Contents) + 1) : i = k + 1
  BY <1>1, <1>4
<1>6. /\ Contents' = InsertAt(Contents, i, v)
      /\ pc' = "idle" /\ call' = NoCall /\ retval' = retval
  BY <1>1, <1>3, <1>5, GrowsMeans
<1>7. k \in 1..Len(c) /\ k + 1 \in 1..Len(c) /\ i - 1 = k
  BY <1>1, <1>5
<1>8. Contents[i - 1] <= v /\ v <= Contents[i]
  BY <1>1, <1>3, <1>4, <1>5, <1>7
<1>9. Sequence!Sorted(Contents) => Sequence!Sorted(InsertAt(Contents, i, v))
  BY <1>4, <1>8, SortedPut
<1>10. /\ Contents' = InsertAt(Contents, i, call.arg)
       /\ Sequence!Sorted(Contents) => Sequence!Sorted(Contents')
  BY <1>3, <1>6, <1>9
<1> QED BY <1>1, <1>2, <1>5, <1>6, <1>10, PutsIn

LEMMA RemovalRefines ==
  ASSUME NEW c \in Seq(Nodes), NEW k \in Nat, Inv(c, k), UNCHANGED <<walk, cursor>>,
         RemoveFront \/ RemoveByIndexFirst \/ RemoveByIndex \/ RemoveRear
  PROVE  Sequence!Next
<1>1. pc = "called"
  BY DEF RemoveFront, RemoveByIndexFirst, RemoveByIndex, RemoveRear, Calling
<1>2. call \in Calls /\ length = Len(c) /\ Len(c) \in Nat
  BY <1>1, AtCall
<1>3. Contents \in Seq(Vals) /\ Len(Contents) = Len(c)
  BY ContentsNow
<1>4. ASSUME NEW i \in Nat, i < Len(c), Shrinks(c, i + 1),
             \/ call.op = "removeFront" /\ i = 0
             \/ call.op = "removeRear" /\ i = Len(Contents) - 1
             \/ call.op = "removeByIndex" /\ i = call.arg
      PROVE  Sequence!Next
  <2>1. PICK j \in 1..Len(c) : j = i + 1
    BY <1>2, <1>4
  <2>2. /\ Contents' = RemoveAt(Contents, j) /\ retval' = Contents[j]
        /\ pc' \in {"free", "cut"}
    BY <1>4, <2>1, ShrinksMeans
  <2>3. Contents' = RemoveAt(Contents, i + 1) /\ retval' = Contents[i + 1]
    BY <2>1, <2>2
  <2> QED BY <1>1, <1>2, <1>3, <1>4, <2>2, <2>3, TakesOut
<1>5. CASE RemoveFront \/ RemoveByIndexFirst
  <2>1. Shrinks(c, 0 + 1) /\ 0 < Len(c)
    BY <1>2, <1>5, FrontIsThere, UnlinkFirstStep
  <2>2. \/ call.op = "removeFront"
        \/ call.op = "removeRear" /\ length = 1
        \/ call.op = "removeByIndex" /\ call.arg = 0
    BY <1>5 DEF RemoveFront, RemoveByIndexFirst, Calling
  <2> QED BY <1>2, <1>3, <1>4, <2>1, <2>2
<1>6. CASE RemoveByIndex
  <2>1. call.arg \in 1..(Len(c) - 1) /\ Shrinks(c, call.arg + 1)
    BY <1>6, RemoveByIndexStep
  <2>2. PICK i \in 1..(Len(c) - 1) : i = call.arg
    BY <2>1
  <2>3. i \in Nat /\ i < Len(c) /\ Shrinks(c, i + 1) /\ call.op = "removeByIndex"
    BY <1>2, <1>6, <2>1, <2>2 DEF RemoveByIndex, Calling
  <2> QED BY <1>4, <2>2, <2>3
<1>7. CASE RemoveRear
  <2>1. Shrinks(c, Len(c)) /\ call.op = "removeRear" /\ Len(c) > 1
    BY <1>7, RemoveRearStep
  <2>2. PICK i \in Nat : i = Len(c) - 1
    BY <1>2, <2>1
  <2>3. i < Len(c) /\ i + 1 = Len(c)
    BY <1>2, <2>2
  <2> QED BY <1>3, <1>4, <2>1, <2>2, <2>3
<1> QED BY <1>5, <1>6, <1>7

(* The nodes and pointers of linkedlist.c keep the promise of a sequence:  *)
(* each of its calls takes effect at one moment, on the list as the calls  *)
(* before have left it, and returns what was there.                        *)
THEOREM KeepsThePromise == Spec => ImplementsSequence
<1>1. Init => Sequence!Init
  <2> SUFFICES ASSUME Init PROVE Sequence!Init
    OBVIOUS
  <2>1. pc = "idle" /\ length = 0 /\ call = NoCall /\ retval = NoVal
    BY DEF Init
  <2>2. Contents = <<>>
    BY <2>1 DEF Contents
  <2> QED BY <2>1, <2>2 DEF Sequence!Init
<1>2. ListInv /\ [Next]_vars => [Sequence!Next]_Sequence!vars
  <2> SUFFICES ASSUME NEW c \in Seq(Nodes), NEW k \in Nat, Inv(c, k), [Next]_vars
               PROVE  Sequence!Next \/ UNCHANGED Sequence!vars
    BY DEF ListInv
  <2>1. CASE UNCHANGED vars
    BY <2>1, StutterKeeps, QuietMeans DEF Sequence!vars
  <2>2. CASE Walk
    <3>1. UNCHANGED <<pc, call, retval>>
      BY <2>2 DEF Walk, writer
    <3>2. Quiet(c)
      BY <2>2, ReaderStep DEF Quiet
    <3> QED BY <3>1, <3>2, QuietMeans DEF Sequence!vars
  <2>3. CASE Write
    <3>1. UNCHANGED <<walk, cursor>>
      BY <2>3 DEF Write
    <3>2. CASE MakeCall
      BY <3>1, <3>2, MakeCallRefines
    <3>3. CASE InsertNothing \/ RemoveNothing
      BY <3>1, <3>3, NothingRefines
    <3>4. CASE InsertAtHead \/ InsertInOrderFirst
      BY <3>1, <3>4, FirstRefines
    <3>5. CASE TailNext \/ InsertInOrderLast
      BY <3>1, <3>5, LastRefines
    <3>6. CASE Rejoin
      BY <3>1, <3>6, RejoinRefines
    <3>7. CASE RemoveFront \/ RemoveByIndexFirst \/ RemoveByIndex \/ RemoveRear
      BY <3>1, <3>7, RemovalRefines
    <3>8. CASE RemoveByIndexNegative
      <4>1. UNCHANGED <<pc, call, retval>>
        BY <3>8 DEF RemoveByIndexNegative, writer
      <4> QED BY <3>1, <3>8, <4>1, CallStep, QuietMeans DEF Sequence!vars
    <3>9. CASE TailLink \/ TailData \/ InsertInOrderMiddle
      <4>1. Contents' = Contents
        BY <3>1, <3>9, TailLinkStep, TailDataStep, MiddleStep, QuietMeans
      <4>2. /\ pc \in {"called", "tailData"} /\ pc' \in {"tailData", "tailNext", "rejoin"}
            /\ call' = call /\ retval' = retval
        BY <3>9 DEF TailLink, TailData, InsertInOrderMiddle, Putting, Calling, Continue
      <4> QED BY <4>1, <4>2 DEF Sequence!vars
    <3>10. CASE FreeUnlinked \/ Cut
      <4>1. Contents' = Contents
        BY <3>1, <3>10, FreeStep, CutStep, QuietMeans
      <4>2. pc \in {"free", "cut"} /\ pc' = "idle" /\ call' = NoCall /\ retval' = retval
        BY <3>10 DEF FreeUnlinked, Cut, Return
      <4> QED BY <4>1, <4>2 DEF Sequence!vars
    <3> QED BY <2>3, <3>2, <3>3, <3>4, <3>5, <3>6, <3>7, <3>8, <3>9, <3>10 DEF Write
  <2> QED BY <2>1, <2>2, <2>3 DEF Next
<1> QED BY <1>1, <1>2, InvHolds, PTL DEF Spec, ImplementsSequence, Sequence!Spec
===============================================================================
