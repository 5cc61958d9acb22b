------------------------------- MODULE DataLemmas -------------------------------
(***************************************************************************)
(* Lemmas about data that several proofs need: what Min of FiniteSetsExt,  *)
(* and so SelectInSeq of SequencesExt, returns; induction; sums over       *)
(* finite sets, MapThenSumSet of FiniteSetsExt; sequences, and iteration.  *)
(*                                                                         *)
(* The induction theorems of the library take an operator; here induction  *)
(* is said of a set of numbers, and a sum of the values of a function.     *)
(***************************************************************************)
EXTENDS Integers, SequencesExt, FiniteSetTheorems, SequenceTheorems,
        WellFoundedInduction, TLAPS

(* A nonempty set of natural numbers has a least element, which is its Min. *)
LEMMA MinOfNaturals ==
  ASSUME NEW S \in SUBSET Nat, S # {}
  PROVE  Min(S) \in S /\ \A y \in S : Min(S) <= y
<1>1. PICK m \in S : \A y \in S : ~ (<<y, m>> \in OpToRel(<, Nat))
  BY NatLessThanWellFounded, WFMin
<1>2. m \in Nat /\ \A y \in S : y \in Nat
  OBVIOUS
<1>3. \A y \in S : ~ (y < m)
  BY <1>1, <1>2, Zenon DEF OpToRel
<1>4. \A y \in S : m <= y
  BY <1>2, <1>3
<1> QED BY <1>4 DEF Min

(* Induction over the natural numbers, said of a set: *)
LEMMA InductiveSet ==
  ASSUME NEW T \in SUBSET Nat, 0 \in T, \A n \in T : n + 1 \in T
  PROVE  T = Nat
<1> SUFFICES ASSUME Nat \ T # {} PROVE FALSE
  OBVIOUS
<1>1. Min(Nat \ T) \in Nat \ T /\ \A y \in Nat \ T : Min(Nat \ T) <= y
  BY MinOfNaturals
<1>2. Min(Nat \ T) - 1 \in Nat /\ Min(Nat \ T) - 1 \notin Nat \ T
  BY <1>1
<1> QED BY <1>1, <1>2

(* The sum of the values of a function over a set of its arguments. *)
Total(f, S) == MapThenSumSet(LAMBDA x : f[x], S)

Pick(s) == CHOOSE x \in s : TRUE
Adding(f, D, it) ==
  [s \in D |-> IF s = {} THEN 0 ELSE f[Pick(s)] + it[s \ {Pick(s)}]]

(* Pick(s) is in s, if anything is. *)
LEMMA PickIn == ASSUME NEW s, s # {} PROVE Pick(s) \in s
BY DEF Pick

(* A sum is what the fold of the community modules computes. *)
LEMMA TotalIs ==
  ASSUME NEW f, NEW S
  PROVE Total(f, S) = (CHOOSE it : it = Adding(f, SUBSET S, it))[S]
BY DEF Total, MapThenSumSet, MapThenFoldSet, Adding, Pick

(* What is left without the one picked is smaller. *)
LEMMA WithoutPick ==
  ASSUME NEW s, IsFiniteSet(s), s # {}
  PROVE  /\ Pick(s) \in s /\ IsFiniteSet(s \ {Pick(s)})
         /\ Cardinality(s) \in Nat /\ Cardinality(s \ {Pick(s)}) \in Nat
         /\ Cardinality(s \ {Pick(s)}) = Cardinality(s) - 1
<1>1. Pick(s) \in s
  BY PickIn
<1>2. IsFiniteSet(s \ {Pick(s)}) /\ Cardinality(s \ {Pick(s)}) = Cardinality(s) - 1
  BY <1>1, FS_RemoveElement
<1> QED BY <1>1, <1>2, FS_CardinalityType

(* The recursion behind the sum has a solution. *)
LEMMA AddingExists ==
  ASSUME NEW f, NEW S, IsFiniteSet(S)
  PROVE  \E it : it = Adding(f, SUBSET S, it)
<1> DEFINE D(n) == {s \in SUBSET S : Cardinality(s) <= n}
           T == {n \in Nat : \E it : it = Adding(f, D(n), it)}
<1>1. \A s \in SUBSET S : IsFiniteSet(s) /\ Cardinality(s) \in Nat
  BY FS_Subset, FS_CardinalityType
<1>2. 0 \in T
  <2>1. \A s \in D(0) : s = {}
    BY <1>1, FS_EmptySet
  <2> DEFINE z == [s \in D(0) |-> 0]
  <2>2. z = Adding(f, D(0), z)
    BY <2>1 DEF Adding
  <2> QED BY <2>2
<1>3. ASSUME NEW n \in T PROVE n + 1 \in T
  <2>1. PICK it : it = Adding(f, D(n), it)
    OBVIOUS
  <2> DEFINE next == Adding(f, D(n + 1), it)
  <2>2. ASSUME NEW s \in D(n + 1), s # {} PROVE next[s \ {Pick(s)}] = it[s \ {Pick(s)}]
    <3> DEFINE r == s \ {Pick(s)}
    <3>1. r \in SUBSET S /\ Cardinality(r) \in Nat /\ Cardinality(r) <= n
      BY <1>1, <2>2, WithoutPick
    <3>2. r \in D(n) /\ r \in D(n + 1)
      BY <3>1
    <3> HIDE DEF r, D
    <3>3. /\ it[r] = IF r = {} THEN 0 ELSE f[Pick(r)] + it[r \ {Pick(r)}]
          /\ next[r] = IF r = {} THEN 0 ELSE f[Pick(r)] + it[r \ {Pick(r)}]
      BY <2>1, <3>2 DEF Adding
    <3> QED BY <3>3 DEF r
  <2>3. next = Adding(f, D(n + 1), next)
    <3> HIDE DEF D
    <3> QED BY <2>2 DEF Adding
  <2>4. n + 1 \in Nat
    OBVIOUS
  <2> QED BY <2>3, <2>4
<1>4. Cardinality(S) \in T
  <2> HIDE DEF D
  <2>1. T = Nat
    BY <1>2, <1>3, InductiveSet
  <2> HIDE DEF T
  <2> QED BY <1>1, <2>1
<1>5. D(Cardinality(S)) = SUBSET S
  BY <1>1, FS_Subset
<1> QED BY <1>4, <1>5

Solves(it, f, D, S) == SUBSET S \subseteq D /\ it = Adding(f, D, it)
Agree(f, g, S) == \A x \in S : f[x] = g[x]

(* All solutions of the recursion agree. *)
LEMMA SolutionsAgree ==
  ASSUME NEW f, NEW g, NEW S, IsFiniteSet(S), NEW D, NEW E, NEW it, NEW jt,
         Solves(it, f, D, S), Solves(jt, g, E, S), Agree(f, g, S)
  PROVE  it[S] = jt[S]
<1> DEFINE T == {n \in Nat : \A s \in SUBSET S : Cardinality(s) = n => it[s] = jt[s]}
<1>1. \A s \in SUBSET S : IsFiniteSet(s) /\ Cardinality(s) \in Nat
  BY FS_Subset, FS_CardinalityType
<1>2. \A s \in SUBSET S :
        /\ it[s] = IF s = {} THEN 0 ELSE f[Pick(s)] + it[s \ {Pick(s)}]
        /\ jt[s] = IF s = {} THEN 0 ELSE g[Pick(s)] + jt[s \ {Pick(s)}]
  BY DEF Adding, Solves
<1>3. 0 \in T
  BY <1>1, <1>2, FS_EmptySet
<1>4. ASSUME NEW n \in T PROVE n + 1 \in T
  <2>1. ASSUME NEW s \in SUBSET S, Cardinality(s) = n + 1 PROVE it[s] = jt[s]
    <3>1. n + 1 # 0 /\ s # {}
      <4>1. n \in Nat /\ Cardinality({}) = 0
        BY FS_EmptySet
      <4> QED BY <2>1, <4>1
    <3>2. /\ Pick(s) \in S /\ s \ {Pick(s)} \in SUBSET S
          /\ Cardinality(s \ {Pick(s)}) = n
      BY <1>1, <2>1, <3>1, WithoutPick
    <3>3. it[s \ {Pick(s)}] = jt[s \ {Pick(s)}]
      BY <3>2
    <3> QED BY <1>2, <3>1, <3>2, <3>3 DEF Agree
  <2> QED BY <2>1
<1>5. T = Nat
  BY <1>3, <1>4, InductiveSet
<1> HIDE DEF T
<1>6. \A s \in SUBSET S : Cardinality(s) \in T
  BY <1>1, <1>5
<1> QED BY <1>6 DEF T

(* The sum is what a solution of the recursion gives. *)
LEMMA TotalSolves ==
  ASSUME NEW f, NEW S, IsFiniteSet(S)
  PROVE  \E it : Solves(it, f, SUBSET S, S) /\ Total(f, S) = it[S]
<1> DEFINE it == CHOOSE j : j = Adding(f, SUBSET S, j)
<1>1. it = Adding(f, SUBSET S, it)
  BY AddingExists
<1>2. Solves(it, f, SUBSET S, S)
  BY <1>1 DEF Solves
<1>3. Total(f, S) = it[S]
  BY TotalIs
<1> QED BY <1>2, <1>3

(* Functions that agree on S have the same sum over S. *)
LEMMA TotalCongruent ==
  ASSUME NEW f, NEW g, NEW S, IsFiniteSet(S), \A x \in S : f[x] = g[x]
  PROVE  Total(f, S) = Total(g, S)
<1>1. Agree(f, g, S)
  BY DEF Agree
<1>2. PICK it : Solves(it, f, SUBSET S, S) /\ Total(f, S) = it[S]
  BY TotalSolves
<1>3. PICK jt : Solves(jt, g, SUBSET S, S) /\ Total(g, S) = jt[S]
  BY TotalSolves
<1> QED BY <1>1, <1>2, <1>3, SolutionsAgree

(* The recursion, said of sums. *)
LEMMA TotalDef ==
  ASSUME NEW f, NEW S, IsFiniteSet(S)
  PROVE  Total(f, S) = IF S = {} THEN 0 ELSE f[Pick(S)] + Total(f, S \ {Pick(S)})
<1>1. PICK it : Solves(it, f, SUBSET S, S) /\ Total(f, S) = it[S]
  BY TotalSolves
<1>2. it[S] = IF S = {} THEN 0 ELSE f[Pick(S)] + it[S \ {Pick(S)}]
  BY <1>1 DEF Solves, Adding
<1> DEFINE r == S \ {Pick(S)}
<1>3. IsFiniteSet(r) /\ Agree(f, f, r)
  BY FS_Subset DEF Agree
<1>4. Solves(it, f, SUBSET S, r)
  BY <1>1 DEF Solves
<1>5. PICK jt : Solves(jt, f, SUBSET r, r) /\ Total(f, r) = jt[r]
  BY <1>3, TotalSolves
<1> HIDE DEF r
<1>6. it[r] = jt[r]
  BY <1>3, <1>4, <1>5, SolutionsAgree
<1> QED BY <1>1, <1>2, <1>5, <1>6 DEF r

(* The empty sum is 0. *)
LEMMA TotalOfNone == ASSUME NEW f PROVE Total(f, {}) = 0
BY TotalDef, FS_EmptySet

(* A sum of integers is an integer. *)
LEMMA TotalTyped ==
  ASSUME NEW f, NEW S, IsFiniteSet(S), \A x \in S : f[x] \in Int
  PROVE  Total(f, S) \in Int
<1> DEFINE T == {n \in Nat : \A s \in SUBSET S : Cardinality(s) = n => Total(f, s) \in Int}
<1>1. \A s \in SUBSET S : IsFiniteSet(s) /\ Cardinality(s) \in Nat
  BY FS_Subset, FS_CardinalityType
<1>2. 0 \in T
  BY <1>1, TotalOfNone, FS_EmptySet
<1>3. ASSUME NEW n \in T PROVE n + 1 \in T
  <2>1. ASSUME NEW s \in SUBSET S, Cardinality(s) = n + 1 PROVE Total(f, s) \in Int
    <3>1. n + 1 # 0 /\ Cardinality({}) = 0 /\ s # {}
      BY <2>1, FS_EmptySet
    <3>2. /\ Pick(s) \in S /\ s \ {Pick(s)} \in SUBSET S
          /\ Cardinality(s \ {Pick(s)}) = n
      BY <1>1, <2>1, <3>1, WithoutPick
    <3>3. Total(f, s \ {Pick(s)}) \in Int /\ f[Pick(s)] \in Int
      BY <3>2
    <3>4. Total(f, s) = f[Pick(s)] + Total(f, s \ {Pick(s)})
      BY <1>1, <3>1, TotalDef
    <3> QED BY <3>3, <3>4
  <2> QED BY <2>1
<1>4. T = Nat
  BY <1>2, <1>3, InductiveSet
<1> HIDE DEF T
<1>5. Cardinality(S) \in T
  BY <1>1, <1>4
<1> QED BY <1>5 DEF T

(* A sum of zeros is 0. *)
LEMMA TotalOfZeros ==
  ASSUME NEW f, NEW S, IsFiniteSet(S), \A x \in S : f[x] = 0
  PROVE  Total(f, S) = 0
<1> DEFINE T == {n \in Nat : \A s \in SUBSET S : Cardinality(s) = n => Total(f, s) = 0}
<1>1. \A s \in SUBSET S : IsFiniteSet(s) /\ Cardinality(s) \in Nat
  BY FS_Subset, FS_CardinalityType
<1>2. 0 \in T
  BY <1>1, TotalOfNone, FS_EmptySet
<1>3. ASSUME NEW n \in T PROVE n + 1 \in T
  <2>1. ASSUME NEW s \in SUBSET S, Cardinality(s) = n + 1 PROVE Total(f, s) = 0
    <3>1. n + 1 # 0 /\ Cardinality({}) = 0 /\ s # {}
      BY <2>1, FS_EmptySet
    <3>2. /\ Pick(s) \in S /\ s \ {Pick(s)} \in SUBSET S
          /\ Cardinality(s \ {Pick(s)}) = n
      BY <1>1, <2>1, <3>1, WithoutPick
    <3>3. Total(f, s \ {Pick(s)}) = 0 /\ f[Pick(s)] = 0
      BY <3>2
    <3>4. Total(f, s) = f[Pick(s)] + Total(f, s \ {Pick(s)})
      BY <1>1, <3>1, TotalDef
    <3> QED BY <3>3, <3>4
  <2> QED BY <2>1
<1>4. T = Nat
  BY <1>2, <1>3, InductiveSet
<1> HIDE DEF T
<1>5. Cardinality(S) \in T
  BY <1>1, <1>4
<1> QED BY <1>5 DEF T

(* Any element may be taken out first. *)
LEMMA TotalWithout ==
  ASSUME NEW f, NEW S, IsFiniteSet(S), \A x \in S : f[x] \in Int, NEW y \in S
  PROVE  Total(f, S) = f[y] + Total(f, S \ {y})
<1> DEFINE Splits(s) == \A x \in s : Total(f, s) = f[x] + Total(f, s \ {x})
           T == {n \in Nat : \A s \in SUBSET S : Cardinality(s) = n => Splits(s)}
<1>1. \A s \in SUBSET S : IsFiniteSet(s) /\ Cardinality(s) \in Nat /\ Total(f, s) \in Int
  BY FS_Subset, FS_CardinalityType, TotalTyped
<1>2. 0 \in T
  <2>1. \A s \in SUBSET S : Cardinality(s) = 0 => s = {}
    BY <1>1, FS_EmptySet
  <2> QED BY <2>1
<1>3. ASSUME NEW n \in T PROVE n + 1 \in T
  <2>1. ASSUME NEW s \in SUBSET S, Cardinality(s) = n + 1, NEW x \in s
        PROVE  Total(f, s) = f[x] + Total(f, s \ {x})
    <3> DEFINE p == Pick(s)
    <3>1. /\ p \in s /\ s \ {p} \in SUBSET S /\ Cardinality(s \ {p}) = n
      BY <1>1, <2>1, WithoutPick
    <3>2. Total(f, s) = f[p] + Total(f, s \ {p})
      BY <1>1, TotalDef
    <3> HIDE DEF p
    <3>3. CASE x = p
      BY <3>2, <3>3
    <3>4. CASE x # p
      <4> DEFINE r == (s \ {p}) \ {x}
      <4>1. r = (s \ {x}) \ {p} /\ r \in SUBSET S /\ s \ {x} \in SUBSET S
        BY <3>1
      <4>2. Total(f, s \ {p}) = f[x] + Total(f, r)
        BY <3>1, <3>4
      <4>3. Cardinality(s \ {x}) = n
        <5>1. Cardinality(s \ {x}) = Cardinality(s) - 1 /\ n \in Nat
          BY <1>1, <2>1, FS_RemoveElement
        <5> QED BY <2>1, <5>1
      <4>4. Total(f, s \ {x}) = f[p] + Total(f, r)
        BY <3>1, <3>4, <4>1, <4>3
      <4>5. Total(f, r) \in Int /\ f[x] \in Int /\ f[p] \in Int
        BY <1>1, <3>1, <4>1
      <4> QED BY <3>2, <4>2, <4>4, <4>5
    <3> QED BY <3>3, <3>4
  <2> QED BY <2>1
<1>4. T = Nat
  BY <1>2, <1>3, InductiveSet
<1> HIDE DEF T
<1>5. Cardinality(S) \in T
  BY <1>1, <1>4
<1> HIDE DEF Splits
<1>6. Splits(S)
  BY <1>5 DEF T
<1> QED BY <1>6 DEF Splits

(* Putting an element in adds its value. *)
LEMMA TotalWith ==
  ASSUME NEW f, NEW S, IsFiniteSet(S), \A x \in S : f[x] \in Int, NEW y, y \notin S, f[y] \in Int
  PROVE  Total(f, S \cup {y}) = Total(f, S) + f[y]
<1>1. IsFiniteSet(S \cup {y}) /\ (S \cup {y}) \ {y} = S
  BY FS_AddElement
<1>2. Total(f, S \cup {y}) = f[y] + Total(f, S)
  BY <1>1, TotalWithout
<1> QED BY <1>2, TotalTyped

(* Changing one value changes the sum by as much. *)
LEMMA TotalChanged ==
  ASSUME NEW f, NEW g, NEW S, IsFiniteSet(S),
         \A x \in S : f[x] \in Int /\ g[x] \in Int,
         NEW y \in S, \A x \in S : x # y => g[x] = f[x]
  PROVE  Total(g, S) = Total(f, S) + (g[y] - f[y])
<1>1. IsFiniteSet(S \ {y})
  BY FS_Subset
<1>2. Total(g, S \ {y}) = Total(f, S \ {y})
  BY <1>1, TotalCongruent
<1>3. Total(f, S) = f[y] + Total(f, S \ {y}) /\ Total(g, S) = g[y] + Total(g, S \ {y})
  BY TotalWithout
<1>4. Total(f, S \ {y}) \in Int
  BY <1>1, TotalTyped
<1> QED BY <1>2, <1>3, <1>4

(* The sum of f over the values of g. *)
TotalOver(f, g, S) == MapThenSumSet(LAMBDA x : f[g[x]], S)

AddingOver(f, g, D, it) ==
  [s \in D |-> IF s = {} THEN 0 ELSE f[g[Pick(s)]] + it[s \ {Pick(s)}]]

(* A sum of f[g[x]] is the sum of that function of x. *)
LEMMA TotalOverIs ==
  ASSUME NEW f, NEW g, NEW S, IsFiniteSet(S)
  PROVE  TotalOver(f, g, S) = Total([x \in S |-> f[g[x]]], S)
<1> DEFINE h == [x \in S |-> f[g[x]]]
           it == CHOOSE j : j = AddingOver(f, g, SUBSET S, j)
<1>1. TotalOver(f, g, S) = it[S]
  BY DEF TotalOver, MapThenSumSet, MapThenFoldSet, AddingOver, Pick
<1>2. ASSUME NEW j PROVE AddingOver(f, g, SUBSET S, j) = Adding(h, SUBSET S, j)
  <2>1. \A s \in SUBSET S : s # {} => h[Pick(s)] = f[g[Pick(s)]]
    BY PickIn
  <2> HIDE DEF h
  <2> QED BY <2>1 DEF Adding, AddingOver
<1>3. \E j : j = AddingOver(f, g, SUBSET S, j)
  <2> HIDE DEF h
  <2>1. PICK j : j = Adding(h, SUBSET S, j)
    BY AddingExists
  <2> QED BY <1>2, <2>1
<1>4. it = AddingOver(f, g, SUBSET S, it)
  BY <1>3
<1> HIDE DEF it, h
<1>5. Solves(it, h, SUBSET S, S)
  BY <1>2, <1>4 DEF Solves
<1>6. PICK jt : Solves(jt, h, SUBSET S, S) /\ Total(h, S) = jt[S]
  BY TotalSolves
<1>7. Agree(h, h, S)
  BY DEF Agree
<1>8. it[S] = jt[S]
  BY <1>5, <1>6, <1>7, SolutionsAgree
<1> QED BY <1>1, <1>6, <1>8 DEF h

(* It depends on f at the values of g only. *)
LEMMA TotalOverCongruent ==
  ASSUME NEW f, NEW h, NEW g, NEW S, IsFiniteSet(S), \A x \in S : h[g[x]] = f[g[x]]
  PROVE  TotalOver(h, g, S) = TotalOver(f, g, S)
<1> DEFINE p == [x \in S |-> h[g[x]]]
           q == [x \in S |-> f[g[x]]]
<1>1. p = q
  OBVIOUS
<1>2. TotalOver(h, g, S) = Total(p, S)
  BY TotalOverIs
<1>3. TotalOver(f, g, S) = Total(q, S)
  BY TotalOverIs
<1> HIDE DEF p, q
<1> QED BY <1>1, <1>2, <1>3

(* Appending a to a sequence adds f[a] to the sum over the sequence. *)
LEMMA TotalOverAppend ==
  ASSUME NEW T, NEW s \in Seq(T), NEW a \in T, NEW f, \A x \in T : f[x] \in Int
  PROVE  /\ TotalOver(f, s, 1..Len(s)) \in Int
         /\ TotalOver(f, Append(s, a), 1..Len(Append(s, a)))
              = TotalOver(f, s, 1..Len(s)) + f[a]
<1> DEFINE n == Len(s)
           r == Append(s, a)
           g == [i \in 1..n |-> f[s[i]]]
           h == [i \in 1..(n + 1) |-> f[r[i]]]
<1>1. /\ n \in Nat /\ Len(r) = n + 1 /\ r[n + 1] = a
      /\ \A i \in 1..n : r[i] = s[i] /\ s[i] \in T /\ i \in 1..(n + 1)
  OBVIOUS
<1>2. IsFiniteSet(1..n) /\ IsFiniteSet(1..(n + 1))
  BY <1>1, FS_Interval
<1>3. TotalOver(f, s, 1..n) = Total(g, 1..n) /\ TotalOver(f, r, 1..(n + 1)) = Total(h, 1..(n + 1))
  BY <1>2, TotalOverIs
<1> HIDE DEF n, r
<1>4. \A i \in 1..n : g[i] \in Int /\ h[i] = g[i]
  BY <1>1
<1>5. h[n + 1] = f[a] /\ n + 1 \in 1..(n + 1)
  BY <1>1
<1>6. \A i \in 1..(n + 1) : h[i] \in Int
  <2>1. \A i \in 1..(n + 1) : i \in 1..n \/ i = n + 1
    BY <1>1
  <2> QED BY <1>4, <1>5, <2>1
<1> HIDE DEF g, h
<1>7. Total(g, 1..n) \in Int
  BY <1>2, <1>4, TotalTyped
<1>8. Total(h, 1..(n + 1)) = h[n + 1] + Total(h, (1..(n + 1)) \ {n + 1})
  BY <1>2, <1>5, <1>6, TotalWithout
<1>9. (1..(n + 1)) \ {n + 1} = 1..n
  BY <1>1
<1>10. Total(h, 1..n) = Total(g, 1..n)
  BY <1>2, <1>4, TotalCongruent
<1>11. TotalOver(f, s, 1..n) \in Int
  BY <1>3, <1>7
<1>12. TotalOver(f, r, 1..Len(r)) = TotalOver(f, s, 1..n) + f[a]
  <2>1. TotalOver(f, r, 1..Len(r)) = TotalOver(f, r, 1..(n + 1))
    BY <1>1
  <2>2. Total(h, 1..(n + 1)) = f[a] + Total(g, 1..n)
    BY <1>5, <1>8, <1>9, <1>10
  <2>3. f[a] \in Int
    OBVIOUS
  <2> QED BY <1>3, <1>7, <2>1, <2>2, <2>3
<1> QED BY <1>11, <1>12 DEF n, r
-------------------------------------------------------------------------------
(* RemoveAt closes the gap and keeps everything else. *)
LEMMA RemoveAtDrops ==
  ASSUME NEW S, NEW s \in Seq(S), NEW i \in 1..Len(s)
  PROVE  /\ RemoveAt(s, i) \in Seq(S)
         /\ Len(RemoveAt(s, i)) = Len(s) - 1
         /\ \A j \in 1..(Len(s) - 1) :
              RemoveAt(s, i)[j] = IF j < i THEN s[j] ELSE s[j + 1]
<1> DEFINE front == SubSeq(s, 1, i - 1)
           back == SubSeq(s, i + 1, Len(s))
<1>1. front \in Seq(S) /\ Len(front) = i - 1 /\ \A j \in 1..(i - 1) : front[j] = s[j]
  BY SubSeqProperties
<1>2. /\ back \in Seq(S) /\ Len(back) = Len(s) - i
      /\ \A j \in 1..(Len(s) - i) : back[j] = s[i + j]
  BY SubSeqProperties
<1>3. RemoveAt(s, i) = front \o back
  BY DEF RemoveAt
<1> HIDE DEF front, back
<1>4. /\ front \o back \in Seq(S)
      /\ Len(front \o back) = Len(front) + Len(back)
      /\ \A j \in 1..(Len(front) + Len(back)) :
           (front \o back)[j] = IF j <= Len(front) THEN front[j] ELSE back[j - Len(front)]
  BY <1>1, <1>2, ConcatProperties, Zenon
<1>5. Len(front) = i - 1 /\ Len(back) = Len(s) - i /\ i \in Nat /\ Len(s) \in Nat
  BY <1>1, <1>2
<1>6. ASSUME NEW j \in 1..(Len(s) - 1)
      PROVE  (front \o back)[j] = IF j < i THEN s[j] ELSE s[j + 1]
  <2>1. CASE j < i
    BY <1>1, <1>4, <1>5, <2>1
  <2>2. CASE ~(j < i)
    <3>1. j - Len(front) \in 1..(Len(s) - i) /\ i + (j - Len(front)) = j + 1
      BY <1>5, <2>2
    <3>2. (front \o back)[j] = back[j - Len(front)]
      BY <1>4, <1>5, <2>2
    <3> QED BY <1>2, <2>2, <3>1, <3>2
  <2> QED BY <2>1, <2>2
<1> QED BY <1>3, <1>4, <1>5, <1>6

(* InsertAt makes room and keeps everything else. *)
LEMMA InsertAtPuts ==
  ASSUME NEW S, NEW s \in Seq(S), NEW i \in 1..(Len(s) + 1), NEW v \in S
  PROVE  /\ InsertAt(s, i, v) \in Seq(S)
         /\ Len(InsertAt(s, i, v)) = Len(s) + 1
         /\ \A j \in 1..(Len(s) + 1) :
              InsertAt(s, i, v)[j] = IF j < i THEN s[j] ELSE IF j = i THEN v ELSE s[j - 1]
<1> DEFINE front == SubSeq(s, 1, i - 1)
           back == SubSeq(s, i, Len(s))
           some == front \o <<v>>
<1>1. front \in Seq(S) /\ Len(front) = i - 1 /\ \A j \in 1..(i - 1) : front[j] = s[j]
  BY SubSeqProperties
<1>2. /\ back \in Seq(S) /\ Len(back) = Len(s) - i + 1
      /\ \A j \in 1..(Len(s) - i + 1) : back[j] = s[i + j - 1]
  BY SubSeqProperties
<1>3. InsertAt(s, i, v) = some \o back
  BY DEF InsertAt
<1> HIDE DEF front, back
<1>4. <<v>> \in Seq(S) /\ Len(<<v>>) = 1 /\ <<v>>[1] = v
  OBVIOUS
<1>5. /\ some \in Seq(S) /\ Len(some) = i
      /\ \A j \in 1..i : some[j] = IF j < i THEN s[j] ELSE v
  <2>1. /\ some \in Seq(S) /\ Len(some) = Len(front) + Len(<<v>>)
        /\ \A j \in 1..(Len(front) + Len(<<v>>)) :
             some[j] = IF j <= Len(front) THEN front[j] ELSE <<v>>[j - Len(front)]
    BY <1>1, <1>4, ConcatProperties, Zenon
  <2>2. Len(some) = i
    BY <1>1, <1>4, <2>1
  <2> HIDE DEF some
  <2>3. ASSUME NEW j \in 1..i PROVE some[j] = IF j < i THEN s[j] ELSE v
    <3>1. some[j] = IF j <= i - 1 THEN front[j] ELSE <<v>>[j - (i - 1)]
      BY <1>1, <1>4, <2>1
    <3>2. j < i => j <= i - 1 /\ j \in 1..(i - 1)
      OBVIOUS
    <3>3. ~(j < i) => ~(j <= i - 1) /\ j - (i - 1) = 1
      OBVIOUS
    <3> QED BY <1>1, <1>4, <3>1, <3>2, <3>3
  <2> QED BY <2>1, <2>2, <2>3
<1> HIDE DEF some
<1>6. /\ some \o back \in Seq(S)
      /\ Len(some \o back) = Len(some) + Len(back)
      /\ \A j \in 1..(Len(some) + Len(back)) :
           (some \o back)[j] = IF j <= Len(some) THEN some[j] ELSE back[j - Len(some)]
  BY <1>2, <1>5, ConcatProperties, Zenon
<1>7. Len(some) + Len(back) = Len(s) + 1
  BY <1>2, <1>5
<1>8. ASSUME NEW j \in 1..(Len(s) + 1)
      PROVE  (some \o back)[j] = IF j < i THEN s[j] ELSE IF j = i THEN v ELSE s[j - 1]
  <2>1. CASE j <= i
    <3>1. j \in 1..i
      BY <2>1
    <3> QED BY <1>5, <1>6, <1>7, <2>1, <3>1
  <2>2. CASE ~(j <= i)
    <3>1. j - i \in 1..(Len(s) - i + 1) /\ i + (j - i) - 1 = j - 1
      BY <2>2
    <3>2. (some \o back)[j] = back[j - i]
      BY <1>5, <1>6, <1>7, <2>2
    <3> QED BY <1>2, <2>2, <3>1, <3>2
  <2> QED BY <2>1, <2>2
<1> QED BY <1>3, <1>6, <1>7, <1>8

(* A prefix agrees with the whole for its own length. *)
LEMMA PrefixMeans ==
  ASSUME NEW S, NEW T, NEW s \in Seq(S), NEW t \in Seq(T)
  PROVE  IsPrefix(s, t) <=> Len(s) <= Len(t) /\ \A i \in 1..Len(s) : s[i] = t[i]
<1> SUFFICES ASSUME Len(s) <= Len(t)
             PROVE  SubSeq(s, 1, Len(s)) = SubSeq(t, 1, Len(s))
                      <=> \A i \in 1..Len(s) : s[i] = t[i]
  BY DEF IsPrefix
<1> DEFINE u == SubSeq(s, 1, Len(s))
           v == SubSeq(t, 1, Len(s))
<1>1. u = [i \in 1..Len(s) |-> s[i]] /\ v = [i \in 1..Len(s) |-> t[i]]
  OBVIOUS
<1> HIDE DEF u, v
<1> QED BY <1>1

(* A sequence without repetitions is as long as the set of its elements. *)
LEMMA DistinctLength ==
  ASSUME NEW S, IsFiniteSet(S), NEW s \in Seq(S),
         \A i, j \in 1..Len(s) : s[i] = s[j] => i = j
  PROVE  /\ IsFiniteSet(Range(s)) /\ Range(s) \subseteq S
         /\ Cardinality(Range(s)) = Len(s) /\ Len(s) <= Cardinality(S)
<1>1. Len(s) \in Nat /\ s \in [1..Len(s) -> S]
  OBVIOUS
<1>2. Range(s) = {s[i] : i \in 1..Len(s)} /\ Range(s) \subseteq S
  BY <1>1 DEF Range
<1>3. s \in Surjection(1..Len(s), Range(s)) /\ s \in Injection(1..Len(s), Range(s))
  BY <1>1, <1>2 DEF Surjection, Injection, IsInjective
<1>4. IsFiniteSet(1..Len(s)) /\ Cardinality(1..Len(s)) = Len(s)
  <2>1. 1 \in Int /\ Len(s) \in Int
    BY <1>1
  <2> QED BY <1>1, <2>1, FS_Interval
<1>5. IsFiniteSet(Range(s)) /\ Cardinality(Range(s)) = Len(s)
  BY <1>3, <1>4, FS_Surjection
<1>6. Range(s) \in SUBSET S
  BY <1>2
<1>7. Cardinality(Range(s)) <= Cardinality(S)
  BY <1>6, FS_Subset
<1> QED BY <1>2, <1>5, <1>7

(* Following the arrows of g from x, N times. *)
Iterates(f, D, g, x, N) ==
  f \in [0..N -> D] /\ f[0] = x /\ \A k \in 1..N : f[k] = g[f[k - 1]]

LEMMA Iteration ==
  ASSUME NEW D, NEW g \in [D -> D], NEW x \in D, NEW N \in Nat
  PROVE  \E f : Iterates(f, D, g, x, N)
<1> DEFINE T == {n \in Nat : \E f : Iterates(f, D, g, x, n)}
<1>1. 0 \in T
  <2> DEFINE f == [k \in 0..0 |-> x]
  <2>1. Iterates(f, D, g, x, 0)
    BY DEF Iterates
  <2> QED BY <2>1
<1>2. ASSUME NEW n \in T PROVE n + 1 \in T
  <2>1. PICK f : Iterates(f, D, g, x, n)
    OBVIOUS
  <2> DEFINE h == [k \in 0..(n + 1) |-> IF k <= n THEN f[k] ELSE g[f[n]]]
  <2>2. h \in [0..(n + 1) -> D]
    BY <2>1 DEF Iterates
  <2>3. ASSUME NEW k \in 1..(n + 1) PROVE h[k] = g[h[k - 1]]
    <3>1. k - 1 \in 0..n /\ h[k - 1] = f[k - 1]
      OBVIOUS
    <3>2. CASE k <= n
      BY <2>1, <3>1, <3>2 DEF Iterates
    <3>3. CASE ~(k <= n)
      <4>1. k - 1 = n
        BY <3>3
      <4> QED BY <3>1, <3>3, <4>1
    <3> QED BY <3>2, <3>3
  <2>4. h[0] = x
    BY <2>1 DEF Iterates
  <2> HIDE DEF h
  <2>5. Iterates(h, D, g, x, n + 1)
    BY <2>2, <2>3, <2>4 DEF Iterates
  <2> QED BY <2>5
<1>3. T = Nat
  BY <1>1, <1>2, InductiveSet
<1> HIDE DEF T
<1>4. N \in T
  BY <1>3
<1> QED BY <1>4 DEF T
===============================================================================
