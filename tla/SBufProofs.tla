------------------------------ MODULE SBufProofs ------------------------------
(***************************************************************************)
(* Proofs about SBuf for any number of client threads, job threads, slots  *)
(* and jobs.  The accounting of the ring holds as long as no more jobs are *)
(* made than a C int can count (JobBound <= IntMax): beyond that rear and  *)
(* front wrap, and the remainders that index the ring become negative.     *)
(* The last part: the ring implements the queue of JobQueue.               *)
(***************************************************************************)
EXTENDS SBuf, FiniteSetTheorems, SequenceTheorems, TLAPS

(* The variables of sbuf.c keep their types, and the semaphores stay       *)
(* natural numbers, whatever the threads do.                               *)
THEOREM TypeCorrect == Spec => []TypeOK
<1>1. Init => TypeOK
  BY SBufAssumption DEF Init, TypeOK, Threads
<1>2. TypeOK /\ [Next]_vars => TypeOK'
  <2> SUFFICES ASSUME TypeOK, [Next]_vars PROVE TypeOK'
    OBVIOUS
  <2> USE SBufAssumption DEF TypeOK, Go, JobIds, Threads, ring, sems
  <2>1. ASSUME NEW c \in Clients, NewJob(c) \/ ClientStep(c) PROVE TypeOK'
    <3>1. CASE NewJob(c)        BY <3>1 DEF NewJob
    <3>2. CASE InsertPSlots(c)  BY <3>2 DEF InsertPSlots
    <3>3. CASE InsertPMutex(c)  BY <3>3 DEF InsertPMutex
    <3>4. CASE InsertStore(c)   BY <3>4 DEF InsertStore, Incr, Store
    <3>5. CASE InsertVMutex(c)  BY <3>5 DEF InsertVMutex
    <3>6. CASE InsertVItems(c)  BY <3>6 DEF InsertVItems
    <3> QED BY <2>1, <3>1, <3>2, <3>3, <3>4, <3>5, <3>6 DEF ClientStep
  <2>2. ASSUME NEW t \in JobThreads, JobThreadStep(t) PROVE TypeOK'
    <3>1. CASE RemovePItems(t)  BY <3>1 DEF RemovePItems
    <3>2. CASE RemovePMutex(t)  BY <3>2 DEF RemovePMutex
    <3>3. CASE RemoveLoad(t)
      <4>1. Loads(front') \subseteq JobIds \cup {NoJob}
        BY DEF Loads
      <4>2. job' \in [Threads -> JobIds \cup {NoJob}]
        BY <3>3, <4>1 DEF RemoveLoad
      <4> QED BY <3>3, <4>2 DEF RemoveLoad, Incr
    <3>4. CASE RemoveVMutex(t)  BY <3>4 DEF RemoveVMutex
    <3>5. CASE RemoveVSlots(t)  BY <3>5 DEF RemoveVSlots
    <3>6. CASE ProcessJob(t)    BY <3>6 DEF ProcessJob
    <3> QED BY <2>2, <3>1, <3>2, <3>3, <3>4, <3>5, <3>6 DEF JobThreadStep
  <2>3. CASE UNCHANGED vars
    BY <2>3 DEF vars
  <2> QED BY <2>1, <2>2, <2>3 DEF Next, Quiescent
<1> QED BY <1>1, <1>2, PTL DEF Spec
-------------------------------------------------------------------------------
(* A thread that moves from one label to another enters, leaves or stays   *)
(* outside the set of threads at some labels, and the size of that set     *)
(* follows.                                                                *)
LEMMA AtMoves ==
  ASSUME TypeOK, NEW t \in Threads, NEW from, NEW to, Go(t, from, to), NEW L
  PROVE  At(L)' = IF to \in L THEN At(L) \cup {t} ELSE At(L) \ {t}
  BY DEF TypeOK, At, Go

(* Such a set is finite, so that its size is a number. *)
LEMMA AtIsFinite ==
  ASSUME NEW L
  PROVE  IsFiniteSet(At(L)) /\ Cardinality(At(L)) \in Nat
<1>1. IsFiniteSet(Threads)
  BY FS_Union, SBufAssumption DEF Threads
<1> QED BY <1>1, FS_Subset, FS_CardinalityType DEF At

(* How the size of such a set changes in a step. *)
LEMMA AtCounts ==
  ASSUME TypeOK, NEW t \in Threads, NEW from, NEW to, Go(t, from, to), NEW L
  PROVE  /\ Cardinality(At(L)) \in Nat
         /\ from \in L => Cardinality(At(L)) > 0
         /\ Cardinality(At(L)') =
              Cardinality(At(L)) + (IF to \in L THEN 1 ELSE 0)
                                 - (IF from \in L THEN 1 ELSE 0)
<1>2. IsFiniteSet(At(L)) /\ Cardinality(At(L)) \in Nat
  BY AtIsFinite
<1>3. t \in At(L) <=> from \in L
  BY DEF At, Go
<1>4. from \in L => Cardinality(At(L)) > 0
  BY <1>2, <1>3, FS_EmptySet
<1>5. At(L)' = IF to \in L THEN At(L) \cup {t} ELSE At(L) \ {t}
  BY AtMoves
<1>6. Cardinality(At(L) \cup {t}) =
        Cardinality(At(L)) + (IF from \in L THEN 0 ELSE 1)
  <2>1. Cardinality(At(L) \cup {t}) =
          IF t \in At(L) THEN Cardinality(At(L)) ELSE Cardinality(At(L)) + 1
    BY <1>2, FS_AddElement
  <2> QED BY <1>2, <1>3, <2>1
<1>7. Cardinality(At(L) \ {t}) =
        Cardinality(At(L)) - (IF from \in L THEN 1 ELSE 0)
  <2>1. Cardinality(At(L) \ {t}) =
          IF t \in At(L) THEN Cardinality(At(L)) - 1 ELSE Cardinality(At(L))
    BY <1>2, FS_RemoveElement
  <2> QED BY <1>2, <1>3, <2>1
<1>8. Cardinality(At(L)') =
        Cardinality(At(L)) + (IF to \in L THEN 1 ELSE 0)
                           - (IF from \in L THEN 1 ELSE 0)
  <2>1. CASE to \in L
    <3>1. Cardinality(At(L)') = Cardinality(At(L) \cup {t})  BY <1>5, <2>1
    <3> QED BY <1>2, <1>6, <2>1, <3>1
  <2>2. CASE to \notin L
    <3>1. Cardinality(At(L)') = Cardinality(At(L) \ {t})  BY <1>5, <2>2
    <3> QED BY <1>2, <1>7, <2>2, <3>1
  <2> QED BY <2>1, <2>2
<1> QED BY <1>2, <1>4, <1>8
-------------------------------------------------------------------------------
CS == {"insert", "V_mutex_insert", "remove", "V_mutex_remove"}

(* What a step has to do with the mutex, depending on whether it enters or *)
(* leaves the critical section.                                            *)
LEMMA CSMoves ==
  ASSUME TypeOK, MutexExcludes, NEW t \in Threads, NEW from, NEW to, Go(t, from, to),
         from \in CS /\ to \in CS => mutex' = mutex,
         from \in CS /\ to \notin CS => mutex' = mutex + 1,
         from \notin CS /\ to \in CS => mutex > 0 /\ mutex' = mutex - 1,
         from \notin CS /\ to \notin CS => mutex' = mutex
  PROVE  MutexExcludes'
<1>1. InCS = At(CS) /\ InCS' = At(CS)'
  BY DEF InCS, CS
<1>2. InCS' = IF to \in CS THEN InCS \cup {t} ELSE InCS \ {t}
  BY <1>1, AtMoves
<1>3. t \in InCS <=> from \in CS
  BY <1>1 DEF At, Go
<1>4. mutex \in {0, 1} /\ (\A v, u \in InCS : v = u) /\ (InCS # {} => mutex = 0)
  BY DEF MutexExcludes
<1>5. CASE from \in CS /\ to \in CS
  BY <1>2, <1>3, <1>4, <1>5 DEF MutexExcludes
<1>6. CASE from \in CS /\ to \notin CS
  <2>1. InCS' = {}
    BY <1>2, <1>3, <1>4, <1>6
  <2>2. mutex' = 1
    BY <1>3, <1>4, <1>6
  <2> QED BY <2>1, <2>2 DEF MutexExcludes
<1>7. CASE from \notin CS /\ to \in CS
  <2>1. mutex' = 0 /\ InCS = {}
    BY <1>4, <1>7
  <2> QED BY <1>2, <1>7, <2>1 DEF MutexExcludes
<1>8. CASE from \notin CS /\ to \notin CS
  BY <1>2, <1>3, <1>4, <1>8 DEF MutexExcludes
<1> QED BY <1>5, <1>6, <1>7, <1>8

(* At most one thread is inside the ring, and the mutex is never posted    *)
(* above 1: for any number of threads.                                     *)
THEOREM MutualExclusion == Spec => []MutexExcludes
<1>1. Init => MutexExcludes
  BY DEF Init, MutexExcludes, InCS, At, Threads
<1>2. TypeOK /\ MutexExcludes /\ [Next]_vars => MutexExcludes'
  <2> SUFFICES ASSUME TypeOK, MutexExcludes, [Next]_vars PROVE MutexExcludes'
    OBVIOUS
  <2> USE DEF CS, ring, sems
  <2>1. ASSUME NEW c \in Clients, NewJob(c) \/ ClientStep(c) PROVE MutexExcludes'
    <3>1. c \in Threads
      BY DEF Threads
    <3>2. CASE NewJob(c)        BY <3>1, <3>2, CSMoves DEF NewJob
    <3>3. CASE InsertPSlots(c)  BY <3>1, <3>3, CSMoves DEF InsertPSlots
    <3>4. CASE InsertPMutex(c)  BY <3>1, <3>4, CSMoves DEF InsertPMutex
    <3>5. CASE InsertStore(c)   BY <3>1, <3>5, CSMoves DEF InsertStore
    <3>6. CASE InsertVMutex(c)  BY <3>1, <3>6, CSMoves DEF InsertVMutex
    <3>7. CASE InsertVItems(c)  BY <3>1, <3>7, CSMoves DEF InsertVItems
    <3> QED BY <2>1, <3>2, <3>3, <3>4, <3>5, <3>6, <3>7 DEF ClientStep
  <2>2. ASSUME NEW t \in JobThreads, JobThreadStep(t) PROVE MutexExcludes'
    <3>1. t \in Threads
      BY DEF Threads
    <3>2. CASE RemovePItems(t)  BY <3>1, <3>2, CSMoves DEF RemovePItems
    <3>3. CASE RemovePMutex(t)  BY <3>1, <3>3, CSMoves DEF RemovePMutex
    <3>4. CASE RemoveLoad(t)    BY <3>1, <3>4, CSMoves DEF RemoveLoad
    <3>5. CASE RemoveVMutex(t)  BY <3>1, <3>5, CSMoves DEF RemoveVMutex
    <3>6. CASE RemoveVSlots(t)  BY <3>1, <3>6, CSMoves DEF RemoveVSlots
    <3>7. CASE ProcessJob(t)    BY <3>1, <3>7, CSMoves DEF ProcessJob
    <3> QED BY <2>2, <3>2, <3>3, <3>4, <3>5, <3>6, <3>7 DEF JobThreadStep
  <2>3. CASE UNCHANGED vars
    BY <2>3 DEF vars, MutexExcludes, InCS, At
  <2> QED BY <2>1, <2>2, <2>3 DEF Next, Quiescent
<1> QED BY <1>1, <1>2, TypeCorrect, PTL DEF Spec
-------------------------------------------------------------------------------
(* The strengthening that makes SlotsAccounted inductive: rear counts the  *)
(* jobs that have been stored, so it cannot pass INT_MAX before more than  *)
(* INT_MAX jobs were made, and front stays behind it.                      *)
Carrying == At({"P_slots", "P_mutex_insert", "insert"})
Counters == rear = made - Cardinality(Carrying) /\ front \in Nat

(* Where no thread is, none is counted. *)
LEMMA NothingCounted ==
  ASSUME NEW L, At(L) = {}
  PROVE  Cardinality(At(L)) = 0
  BY FS_EmptySet

(* How the five counts change in a step. *)
Moves(claimed, posting, draining, freeing, carrying) ==
  /\ Cardinality(Claimed)' = Cardinality(Claimed) + claimed
  /\ Cardinality(Posting)' = Cardinality(Posting) + posting
  /\ Cardinality(Draining)' = Cardinality(Draining) + draining
  /\ Cardinality(Freeing)' = Cardinality(Freeing) + freeing
  /\ Cardinality(Carrying)' = Cardinality(Carrying) + carrying

(* The effect of each step of sbuf_insert and sbuf_remove on the counts. *)
LEMMA CountsFollow ==
  ASSUME TypeOK, NEW t \in Threads
  PROVE  /\ Go(t, "idle", "P_slots") => Moves(0, 0, 0, 0, 1)
         /\ Go(t, "P_slots", "P_mutex_insert") => Moves(1, 0, 0, 0, 0)
         /\ Go(t, "P_mutex_insert", "insert") => Moves(0, 0, 0, 0, 0)
         /\ Go(t, "insert", "V_mutex_insert") => Moves(-1, 1, 0, 0, -1)
         /\ Go(t, "V_mutex_insert", "V_items") => Moves(0, 0, 0, 0, 0)
         /\ Go(t, "V_items", "idle") => Moves(0, -1, 0, 0, 0)
         /\ Go(t, "P_items", "P_mutex_remove") => Moves(0, 0, 1, 0, 0)
         /\ Go(t, "P_mutex_remove", "remove") => Moves(0, 0, 0, 0, 0)
         /\ Go(t, "remove", "V_mutex_remove") => Moves(0, 0, -1, 1, 0)
         /\ Go(t, "V_mutex_remove", "V_slots") => Moves(0, 0, 0, 0, 0)
         /\ Go(t, "V_slots", "process") => Moves(0, 0, 0, -1, 0)
         /\ Go(t, "process", "P_items") => Moves(0, 0, 0, 0, 0)
         /\ pc[t] = "remove" => Cardinality(Draining) > 0
         /\ pc[t] = "insert" => Cardinality(Carrying) > 0
<1> USE DEF Claimed, Posting, Draining, Freeing, Carrying, Moves
<1>1. Go(t, "idle", "P_slots") => Moves(0, 0, 0, 0, 1)
  BY AtCounts, AtIsFinite
<1>2. Go(t, "P_slots", "P_mutex_insert") => Moves(1, 0, 0, 0, 0)
  BY AtCounts, AtIsFinite
<1>3. Go(t, "P_mutex_insert", "insert") => Moves(0, 0, 0, 0, 0)
  BY AtCounts, AtIsFinite
<1>4. Go(t, "insert", "V_mutex_insert") => Moves(-1, 1, 0, 0, -1)
  BY AtCounts, AtIsFinite
<1>5. Go(t, "V_mutex_insert", "V_items") => Moves(0, 0, 0, 0, 0)
  BY AtCounts, AtIsFinite
<1>6. Go(t, "V_items", "idle") => Moves(0, -1, 0, 0, 0)
  BY AtCounts, AtIsFinite
<1>7. Go(t, "P_items", "P_mutex_remove") => Moves(0, 0, 1, 0, 0)
  BY AtCounts, AtIsFinite
<1>8. Go(t, "P_mutex_remove", "remove") => Moves(0, 0, 0, 0, 0)
  BY AtCounts, AtIsFinite
<1>9. Go(t, "remove", "V_mutex_remove") => Moves(0, 0, -1, 1, 0)
  BY AtCounts, AtIsFinite
<1>10. Go(t, "V_mutex_remove", "V_slots") => Moves(0, 0, 0, 0, 0)
  BY AtCounts, AtIsFinite
<1>11. Go(t, "V_slots", "process") => Moves(0, 0, 0, -1, 0)
  BY AtCounts, AtIsFinite
<1>12. Go(t, "process", "P_items") => Moves(0, 0, 0, 0, 0)
  BY AtCounts, AtIsFinite
<1>13. pc[t] = "remove" => Cardinality(Draining) > 0
  <2>1. pc[t] = "remove" => Draining # {}
    BY DEF At
  <2> QED BY <2>1, AtIsFinite, FS_EmptySet
<1>14. pc[t] = "insert" => Cardinality(Carrying) > 0
  <2>1. pc[t] = "insert" => Carrying # {}
    BY DEF At
  <2> QED BY <2>1, AtIsFinite, FS_EmptySet
<1> QED BY <1>1, <1>2, <1>3, <1>4, <1>5, <1>6, <1>7, <1>8, <1>9, <1>10, <1>11, <1>12, <1>13, <1>14

(* The induction: every P and V moves a slot or an item from one of the    *)
(* counts to another.                                                      *)
LEMMA AccountingInvariant ==
  ASSUME JobBound <= IntMax
  PROVE  Spec => [](SlotsAccounted /\ Counters)
<1> DEFINE Inv == SlotsAccounted /\ Counters
<1>1. Init => Inv
  <2> SUFFICES ASSUME Init PROVE Inv
    OBVIOUS
  <2>1. \A t \in Threads : pc[t] \in {"idle", "P_items"}
    BY DEF Init
  <2>2. /\ Cardinality(Claimed) = 0 /\ Cardinality(Freeing) = 0
        /\ Cardinality(Posting) = 0 /\ Cardinality(Draining) = 0
        /\ Cardinality(Carrying) = 0
    BY <2>1, NothingCounted DEF At, Claimed, Posting, Draining, Freeing, Carrying
  <2> QED BY <2>2, SBufAssumption DEF Init, SlotsAccounted, Counters
<1>2. TypeOK /\ Inv /\ [Next]_vars => Inv'
  <2> SUFFICES ASSUME TypeOK, Inv, [Next]_vars PROVE Inv'
    OBVIOUS
  <2>1. /\ N \in Nat /\ IntMax \in Nat /\ JobBound \in Nat /\ JobBound <= IntMax
        /\ made \in 0..JobBound /\ rear \in Int /\ front \in Nat
        /\ slots \in Nat /\ items \in Nat
    BY SBufAssumption DEF TypeOK, Counters
  <2>2. /\ Cardinality(Claimed) \in Nat /\ Cardinality(Posting) \in Nat
        /\ Cardinality(Draining) \in Nat /\ Cardinality(Freeing) \in Nat
        /\ Cardinality(Carrying) \in Nat
    BY AtIsFinite DEF Claimed, Posting, Draining, Freeing, Carrying
  <2> USE <2>1, <2>2 DEF SlotsAccounted, Counters, Moves, ring, sems
  <2>3. ASSUME NEW c \in Clients, NewJob(c) \/ ClientStep(c) PROVE Inv'
    <3>1. c \in Threads
      BY DEF Threads
    <3>2. CASE NewJob(c)
      BY <3>1, <3>2, CountsFollow DEF NewJob
    <3>3. CASE InsertPSlots(c)
      BY <3>1, <3>3, CountsFollow DEF InsertPSlots
    <3>4. CASE InsertPMutex(c)
      BY <3>1, <3>4, CountsFollow DEF InsertPMutex
    <3>5. CASE InsertStore(c)
      <4>1. Cardinality(Carrying) > 0
        BY <3>1, <3>5, CountsFollow DEF InsertStore, Go
      <4>2. rear < IntMax
        BY <4>1
      <4> QED BY <3>1, <3>5, <4>2, CountsFollow DEF InsertStore, Incr
    <3>6. CASE InsertVMutex(c)
      BY <3>1, <3>6, CountsFollow DEF InsertVMutex
    <3>7. CASE InsertVItems(c)
      BY <3>1, <3>7, CountsFollow DEF InsertVItems
    <3> QED BY <2>3, <3>2, <3>3, <3>4, <3>5, <3>6, <3>7 DEF ClientStep
  <2>4. ASSUME NEW t \in JobThreads, JobThreadStep(t) PROVE Inv'
    <3>1. t \in Threads
      BY DEF Threads
    <3>2. CASE RemovePItems(t)
      BY <3>1, <3>2, CountsFollow DEF RemovePItems
    <3>3. CASE RemovePMutex(t)
      BY <3>1, <3>3, CountsFollow DEF RemovePMutex
    <3>4. CASE RemoveLoad(t)
      <4>1. Cardinality(Draining) > 0
        BY <3>1, <3>4, CountsFollow DEF RemoveLoad, Go
      <4>2. front < IntMax
        BY <4>1
      <4> QED BY <3>1, <3>4, <4>2, CountsFollow DEF RemoveLoad, Incr
    <3>5. CASE RemoveVMutex(t)
      BY <3>1, <3>5, CountsFollow DEF RemoveVMutex
    <3>6. CASE RemoveVSlots(t)
      BY <3>1, <3>6, CountsFollow DEF RemoveVSlots
    <3>7. CASE ProcessJob(t)
      BY <3>1, <3>7, CountsFollow DEF ProcessJob
    <3> QED BY <2>4, <3>2, <3>3, <3>4, <3>5, <3>6, <3>7 DEF JobThreadStep
  <2>5. CASE UNCHANGED vars
    BY <2>5 DEF vars, Claimed, Posting, Draining, Freeing, Carrying, At
  <2> QED BY <2>3, <2>4, <2>5 DEF Next, Quiescent
<1> QED BY <1>1, <1>2, TypeCorrect, PTL DEF Spec

(* The slots and the items of the ring are accounted for at every step,    *)
(* for any number of threads, as long as rear and front cannot overflow.   *)
THEOREM Accounting ==
  ASSUME JobBound <= IntMax
  PROVE  Spec => []SlotsAccounted
BY AccountingInvariant, PTL

(* The ring never holds more than N jobs, nor fewer than none. *)
RingBounded == rear - front \in 0..N

(* The expressions of the comment in sbuf.h stay inside the ring, for any  *)
(* number of threads and slots, as long as fewer jobs than INT_MAX come.   *)
THEOREM RingSound ==
  ASSUME JobBound < IntMax
  PROVE  Spec => [](RingBounded /\ IndicesInRing)
<1>1. TypeOK /\ SlotsAccounted /\ Counters => RingBounded /\ IndicesInRing
  <2> SUFFICES ASSUME TypeOK, SlotsAccounted, Counters
               PROVE  RingBounded /\ IndicesInRing
    OBVIOUS
  <2>1. /\ Cardinality(Claimed) \in Nat /\ Cardinality(Posting) \in Nat
        /\ Cardinality(Draining) \in Nat /\ Cardinality(Freeing) \in Nat
        /\ Cardinality(Carrying) \in Nat
    BY AtIsFinite DEF Claimed, Posting, Draining, Freeing, Carrying
  <2>2. /\ N \in Nat \ {0} /\ IntMax \in Nat /\ JobBound \in Nat
        /\ made \in 0..JobBound /\ rear \in Int /\ front \in Nat
        /\ slots \in Nat /\ items \in Nat
    BY SBufAssumption DEF TypeOK, Counters
  <2>3. front <= rear /\ rear <= front + N /\ rear < IntMax
    BY <2>1, <2>2 DEF SlotsAccounted, Counters
  <2>4. \A i \in Nat : SlotOf(i) \in 0..N-1
    BY <2>2 DEF SlotOf, Rem
  <2>5. Incr(front) \in Nat /\ rear \in Nat
    BY <2>2, <2>3 DEF Incr
  <2> QED BY <2>2, <2>3, <2>4, <2>5 DEF RingBounded, IndicesInRing
<1>2. JobBound <= IntMax
  BY SBufAssumption
<1> QED BY <1>1, <1>2, TypeCorrect, AccountingInvariant, PTL
-------------------------------------------------------------------------------
(* Two places of the ring that are less than N apart have different slots. *)
LEMMA SlotsDiffer ==
  ASSUME NEW x \in Nat, NEW y \in Nat, x < y, y - x < N
  PROVE  SlotOf(x) # SlotOf(y)
<1>1. N \in Nat \ {0}
  BY SBufAssumption
<1>2. SlotOf(x) = x % N /\ SlotOf(y) = y % N
  BY <1>1 DEF SlotOf, Rem
<1> DEFINE p == x \div N
           q == y \div N
<1>3. p \in Int /\ q \in Int /\ x % N \in Int /\ y % N \in Int
  BY <1>1
<1>4. x = N * p + (x % N) /\ y = N * q + (y % N)
  BY <1>1
<1> HIDE DEF p, q
<1>5. SUFFICES ASSUME x % N = y % N PROVE FALSE
  BY <1>2
<1>6. y - x = N * q - N * p
  BY <1>1, <1>3, <1>4, <1>5
<1>7. N * q - N * p = N * (q - p)
  BY <1>1, <1>3
<1> DEFINE k == q - p
<1>8. k \in Int /\ 0 < N * k /\ N * k < N
  BY <1>1, <1>3, <1>6, <1>7
<1> HIDE DEF k
<1>9. CASE k <= 0
  <2>1. N * k <= 0
    BY <1>1, <1>8, <1>9
  <2> QED BY <1>1, <1>8, <2>1
<1>10. CASE k >= 1
  <2>1. N * k >= N
    BY <1>1, <1>8, <1>10
  <2> QED BY <1>1, <1>8, <2>1
<1> QED BY <1>8, <1>9, <1>10

(* Who holds a job: a client thread until the store, a job thread from the *)
(* load until processJob returns.                                          *)
Holding == {"P_slots", "P_mutex_insert", "insert", "V_mutex_remove", "V_slots", "process"}
JobsHeld ==
  \A t \in Threads : IF pc[t] \in Holding THEN job[t] \in JobIds ELSE job[t] = NoJob

(* The slots between front and rear hold jobs. *)
RingHolds == \A i \in 1..(rear - front) : buf[SlotOf(front + i)] \in JobIds

Carried == JobsHeld /\ RingHolds

(* What the accounting says of the ring, and of a thread about to enter it. *)
Limits ==
  /\ front \in Nat /\ rear \in Nat /\ front <= rear /\ rear - front <= N /\ rear < IntMax
  /\ \A t \in Threads : /\ pc[t] = "insert" => rear - front < N
                        /\ pc[t] = "remove" => front < rear

LEMMA WithinLimits ==
  ASSUME JobBound < IntMax, TypeOK, SlotsAccounted, Counters
  PROVE  Limits
<1>1. /\ Cardinality(Claimed) \in Nat /\ Cardinality(Posting) \in Nat
      /\ Cardinality(Draining) \in Nat /\ Cardinality(Freeing) \in Nat
      /\ Cardinality(Carrying) \in Nat
  BY AtIsFinite DEF Claimed, Posting, Draining, Freeing, Carrying
<1>2. /\ N \in Nat \ {0} /\ IntMax \in Nat /\ JobBound \in Nat
      /\ made \in 0..JobBound /\ rear \in Int /\ front \in Nat
      /\ slots \in Nat /\ items \in Nat
  BY SBufAssumption DEF TypeOK, Counters
<1>3. front <= rear /\ rear <= front + N /\ rear < IntMax
  BY <1>1, <1>2 DEF SlotsAccounted, Counters
<1>4. ASSUME NEW t \in Threads, pc[t] = "insert" PROVE rear - front < N
  <2>1. Cardinality(Claimed) > 0
    <3>1. Claimed # {}
      BY <1>4 DEF Claimed, At
    <3> QED BY <3>1, <1>1, AtIsFinite, FS_EmptySet DEF Claimed
  <2> QED BY <1>1, <1>2, <2>1 DEF SlotsAccounted
<1>5. ASSUME NEW t \in Threads, pc[t] = "remove" PROVE front < rear
  <2>1. Cardinality(Draining) > 0
    BY <1>5, CountsFollow
  <2> QED BY <1>1, <1>2, <2>1 DEF SlotsAccounted
<1> QED BY <1>2, <1>3, <1>4, <1>5 DEF Limits

(* The slots of the ring, and the queue read off it. *)
LEMMA SlotsOfRing ==
  ASSUME NEW i \in Nat
  PROVE  SlotOf(i) \in 0..N-1
BY SBufAssumption DEF SlotOf, Rem

LEMMA WaitingIs ==
  ASSUME Limits, RingHolds
  PROVE  /\ Waiting \in Seq(JobIds) /\ Len(Waiting) = rear - front
         /\ \A i \in 1..(rear - front) : Waiting[i] = buf[SlotOf(front + i)]
<1>1. rear - front \in Nat
  BY DEF Limits
<1> QED BY <1>1 DEF Waiting, RingHolds

WaitingMeans == /\ Waiting \in Seq(JobIds) /\ Len(Waiting) = rear - front
                /\ \A i \in 1..(rear - front) : Waiting[i] = buf[SlotOf(front + i)]
LEMMA WaitingNow == Limits /\ RingHolds => WaitingMeans
  BY WaitingIs DEF WaitingMeans
-------------------------------------------------------------------------------
(* sbuf_insert: the store appends to the queue and overwrites nothing. *)
LEMMA StoreAppends ==
  ASSUME TypeOK, Limits, Limits', Carried, NEW c \in Clients, InsertStore(c)
  PROVE  /\ RingHolds' /\ Len(Waiting) < N
         /\ Waiting' = Append(Waiting, job[c])
<1>1. /\ c \in Threads /\ pc[c] = "insert" /\ job[c] \in JobIds
      /\ front \in Nat /\ rear \in Nat /\ front <= rear /\ rear - front < N
      /\ rear < IntMax /\ N \in Nat
  BY SBufAssumption DEF Threads, InsertStore, Go, Limits, Carried, JobsHeld, Holding
<1>2. rear' = rear + 1 /\ front' = front
  BY <1>1 DEF InsertStore, Incr
<1>3. SlotOf(rear + 1) \in 0..N-1
  BY <1>1, SlotsOfRing
<1>4. buf' = [buf EXCEPT ![SlotOf(rear + 1)] = job[c]]
  BY <1>2, <1>3 DEF InsertStore, Store
<1>5. /\ buf'[SlotOf(rear + 1)] = job[c]
      /\ \A s \in 0..N-1 : s # SlotOf(rear + 1) => buf'[s] = buf[s]
  BY <1>3, <1>4 DEF TypeOK
<1>6. \A i \in 1..(rear - front) : buf'[SlotOf(front + i)] = buf[SlotOf(front + i)]
  <2> SUFFICES ASSUME NEW i \in 1..(rear - front)
               PROVE  buf'[SlotOf(front + i)] = buf[SlotOf(front + i)]
    OBVIOUS
  <2>1. front + i \in Nat /\ front + i < rear + 1 /\ (rear + 1) - (front + i) < N
    BY <1>1
  <2>2. SlotOf(front + i) # SlotOf(rear + 1) /\ SlotOf(front + i) \in 0..N-1
    BY <1>1, <2>1, SlotsDiffer, SlotsOfRing
  <2> QED BY <1>5, <2>2
<1>7. /\ rear' - front' = (rear - front) + 1
      /\ \A i \in 1..(rear' - front') : i \in 1..(rear - front) \/ i = (rear - front) + 1
      /\ front + ((rear - front) + 1) = rear + 1
  BY <1>1, <1>2
<1>8. RingHolds'
  BY <1>1, <1>2, <1>5, <1>6, <1>7 DEF Carried, RingHolds
<1>9. WaitingMeans /\ WaitingMeans'
  BY <1>8, WaitingNow, PTL DEF Carried
<1>10. /\ Append(Waiting, job[c]) \in Seq(JobIds)
       /\ Len(Append(Waiting, job[c])) = (rear - front) + 1
       /\ Append(Waiting, job[c])[(rear - front) + 1] = job[c]
       /\ \A i \in 1..(rear - front) : Append(Waiting, job[c])[i] = Waiting[i]
  BY <1>1, <1>9, AppendProperties DEF WaitingMeans
<1>11. JobIds' = JobIds
  BY DEF JobIds
<1>12. \A i \in 1..(rear' - front') : Waiting'[i] = Append(Waiting, job[c])[i]
  BY <1>1, <1>2, <1>5, <1>6, <1>7, <1>9, <1>10 DEF WaitingMeans
<1>13. Waiting' = Append(Waiting, job[c])
  BY <1>7, <1>9, <1>10, <1>11, <1>12, SeqEqual DEF WaitingMeans
<1> QED BY <1>1, <1>8, <1>9, <1>13 DEF WaitingMeans

(* sbuf_remove: the load takes the head of the queue. *)
LEMMA LoadTakes ==
  ASSUME TypeOK, Limits, Limits', Carried, NEW t \in JobThreads, RemoveLoad(t)
  PROVE  /\ RingHolds' /\ Waiting # <<>>
         /\ Head(Waiting) \in JobIds
         /\ job' = [job EXCEPT ![t] = Head(Waiting)] /\ Waiting' = Tail(Waiting)
<1>1. /\ t \in Threads /\ pc[t] = "remove"
      /\ front \in Nat /\ rear \in Nat /\ front < rear
      /\ rear < IntMax /\ N \in Nat /\ IntMax \in Nat
  BY SBufAssumption DEF Threads, RemoveLoad, Go, Limits
<1>2. front' = front + 1 /\ rear' = rear /\ buf' = buf
  BY <1>1 DEF RemoveLoad, Incr
<1>3. job' = [job EXCEPT ![t] = buf[SlotOf(front + 1)]]
  <2>1. Loads(front') = {buf[SlotOf(front + 1)]}
    BY <1>1, <1>2, SlotsOfRing DEF Loads
  <2> QED BY <2>1 DEF RemoveLoad
<1>4. WaitingMeans
  BY WaitingNow DEF Carried
<1>5. /\ Waiting # <<>> /\ Head(Waiting) = Waiting[1] /\ Len(Waiting) \in Nat
      /\ Tail(Waiting) \in Seq(JobIds) /\ Len(Tail(Waiting)) = Len(Waiting) - 1
      /\ \A i \in 1..Len(Tail(Waiting)) : Tail(Waiting)[i] = Waiting[i + 1]
  BY <1>1, <1>4, HeadTailProperties DEF WaitingMeans
<1>6. /\ rear' - front' = (rear - front) - 1 /\ 1 \in 1..(rear - front)
      /\ \A i \in 1..(rear' - front') : /\ i + 1 \in 1..(rear - front)
                                        /\ front' + i = front + (i + 1)
  BY <1>1, <1>2
<1>7. RingHolds'
  <2>1. \A i \in 1..(rear' - front') : buf'[SlotOf(front' + i)] \in JobIds
    BY <1>2, <1>6 DEF Carried, RingHolds
  <2> QED BY <2>1 DEF RingHolds, JobIds
<1>8. WaitingMeans'
  BY <1>7, WaitingNow, PTL
<1>9. \A i \in 1..(rear' - front') : Waiting'[i] = Tail(Waiting)[i]
  BY <1>2, <1>4, <1>5, <1>6, <1>8 DEF WaitingMeans
<1>10. JobIds' = JobIds
  BY DEF JobIds
<1>11. Waiting' = Tail(Waiting)
  BY <1>4, <1>5, <1>6, <1>8, <1>9, <1>10, SeqEqual DEF WaitingMeans
<1> QED BY <1>3, <1>4, <1>5, <1>6, <1>7, <1>11 DEF WaitingMeans, Carried, RingHolds
-------------------------------------------------------------------------------
(* Every step keeps the jobs where they are held, and is a step of the     *)
(* queue or invisible to it.                                               *)
Offered == [c \in Clients |-> job[c]]
Got == [t \in JobThreads |-> job[t]]

(* The steps that move no job. *)
LEMMA NoJobMoves ==
  ASSUME TypeOK, Carried, NEW t \in Threads, NEW from, NEW to, Go(t, from, to),
         from \in Holding <=> to \in Holding, UNCHANGED <<ring, made, job>>
  PROVE  Carried' /\ UNCHANGED Queue!vars
<1>1. JobsHeld'
  BY DEF Carried, JobsHeld, Go, TypeOK, JobIds
<1>2. RingHolds'
  BY DEF Carried, RingHolds, ring, JobIds
<1>3. UNCHANGED <<Offered, Got, Waiting>>
  BY DEF Offered, Got, Waiting, ring
<1> QED BY <1>1, <1>2, <1>3 DEF Carried, Queue!vars, Offered, Got

(* The steps that give thread t a job or take it away. *)
LEMMA JobMoves ==
  ASSUME TypeOK, Carried, NEW t \in Threads, NEW from, NEW to, Go(t, from, to),
         NEW j, job' = [job EXCEPT ![t] = j],
         IF to \in Holding THEN j \in JobIds ELSE j = NoJob
  PROVE  /\ JobsHeld'
         /\ t \in Clients => Offered' = [Offered EXCEPT ![t] = j] /\ UNCHANGED Got
         /\ t \in JobThreads => Got' = [Got EXCEPT ![t] = j] /\ UNCHANGED Offered
<1>1. job'[t] = j /\ \A u \in Threads : u # t => job'[u] = job[u]
  BY DEF TypeOK
<1>2. pc'[t] = to /\ \A u \in Threads : u # t => pc'[u] = pc[u]
  BY DEF TypeOK, Go
<1>3. JobsHeld'
  BY <1>1, <1>2 DEF Carried, JobsHeld, JobIds
<1>4. Clients \cap JobThreads = {} /\ Clients \subseteq Threads /\ JobThreads \subseteq Threads
  BY SBufAssumption DEF Threads
<1> QED BY <1>1, <1>3, <1>4 DEF Offered, Got

LEMMA ClientImplements ==
  ASSUME JobBound < IntMax, TypeOK, Limits, Limits', Carried,
         NEW c \in Clients, NewJob(c) \/ ClientStep(c)
  PROVE  Carried' /\ [Queue!Next]_(Queue!vars)
<1>1. c \in Threads
  BY DEF Threads
<1>2. CASE NewJob(c)
  <2>1. /\ Go(c, "idle", "P_slots") /\ made' = made + 1 /\ made < JobBound
        /\ job' = [job EXCEPT ![c] = made + 1] /\ UNCHANGED ring
    BY <1>2 DEF NewJob
  <2>2. made + 1 \in JobIds
    BY <2>1, SBufAssumption DEF TypeOK, JobIds
  <2>3. JobsHeld' /\ Offered' = [Offered EXCEPT ![c] = made + 1] /\ UNCHANGED Got
    BY <1>1, <2>1, <2>2, JobMoves DEF Holding
  <2>4. RingHolds' /\ UNCHANGED Waiting
    BY <2>1 DEF Carried, RingHolds, Waiting, ring, JobIds
  <2>5. Offered[c] = NoJob
    BY <1>1, <2>1 DEF Carried, JobsHeld, Holding, Go, Offered
  <2>6. Queue!Offer(c)
    BY <2>1, <2>3, <2>4, <2>5 DEF Queue!Offer, Offered, Got
  <2> QED BY <2>3, <2>4, <2>6 DEF Carried, Queue!Next
<1>3. CASE InsertStore(c)
  <2>1. RingHolds' /\ Len(Waiting) < N /\ Waiting' = Append(Waiting, job[c])
    BY <1>3, StoreAppends
  <2>2. /\ Go(c, "insert", "V_mutex_insert") /\ made' = made
        /\ job' = [job EXCEPT ![c] = NoJob]
    BY <1>3 DEF InsertStore
  <2>3. JobsHeld' /\ Offered' = [Offered EXCEPT ![c] = NoJob] /\ UNCHANGED Got
    <3>1. "V_mutex_insert" \notin Holding
      BY DEF Holding
    <3> QED BY <1>1, <2>2, <3>1, JobMoves, Zenon
  <2>4. Offered[c] = job[c] /\ job[c] \in JobIds
    BY <1>1, <2>2 DEF Carried, JobsHeld, Holding, Go, Offered
  <2>5. Offered[c] # NoJob
    BY <2>4, SBufAssumption DEF JobIds
  <2>6. Queue!Enqueue(c)
    BY <2>1, <2>2, <2>3, <2>4, <2>5 DEF Queue!Enqueue, Offered, Got
  <2> QED BY <2>1, <2>3, <2>6 DEF Carried, Queue!Next
<1>4. CASE InsertPSlots(c) \/ InsertPMutex(c)
  BY <1>1, <1>4, NoJobMoves DEF InsertPSlots, InsertPMutex, Holding, ring
<1>5. CASE InsertVMutex(c) \/ InsertVItems(c)
  BY <1>1, <1>5, NoJobMoves DEF InsertVMutex, InsertVItems, Holding, ring
<1> QED BY <1>2, <1>3, <1>4, <1>5 DEF ClientStep

LEMMA JobThreadImplements ==
  ASSUME JobBound < IntMax, TypeOK, Limits, Limits', Carried,
         NEW t \in JobThreads, JobThreadStep(t)
  PROVE  Carried' /\ [Queue!Next]_(Queue!vars)
<1>1. t \in Threads
  BY DEF Threads
<1>2. CASE RemoveLoad(t)
  <2>1. /\ RingHolds' /\ Waiting # <<>> /\ Head(Waiting) \in JobIds
        /\ job' = [job EXCEPT ![t] = Head(Waiting)] /\ Waiting' = Tail(Waiting)
    BY <1>2, LoadTakes
  <2>2. Go(t, "remove", "V_mutex_remove") /\ made' = made
    BY <1>2 DEF RemoveLoad
  <2>3. JobsHeld' /\ Got' = [Got EXCEPT ![t] = Head(Waiting)] /\ UNCHANGED Offered
    BY <1>1, <2>1, <2>2, JobMoves DEF Holding
  <2>4. Got[t] = NoJob
    BY <1>1, <2>2 DEF Carried, JobsHeld, Holding, Go, Got
  <2>5. Queue!Dequeue(t)
    BY <2>1, <2>2, <2>3, <2>4 DEF Queue!Dequeue, Offered, Got
  <2> QED BY <2>1, <2>3, <2>5 DEF Carried, Queue!Next
<1>3. CASE ProcessJob(t)
  <2>1. /\ Go(t, "process", "P_items") /\ UNCHANGED <<ring, made>>
        /\ job' = [job EXCEPT ![t] = NoJob]
    BY <1>3 DEF ProcessJob
  <2>2. JobsHeld' /\ Got' = [Got EXCEPT ![t] = NoJob] /\ UNCHANGED Offered
    <3>1. "P_items" \notin Holding
      BY DEF Holding
    <3> QED BY <1>1, <2>1, <3>1, JobMoves, Zenon
  <2>3. RingHolds' /\ UNCHANGED Waiting
    BY <2>1 DEF Carried, RingHolds, Waiting, ring, JobIds
  <2>4. Got[t] = job[t] /\ job[t] \in JobIds
    BY <1>1, <2>1 DEF Carried, JobsHeld, Holding, Go, Got
  <2>5. Got[t] # NoJob
    BY <2>4, SBufAssumption DEF JobIds
  <2>6. Queue!Finish(t)
    BY <2>1, <2>2, <2>3, <2>5 DEF Queue!Finish, Offered, Got
  <2> QED BY <2>2, <2>3, <2>6 DEF Carried, Queue!Next
<1>4. CASE RemovePItems(t) \/ RemovePMutex(t)
  BY <1>1, <1>4, NoJobMoves DEF RemovePItems, RemovePMutex, Holding, ring
<1>5. CASE RemoveVMutex(t) \/ RemoveVSlots(t)
  BY <1>1, <1>5, NoJobMoves DEF RemoveVMutex, RemoveVSlots, Holding, ring
<1> QED BY <1>2, <1>3, <1>4, <1>5 DEF JobThreadStep

LEMMA InitImplements == Init => Carried /\ Queue!Init
<1> SUFFICES ASSUME Init PROVE Carried /\ Queue!Init
  OBVIOUS
<1>1. JobsHeld
  BY DEF Init, JobsHeld, Holding
<1>2. RingHolds
  BY DEF Init, RingHolds
<1>3. Offered = [c \in Clients |-> NoJob] /\ Got = [t \in JobThreads |-> NoJob]
  BY DEF Init, Offered, Got, Threads
<1>4. rear - front = 0
  BY DEF Init
<1>5. Waiting = <<>>
  BY <1>4 DEF Waiting
<1>6. made = 0
  BY DEF Init
<1> QED BY <1>1, <1>2, <1>3, <1>5, <1>6 DEF Carried, Queue!Init, Offered, Got

(* Between sbuf_insert and sbuf_remove no job is lost, duplicated, made up *)
(* or reordered, whatever the threads do, as long as fewer than INT_MAX    *)
(* jobs come.                                                              *)
THEOREM QueueImplemented ==
  ASSUME JobBound < IntMax
  PROVE  Spec => ImplementsQueue
<1>1. Spec => []Limits
  <2>1. TypeOK /\ SlotsAccounted /\ Counters => Limits
    BY WithinLimits
  <2>2. JobBound <= IntMax
    BY SBufAssumption
  <2> QED BY <2>1, <2>2, TypeCorrect, AccountingInvariant, PTL
<1>2. TypeOK /\ Limits /\ Limits' /\ Carried /\ [Next]_vars
        => Carried' /\ [Queue!Next]_(Queue!vars)
  <2> SUFFICES ASSUME TypeOK, Limits, Limits', Carried, [Next]_vars
               PROVE  Carried' /\ [Queue!Next]_(Queue!vars)
    OBVIOUS
  <2>1. CASE UNCHANGED vars
    <3>1. Carried'
      BY <2>1 DEF Carried, JobsHeld, RingHolds, vars, ring, JobIds
    <3>2. UNCHANGED <<made, Offered, Got, Waiting>>
      BY <2>1 DEF Offered, Got, Waiting, vars, ring
    <3> QED BY <3>1, <3>2 DEF Queue!vars, Offered, Got
  <2> QED BY <2>1, ClientImplements, JobThreadImplements DEF Next, Quiescent
<1>3. Spec => Queue!Init /\ [][Queue!Next]_(Queue!vars)
  BY <1>1, <1>2, InitImplements, TypeCorrect, PTL DEF Spec
<1> QED BY <1>3 DEF ImplementsQueue, Queue!Spec
===============================================================================
