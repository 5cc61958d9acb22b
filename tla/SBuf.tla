--------------------------------- MODULE SBuf ---------------------------------
(***************************************************************************)
(* The job buffer of sbuf.c: a ring of n job pointers, two C ints that     *)
(* only ever grow, and three semaphores.  Client threads (process_client)  *)
(* call sbuf_insert, job threads (run_jobs) call sbuf_remove; every P and  *)
(* V is a step of its own, so every interleaving of the calls is explored. *)
(*                                                                         *)
(* Bounds: JobBound jobs are created in a behaviour; IntMax stands for     *)
(* INT_MAX, the largest value of the C int counters.                       *)
(***************************************************************************)
EXTENDS Integers, Sequences, FiniteSets

CONSTANTS Clients, JobThreads, N, IntMax, JobBound, NoJob

ASSUME SBufAssumption ==
  /\ IsFiniteSet(Clients) /\ IsFiniteSet(JobThreads)
  /\ Clients \cap JobThreads = {}
  /\ N \in Nat \ {0}
  /\ IntMax \in Nat \ {0}
  /\ JobBound \in Nat
  /\ NoJob \notin Nat

VARIABLES
  buf,                  \* sp->buf, the slots 0..N-1
  front, rear,          \* sp->front, sp->rear
  mutex, slots, items,  \* the semaphores, by value
  made,                 \* jobs created so far
  job,                  \* the job a thread has in a local variable
  pc                    \* where each thread is

ring == <<buf, front, rear>>
sems == <<mutex, slots, items>>
vars == <<ring, sems, made, job, pc>>

Threads == Clients \cup JobThreads

(* ++i on a C int.  The build has no -ftrapv: past INT_MAX it wraps. *)
Incr(i) == IF i = IntMax THEN -IntMax - 1 ELSE i + 1

(* i % n in C: the remainder has the sign of i. *)
Rem(i, n) == IF i >= 0 THEN i % n ELSE -((-i) % n)

(* Mutant: the remainder is forgotten. *)
SlotOfNoRem(i) == i

SlotOf(i) == Rem(i, N)

(* A store through an index outside the ring lands in somebody else's      *)
(* memory; the ring keeps its contents.                                    *)
Store(i, j) == IF SlotOf(i) \in 0..N-1 THEN [buf EXCEPT ![SlotOf(i)] = j] ELSE buf

(* A load through such an index yields whatever is there. *)
Loads(i) == IF SlotOf(i) \in 0..N-1 THEN {buf[SlotOf(i)]} ELSE 1..made \cup {NoJob}

-------------------------------------------------------------------------------
(* sbuf_init(&sbuf, n) *)
Init ==
  /\ buf = [s \in 0..N-1 |-> NoJob]
  /\ front = 0 /\ rear = 0
  /\ mutex = 1 /\ slots = N /\ items = 0
  /\ made = 0
  /\ job = [t \in Threads |-> NoJob]
  /\ pc = [t \in Threads |-> IF t \in Clients THEN "idle" ELSE "P_items"]

Go(t, from, to) == pc[t] = from /\ pc' = [pc EXCEPT ![t] = to]

(* process_client has read a request and calls sbuf_insert. *)
NewJob(c) ==
  /\ Go(c, "idle", "P_slots")
  /\ made < JobBound
  /\ made' = made + 1
  /\ job' = [job EXCEPT ![c] = made + 1]
  /\ UNCHANGED <<ring, sems>>

InsertPSlots(c) ==
  /\ Go(c, "P_slots", "P_mutex_insert")
  /\ slots > 0
  /\ slots' = slots - 1
  /\ UNCHANGED <<ring, mutex, items, made, job>>

(* Mutant: P does not wait. *)
InsertPMutexNoWait(c) ==
  /\ Go(c, "P_mutex_insert", "insert")
  /\ mutex' = mutex - 1
  /\ UNCHANGED <<ring, slots, items, made, job>>

InsertPMutex(c) ==
  /\ Go(c, "P_mutex_insert", "insert")
  /\ mutex > 0
  /\ mutex' = mutex - 1
  /\ UNCHANGED <<ring, slots, items, made, job>>

InsertStore(c) ==
  /\ Go(c, "insert", "V_mutex_insert")
  /\ rear' = Incr(rear)
  /\ buf' = Store(rear', job[c])
  /\ job' = [job EXCEPT ![c] = NoJob]
  /\ UNCHANGED <<front, sems, made>>

InsertVMutex(c) ==
  /\ Go(c, "V_mutex_insert", "V_items")
  /\ mutex' = mutex + 1
  /\ UNCHANGED <<ring, slots, items, made, job>>

(* Mutant: items is a binary semaphore, its second post is lost. *)
InsertVItemsBinary(c) ==
  /\ Go(c, "V_items", "idle")
  /\ items' = 1
  /\ UNCHANGED <<ring, mutex, slots, made, job>>

InsertVItems(c) ==
  /\ Go(c, "V_items", "idle")
  /\ items' = items + 1
  /\ UNCHANGED <<ring, mutex, slots, made, job>>

RemovePItems(t) ==
  /\ Go(t, "P_items", "P_mutex_remove")
  /\ items > 0
  /\ items' = items - 1
  /\ UNCHANGED <<ring, mutex, slots, made, job>>

RemovePMutex(t) ==
  /\ Go(t, "P_mutex_remove", "remove")
  /\ mutex > 0
  /\ mutex' = mutex - 1
  /\ UNCHANGED <<ring, slots, items, made, job>>

(* Mutant: front++ for ++front. *)
RemoveLoadPostfix(t) ==
  /\ Go(t, "remove", "V_mutex_remove")
  /\ front' = Incr(front)
  /\ \E j \in Loads(front) : job' = [job EXCEPT ![t] = j]
  /\ UNCHANGED <<buf, rear, sems, made>>

(* The early return for n == 0 is dead: N > 0, and with no slot nothing    *)
(* would ever be posted on items.                                          *)
RemoveLoad(t) ==
  /\ Go(t, "remove", "V_mutex_remove")
  /\ front' = Incr(front)
  /\ \E j \in Loads(front') : job' = [job EXCEPT ![t] = j]
  /\ UNCHANGED <<buf, rear, sems, made>>

RemoveVMutex(t) ==
  /\ Go(t, "V_mutex_remove", "V_slots")
  /\ mutex' = mutex + 1
  /\ UNCHANGED <<ring, slots, items, made, job>>

(* Mutant: the slot is not given back. *)
RemoveKeepsSlot(t) ==
  /\ Go(t, "V_slots", "process")
  /\ UNCHANGED <<ring, sems, made, job>>

RemoveVSlots(t) ==
  /\ Go(t, "V_slots", "process")
  /\ slots' = slots + 1
  /\ UNCHANGED <<ring, mutex, items, made, job>>

(* run_jobs: processJob returns and the job is freed. *)
ProcessJob(t) ==
  /\ Go(t, "process", "P_items")
  /\ job' = [job EXCEPT ![t] = NoJob]
  /\ UNCHANGED <<ring, sems, made>>

(* No request is left to read and every job thread waits for one. *)
Quiescent ==
  /\ made = JobBound
  /\ \A c \in Clients : pc[c] = "idle"
  /\ \A t \in JobThreads : pc[t] = "P_items"
  /\ items = 0
  /\ UNCHANGED vars

ClientStep(c) ==
  \/ InsertPSlots(c) \/ InsertPMutex(c) \/ InsertStore(c)
  \/ InsertVMutex(c) \/ InsertVItems(c)

JobThreadStep(t) ==
  \/ RemovePItems(t) \/ RemovePMutex(t) \/ RemoveLoad(t)
  \/ RemoveVMutex(t) \/ RemoveVSlots(t) \/ ProcessJob(t)

Next ==
  \/ \E c \in Clients : NewJob(c) \/ ClientStep(c)
  \/ \E t \in JobThreads : JobThreadStep(t)
  \/ Quiescent

Spec == Init /\ [][Next]_vars

(* A thread that can run eventually runs; clients need not send anything.  *)
FairSpec ==
  /\ Spec
  /\ \A c \in Clients : WF_vars(ClientStep(c))
  /\ \A t \in JobThreads : WF_vars(JobThreadStep(t))
-------------------------------------------------------------------------------
JobIds == 1..JobBound

(* Every variable has its type; the two ints stay within a C int. *)
TypeOK ==
  /\ buf \in [0..N-1 -> JobIds \cup {NoJob}]
  /\ front \in (-IntMax - 1)..IntMax /\ rear \in (-IntMax - 1)..IntMax
  /\ mutex \in Nat /\ slots \in Nat /\ items \in Nat
  /\ made \in 0..JobBound
  /\ job \in [Threads -> JobIds \cup {NoJob}]
  /\ pc \in [Threads -> {"idle", "P_slots", "P_mutex_insert", "insert",
                         "V_mutex_insert", "V_items", "P_items",
                         "P_mutex_remove", "remove", "V_mutex_remove",
                         "V_slots", "process"}]

At(labels) == {t \in Threads : pc[t] \in labels}
InCS == At({"insert", "V_mutex_insert", "remove", "V_mutex_remove"})

Claimed  == At({"P_mutex_insert", "insert"})       \* a slot taken, not yet filled
Posting  == At({"V_mutex_insert", "V_items"})      \* filled, not yet announced
Draining == At({"P_mutex_remove", "remove"})       \* announced, not yet removed
Freeing  == At({"V_mutex_remove", "V_slots"})      \* removed, slot not yet given back

(* sp->mutex admits one thread to the ring at a time and no V ever raises  *)
(* it above 1 (sbuf_insert, sbuf_remove).                                  *)
MutexExcludes ==
  /\ mutex \in {0, 1}
  /\ \A t, u \in InCS : t = u
  /\ InCS # {} => mutex = 0

(* slots and items account for every slot of the ring, threads between a P *)
(* and its matching V included; so the ring never overflows, never         *)
(* underflows, and no V raises a semaphore beyond N.                       *)
SlotsAccounted ==
  /\ slots = N - (rear - front) - Cardinality(Claimed) - Cardinality(Freeing)
  /\ items = (rear - front) - Cardinality(Posting) - Cardinality(Draining)

(* "buf[(front+1)%n] is the first item, buf[rear%n] is last item"          *)
(* (sbuf.h): the two expressions always denote slots of the ring.          *)
IndicesInRing == SlotOf(Incr(front)) \in 0..N-1 /\ SlotOf(rear) \in 0..N-1

-------------------------------------------------------------------------------
(* The refinement mapping: the waiting jobs are those between front and    *)
(* rear; a client thread offers its job until the store, a job thread has  *)
(* it from the load until processJob returns.                              *)
Waiting == [i \in 1..(rear - front) |-> buf[SlotOf(front + i)]]

Queue == INSTANCE JobQueue WITH
           Capacity <- N,
           offered <- [c \in Clients |-> job[c]],
           queue <- Waiting,
           got <- [t \in JobThreads |-> job[t]]

(* The buffer implements the FIFO queue: nothing lost, duplicated or       *)
(* reordered between sbuf_insert and sbuf_remove.                          *)
ImplementsQueue == Queue!Spec

(* Every job handed to sbuf_insert reaches a job thread: no lost wakeup    *)
(* between the semaphores, nobody waits forever.                           *)
EveryJobProcessed ==
  \A j \in JobIds :
    (\E c \in Clients : job[c] = j) ~> (\E t \in JobThreads : job[t] = j)
===============================================================================
