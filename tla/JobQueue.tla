------------------------------- MODULE JobQueue -------------------------------
(***************************************************************************)
(* What the job buffer of the server promises to the threads on its two    *)
(* sides: client threads hand over jobs, job threads receive them, nothing *)
(* is lost, duplicated or reordered, and no more than Capacity jobs wait.  *)
(* SBuf is the code that has to keep this promise.                         *)
(***************************************************************************)
EXTENDS Naturals, Sequences

CONSTANTS Clients,    \* threads running process_client
          JobThreads, \* threads running run_jobs
          Capacity,   \* jobs that may wait
          JobBound,   \* jobs created in a behaviour
          NoJob       \* "this thread holds no job"

VARIABLES made,    \* number of jobs created so far; they are named 1, 2, ...
          offered, \* the job a client thread is handing over
          queue,   \* the waiting jobs, oldest first
          got      \* the job a job thread is working on

vars == <<made, offered, queue, got>>

Init ==
  /\ made = 0
  /\ offered = [c \in Clients |-> NoJob]
  /\ queue = <<>>
  /\ got = [t \in JobThreads |-> NoJob]

Offer(c) ==
  /\ offered[c] = NoJob
  /\ made < JobBound
  /\ made' = made + 1
  /\ offered' = [offered EXCEPT ![c] = made + 1]
  /\ UNCHANGED <<queue, got>>

Enqueue(c) ==
  /\ offered[c] # NoJob
  /\ Len(queue) < Capacity
  /\ queue' = Append(queue, offered[c])
  /\ offered' = [offered EXCEPT ![c] = NoJob]
  /\ UNCHANGED <<made, got>>

Dequeue(t) ==
  /\ got[t] = NoJob
  /\ queue # <<>>
  /\ got' = [got EXCEPT ![t] = Head(queue)]
  /\ queue' = Tail(queue)
  /\ UNCHANGED <<made, offered>>

Finish(t) ==
  /\ got[t] # NoJob
  /\ got' = [got EXCEPT ![t] = NoJob]
  /\ UNCHANGED <<made, offered, queue>>

Next ==
  \/ \E c \in Clients : Offer(c) \/ Enqueue(c)
  \/ \E t \in JobThreads : Dequeue(t) \/ Finish(t)

Spec == Init /\ [][Next]_vars
===============================================================================
