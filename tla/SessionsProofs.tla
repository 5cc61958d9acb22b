----------------------------- MODULE SessionsProofs -----------------------------
(***************************************************************************)
(* Proofs about Sessions, for any number of users, connections,            *)
(* descriptors, job threads and messages:                                  *)
(*   - TypeCorrect: TypeOK, by way of MainInHand (what the main thread has *)
(*     in hand where) and ThreadInHand;                                    *)
(*   - AttributionCorrect: Attribution, by way of Descriptors (no two      *)
(*     connections in service share a descriptor, and every user's is one  *)
(*     of theirs);                                                         *)
(*   - LoggedInServed: NobodyLockedIn, by way of JobsHaveThreads and       *)
(*     AllCanLogOut, as long as no job that has been freed is taken for a  *)
(*     LOGOUT;                                                             *)
(*   - RegistryImplemented: the code implements SessionRegistry, by way of *)
(*     OneLogout and SessionsServed, as long as none is taken for a job of *)
(*     another type.                                                       *)
(***************************************************************************)
EXTENDS Sessions, SequenceTheorems, DataLemmas, TLAPS

(* What the main thread has in hand, and that it holds usersMutex exactly  *)
(* between LockUsers and its release.                                      *)
MainInHand ==
  /\ (main = "accept") <=> (cur = NoConn)
  /\ main \in {"lockUsers"} \cup HoldsUsers => name \in Users
  /\ usersMutex = IF main \in HoldsUsers THEN 0 ELSE 1

(* A client thread between header and insert has a header, and a job left. *)
ThreadInHand ==
  \A c \in Conns :
    ct[c] \in {"lock", "body", "insert"} => hdr[c] # "none" /\ made[c] < MaxJobs

Typed == TypeOK /\ MainInHand /\ ThreadInHand

(* A connection in service: it has a thread, or the main thread has it.    *)
InService(c) == ct[c] # "none" \/ cur = c

OnDescriptor(u, c) == owner[c] = u /\ fd[u] = fdOf[c]

Descriptors ==
  /\ \A c \in Conns : fdOf[c] = NoFd => ~InService(c)
  /\ \A c \in Conns : owner[c] # NoName => InService(c)
  /\ \A c, d \in Conns : InService(c) /\ InService(d) /\ fdOf[c] = fdOf[d] => c = d
  /\ handler # "done" => \A c \in Conns : InService(c) => fdOf[c] \in openFds
  /\ \A u \in Range(usersList) : \E c \in Conns : OnDescriptor(u, c)
  /\ cur # NoConn => ct[cur] = "none"
  /\ main \notin {"accept", "unlockUsers", "fill", "spawn"} => owner[cur] = NoName
-------------------------------------------------------------------------------
(* findUsername returns a user of the list with that descriptor, or nobody *)
(* if there is none.                                                       *)
LEMMA FindUserFinds ==
  ASSUME TypeOK, NEW f
  PROVE  /\ FindUser(f) \in Users \cup {NoName}
         /\ FindUser(f) # NoName =>
              FindUser(f) \in Range(usersList) /\ fd[FindUser(f)] = f
         /\ FindUser(f) = NoName => \A u \in Range(usersList) : fd[u] # f
<1> DEFINE I == {i \in 1..Len(usersList) : fd[usersList[i]] = f}
           place == SelectInSeq(usersList, LAMBDA u : fd[u] = f)
<1>1. place = IF I # {} THEN Min(I) ELSE 0
  BY DEF SelectInSeq
<1>2. FindUser(f) = IF place = 0 THEN NoName ELSE usersList[place]
  BY DEF FindUser
<1>3. usersList \in Seq(Users) /\ Range(usersList) = {usersList[i] : i \in 1..Len(usersList)}
  BY DEF TypeOK, Range
<1>4. NoName \notin Users
  BY SessionsAssumption DEF Users
<1> HIDE DEF place
<1>5. CASE I = {}
  BY <1>1, <1>2, <1>3, <1>5
<1>6. CASE I # {}
  <2>1. Min(I) \in I
    <3>1. I \in SUBSET Nat
      OBVIOUS
    <3> QED BY <1>6, <3>1, MinOfNaturals, Zenon
  <2>2. place \in 1..Len(usersList) /\ fd[usersList[place]] = f
    BY <1>1, <1>6, <2>1
  <2>3. FindUser(f) = usersList[place]
    BY <1>2, <2>2
  <2> QED BY <1>3, <1>4, <2>2, <2>3
<1> QED BY <1>5, <1>6

(* accept returns a free descriptor if there is one. *)
LEMMA LowestFreeIsFree ==
  ASSUME openFds \subseteq Fds, openFds # Fds
  PROVE  LowestFree \in Fds \ openFds
<1> DEFINE S == Fds \ openFds
<1>1. S # {} /\ S \in SUBSET Nat
  <2>1. S # {}
    BY Zenon
  <2>2. Fds \subseteq Nat
    BY SessionsAssumption DEF Fds
  <2> QED BY <2>1, <2>2
<1> HIDE DEF S
<1>2. Min(S) \in S /\ \A g \in S : Min(S) <= g
  BY <1>1, MinOfNaturals, Zenon
<1>3. LowestFree = CHOOSE f \in S : \A g \in S : f <= g
  BY DEF LowestFree, S
<1>4. LowestFree \in S
  BY <1>2, <1>3
<1> QED BY <1>4 DEF S

LEMMA InitTyped == Init => Typed
<1> SUFFICES ASSUME Init PROVE Typed
  OBVIOUS
<1> USE SessionsAssumption DEF Init
<1>1. /\ phase \in [Conns -> {"new", "open", "closed"}]
      /\ in \in [Conns -> Seq(MessageKinds \cup {"LOGIN", "body"})]
      /\ owes \in [Conns -> BOOLEAN] /\ sent \in [Conns -> 0..MaxMessages]
  OBVIOUS
<1>2. /\ usersList \in Seq(Users)
      /\ loginFlag \in [Users -> BOOLEAN] /\ fd \in [Users -> Fds \cup {NoFd}]
      /\ owner \in [Conns -> UsersOrNone]
      /\ fdOf \in [Conns -> Fds \cup {NoFd}] /\ openFds \subseteq Fds
  BY DEF UsersOrNone
<1>3. /\ main \in MainLabels /\ cur \in Conns \cup {NoConn} /\ name \in UsersOrNone
      /\ handler \in {"none", "P_users", "done"}
      /\ bufferLock \in Conns \cup {Main, NoConn} /\ usersMutex \in {0, 1}
  BY DEF MainLabels, UsersOrNone
<1>4. /\ ct \in [Conns -> ThreadLabels] /\ hdr \in [Conns -> Headers]
      /\ body \in [Conns -> BOOLEAN] /\ made \in [Conns -> 0..MaxJobs]
  BY DEF ThreadLabels, Headers
<1>5. /\ queue \in Seq(Jobs) /\ hand \in [JobThreads -> Jobs \cup {NoJob}]
      /\ found \in [JobThreads -> UsersOrNone]
      /\ process \in {"up", "killed", "exited"}
  BY DEF UsersOrNone
<1>6. TypeOK
  BY <1>1, <1>2, <1>3, <1>4, <1>5 DEF TypeOK
<1>7. MainInHand /\ ThreadInHand
  BY DEF MainInHand, ThreadInHand, HoldsUsers
<1> QED BY <1>6, <1>7 DEF Typed

(* The variables of Sessions, without its tuples of variables. *)
LEMMA StutterTyped == Typed /\ UNCHANGED vars => Typed'
  BY DEF Typed, TypeOK, MainInHand, ThreadInHand, vars, clients, users, fds,
     mainThread, locks, threads, jobs

LEMMA ClientTyped ==
  ASSUME Typed, NEW c \in Conns, Client(c)
  PROVE  Typed'
<1> USE DEF clients, users, fds, mainThread, locks, threads, jobs
<1>1. UNCHANGED <<users, fds, mainThread, handler, locks, threads, jobs, process>>
  BY DEF Client
<1>2. /\ phase' \in [Conns -> {"new", "open", "closed"}]
      /\ in' \in [Conns -> Seq(MessageKinds \cup {"LOGIN", "body"})]
      /\ owes' \in [Conns -> BOOLEAN] /\ sent' \in [Conns -> 0..MaxMessages]
  <2> USE DEF Typed, TypeOK
  <2>1. CASE Connect(c)
    BY <2>1 DEF Connect
  <2>2. CASE SendBody(c)
    BY <2>2 DEF SendBody
  <2>3. CASE GoAway(c)
    BY <2>3 DEF GoAway
  <2>4. CASE \E k \in Kinds \cup {"LOGIN"} : SendHeader(c, k)
    <3> PICK k \in Kinds \cup {"LOGIN"} : SendHeader(c, k)
      BY <2>4
    <3>1. k \in MessageKinds \cup {"LOGIN", "body"}
      BY SessionsAssumption
    <3>2. sent[c] + 1 \in 0..MaxMessages
      BY SessionsAssumption DEF SendHeader
    <3> QED BY <3>1, <3>2 DEF SendHeader
  <2> QED BY <2>1, <2>2, <2>3, <2>4 DEF Client
<1>3. TypeOK'
  BY <1>1, <1>2 DEF Typed, TypeOK
<1>4. MainInHand' /\ ThreadInHand'
  BY <1>1 DEF Typed, MainInHand, ThreadInHand
<1> QED BY <1>3, <1>4 DEF Typed

(* Reading takes the first of the messages that are on the way. *)
LEMMA ReceiveTyped ==
  ASSUME TypeOK, NEW c \in Conns, Receive(c)
  PROVE  in' \in [Conns -> Seq(MessageKinds \cup {"LOGIN", "body"})]
<1> DEFINE rest == IF in[c] = <<>> THEN in[c] ELSE Tail(in[c])
<1>1. in \in [Conns -> Seq(MessageKinds \cup {"LOGIN", "body"})]
  BY DEF TypeOK
<1>2. in' = [in EXCEPT ![c] = rest]
  BY DEF Receive
<1>3. rest \in Seq(MessageKinds \cup {"LOGIN", "body"})
  BY <1>1
<1> QED BY <1>1, <1>2, <1>3

LEMMA MainTyped ==
  ASSUME Typed, MainStep
  PROVE  Typed'
<1> USE SessionsAssumption
    DEF clients, users, fds, mainThread, locks, threads, jobs, At, HoldsUsers, MainLabels
<1>1. UNCHANGED <<handler, jobs, process, phase, owes, sent, body, made>>
  BY DEF MainStep, FirstHeader, LockBuffer, LoginBody, LockUsers, LoginRefused, LoginAgain,
         LoginSetFd, LoginNew, LoginFill, UnlockUsers, UnlockClose, Spawn, Accept
<1>2. ASSUME NEW c \in Conns, Accept(c) PROVE Typed'
  <2>1. LowestFree \in Fds
    BY <1>2, LowestFreeIsFree DEF Accept, Typed, TypeOK
  <2>2. TypeOK'
    BY <1>1, <1>2, <2>1 DEF Accept, Typed, TypeOK
  <2> QED BY <1>1, <1>2, <2>2 DEF Accept, Typed, MainInHand, ThreadInHand
<1>3. CASE FirstHeader
  <2>1. in' \in [Conns -> Seq(MessageKinds \cup {"LOGIN", "body"})]
    BY <1>3, ReceiveTyped DEF FirstHeader, Typed, TypeOK, MainInHand
  <2>2. TypeOK'
    BY <1>1, <1>3, <2>1 DEF FirstHeader, Typed, TypeOK
  <2> QED BY <1>1, <1>3, <2>2 DEF FirstHeader, Typed, MainInHand, ThreadInHand
<1>4. CASE LockBuffer
  <2>1. TypeOK'
    BY <1>1, <1>4 DEF LockBuffer, Typed, TypeOK
  <2> QED BY <1>1, <1>4, <2>1 DEF LockBuffer, Typed, MainInHand, ThreadInHand
<1>5. CASE LoginBody
  <2>1. in' \in [Conns -> Seq(MessageKinds \cup {"LOGIN", "body"})]
    BY <1>5, ReceiveTyped DEF LoginBody, Typed, TypeOK, MainInHand
  <2>2. name' \in Users
    BY <1>5 DEF LoginBody, Users
  <2>3. TypeOK'
    BY <1>1, <1>5, <2>1, <2>2 DEF LoginBody, Typed, TypeOK, UsersOrNone
  <2> QED BY <1>1, <1>5, <2>2, <2>3 DEF LoginBody, Typed, MainInHand, ThreadInHand
<1>6. CASE LockUsers
  <2>1. TypeOK'
    BY <1>1, <1>6 DEF LockUsers, Typed, TypeOK
  <2> QED BY <1>1, <1>6, <2>1 DEF LockUsers, Typed, MainInHand, ThreadInHand
<1>7. CASE LoginRefused
  <2>1. TypeOK'
    BY <1>1, <1>7 DEF LoginRefused, Typed, TypeOK
  <2> QED BY <1>1, <1>7, <2>1 DEF LoginRefused, Typed, MainInHand, ThreadInHand
<1>8. CASE LoginAgain
  <2>1. TypeOK'
    BY <1>1, <1>8 DEF LoginAgain, Typed, TypeOK
  <2> QED BY <1>1, <1>8, <2>1 DEF LoginAgain, Typed, MainInHand, ThreadInHand
<1>9. CASE LoginSetFd
  <2>1. name \in Users /\ cur \in Conns
    BY <1>9 DEF LoginSetFd, Typed, TypeOK, MainInHand
  <2>2. TypeOK'
    BY <1>1, <1>9, <2>1 DEF LoginSetFd, Typed, TypeOK, UsersOrNone
  <2> QED BY <1>1, <1>9, <2>2 DEF LoginSetFd, Typed, MainInHand, ThreadInHand
<1>10. CASE LoginNew
  <2>1. name \in Users /\ cur \in Conns
    BY <1>10 DEF LoginNew, Typed, TypeOK, MainInHand
  <2>2. TypeOK'
    BY <1>1, <1>10, <2>1 DEF LoginNew, Typed, TypeOK, UsersOrNone
  <2> QED BY <1>1, <1>10, <2>2 DEF LoginNew, Typed, MainInHand, ThreadInHand
<1>11. CASE LoginFill
  <2>1. TypeOK'
    BY <1>1, <1>11 DEF LoginFill, Typed, TypeOK
  <2> QED BY <1>1, <1>11, <2>1 DEF LoginFill, Typed, MainInHand, ThreadInHand
<1>12. CASE UnlockUsers
  <2>1. TypeOK'
    BY <1>1, <1>12 DEF UnlockUsers, Typed, TypeOK, MainInHand, UsersOrNone
  <2> QED BY <1>1, <1>12, <2>1 DEF UnlockUsers, Typed, MainInHand, ThreadInHand
<1>13. CASE UnlockClose
  <2>1. TypeOK'
    BY <1>1, <1>13 DEF UnlockClose, Typed, TypeOK, MainInHand, UsersOrNone
  <2> QED BY <1>1, <1>13, <2>1 DEF UnlockClose, Typed, MainInHand, ThreadInHand
<1>14. CASE Spawn
  <2>1. PICK k \in StackTypes : hdr' = [hdr EXCEPT ![cur] = k]
    BY <1>14 DEF Spawn
  <2>2. k \in Headers /\ cur \in Conns
    BY <1>14 DEF Spawn, Headers, Typed, TypeOK, MainInHand
  <2>3. TypeOK'
    BY <1>1, <1>14, <2>1, <2>2 DEF Spawn, Typed, TypeOK, ThreadLabels
  <2>4. \A c \in Conns : ct'[c] \in {"lock", "body", "insert"} => c # cur /\ ct'[c] = ct[c]
    BY <1>14, <2>2 DEF Spawn, Typed, TypeOK
  <2>5. \A c \in Conns : c # cur => hdr'[c] = hdr[c]
    BY <2>1, <2>2 DEF Typed, TypeOK
  <2> QED BY <1>1, <1>14, <2>3, <2>4, <2>5 DEF Spawn, Typed, MainInHand, ThreadInHand
<1> QED BY <1>2, <1>3, <1>4, <1>5, <1>6, <1>7, <1>8, <1>9, <1>10, <1>11, <1>12, <1>13,
           <1>14 DEF MainStep

LEMMA ProcessClientTyped ==
  ASSUME Typed, NEW c \in Conns, ProcessClient(c)
  PROVE  Typed'
<1> USE SessionsAssumption
    DEF clients, users, fds, mainThread, locks, threads, jobs, Goes, ThreadLabels
<1>1. /\ UNCHANGED <<users, fds, mainThread, handler, process, phase, owes, sent,
                     usersMutex, hand, found>>
      /\ hdr[c] # "none" => hdr[c] \in MessageKinds \cup {"LOGIN"}
      /\ \A d \in Conns : d # c => ct'[d] = ct[d] /\ hdr'[d] = hdr[d] /\ made'[d] = made[d]
  <2>1. hdr[c] # "none" => hdr[c] \in MessageKinds \cup {"LOGIN"}
    BY DEF Typed, TypeOK, Headers
  <2>2. \A d \in Conns : d # c => ct'[d] = ct[d] /\ hdr'[d] = hdr[d] /\ made'[d] = made[d]
    BY DEF Typed, TypeOK, ProcessClient, ReadHeader, LockJobBuffer, ReadBody, ReadBodyFails,
           InsertJob, AfterInsert
  <2> QED BY <2>1, <2>2 DEF ProcessClient, ReadHeader, LockJobBuffer, ReadBody, ReadBodyFails,
           InsertJob, AfterInsert
<1>2. MainInHand'
  BY <1>1 DEF Typed, MainInHand
<1>3. CASE ReadHeader(c)
  <2>1. /\ in' \in [Conns -> Seq(MessageKinds \cup {"LOGIN", "body"})]
        /\ hdr' \in [Conns -> Headers] /\ hdr'[c] # "none"
    <3>1. CASE in[c] # <<>> /\ ~BodyNext(c)
                /\ hdr' = [hdr EXCEPT ![c] = Head(in[c])] /\ Receive(c)
      <4>1. Head(in[c]) \in MessageKinds \cup {"LOGIN"}
        BY <3>1 DEF BodyNext, Typed, TypeOK
      <4>2. Head(in[c]) # "none"
        BY <4>1 DEF MessageKinds, TwoFields, AboutUsers
      <4> QED BY <3>1, <4>1, <4>2, ReceiveTyped DEF Typed, TypeOK, Headers
    <3>2. CASE hdr[c] # "none" /\ UNCHANGED <<hdr, in>>
      BY <3>2 DEF Typed, TypeOK
    <3> QED BY <1>3, <3>1, <3>2 DEF ReadHeader
  <2>2. TypeOK'
    BY <1>1, <1>3, <2>1 DEF ReadHeader, Typed, TypeOK
  <2>3. ThreadInHand'
    BY <1>1, <1>3, <2>1 DEF ReadHeader, Typed, ThreadInHand
  <2> QED BY <1>2, <2>2, <2>3 DEF Typed
<1>4. CASE LockJobBuffer(c)
  <2>1. TypeOK'
    BY <1>1, <1>4 DEF LockJobBuffer, Typed, TypeOK
  <2> QED BY <1>1, <1>2, <1>4, <2>1 DEF LockJobBuffer, Typed, ThreadInHand
<1>5. CASE ReadBody(c)
  <2>1. /\ in' \in [Conns -> Seq(MessageKinds \cup {"LOGIN", "body"})]
        /\ body' \in [Conns -> BOOLEAN]
    BY <1>5, ReceiveTyped DEF ReadBody, Typed, TypeOK
  <2>2. TypeOK'
    BY <1>1, <1>5, <2>1 DEF ReadBody, Typed, TypeOK
  <2> QED BY <1>1, <1>2, <1>5, <2>2 DEF ReadBody, Typed, ThreadInHand
<1>6. CASE ReadBodyFails(c)
  <2>1. TypeOK'
    BY <1>1, <1>6 DEF ReadBodyFails, Typed, TypeOK
  <2> QED BY <1>1, <1>2, <1>6, <2>1 DEF ReadBodyFails, Typed, ThreadInHand
<1>7. CASE InsertJob(c)
  <2>1. /\ made[c] + 1 \in 1..MaxJobs
        /\ hdr[c] \in MessageKinds \cup {"LOGIN"} /\ body[c] \in BOOLEAN
    <3>1. /\ ct[c] = "insert" /\ made[c] \in 0..MaxJobs
          /\ hdr[c] \in MessageKinds \cup {"LOGIN", "none"} /\ body[c] \in BOOLEAN
      BY <1>7 DEF InsertJob, Goes, Typed, TypeOK, Headers
    <3>2. hdr[c] # "none" /\ made[c] < MaxJobs /\ MaxJobs \in Nat
      BY <1>1, <3>1, SessionsAssumption DEF Typed, ThreadInHand
    <3> QED BY <3>1, <3>2
  <2>2. [conn |-> c, type |-> hdr[c], body |-> body[c], n |-> made[c] + 1] \in Jobs
    BY <2>1 DEF Jobs
  <2>3. queue' \in Seq(Jobs)
    BY <1>7, <2>2 DEF InsertJob, Typed, TypeOK
  <2>4. /\ made' \in [Conns -> 0..MaxJobs] /\ body' \in [Conns -> BOOLEAN]
        /\ ct' \in [Conns -> ThreadLabels] /\ UNCHANGED <<in, bufferLock, hdr>>
    BY <1>7, <2>1 DEF InsertJob, Typed, TypeOK
  <2>5. TypeOK'
    BY <1>1, <2>3, <2>4 DEF Typed, TypeOK
  <2> QED BY <1>1, <1>2, <1>7, <2>5 DEF InsertJob, Typed, TypeOK, ThreadInHand
<1>8. CASE AfterInsert(c)
  <2>1. ct' \in [Conns -> ThreadLabels] /\ ct'[c] \in {"header", "returned"}
    BY <1>8 DEF AfterInsert, Typed, TypeOK
  <2>2. TypeOK'
    BY <1>1, <1>8, <2>1 DEF AfterInsert, Typed, TypeOK
  <2> QED BY <1>1, <1>2, <1>8, <2>1, <2>2 DEF AfterInsert, Typed, ThreadInHand
<1> QED BY <1>3, <1>4, <1>5, <1>6, <1>7, <1>8 DEF ProcessClient

LEMMA JobTyped ==
  ASSUME Typed, NEW t \in JobThreads, JobStep(t)
  PROVE  Typed'
<1> USE SessionsAssumption
    DEF clients, users, fds, mainThread, locks, threads, jobs, Done
<1>1. /\ UNCHANGED <<clients, mainThread, handler, locks, threads, process,
                     usersList, fd, owner, fdOf, openFds>>
  BY DEF JobStep, TakeJob, LogoutFind, LogoutClear, CarryOut
<1>2. MainInHand' /\ ThreadInHand'
  BY <1>1 DEF Typed, MainInHand, ThreadInHand
<1>3. CASE TakeJob(t)
  <2>1. Head(queue) \in Jobs /\ Tail(queue) \in Seq(Jobs)
    BY <1>3 DEF TakeJob, Typed, TypeOK
  <2>2. TypeOK'
    BY <1>1, <1>3, <2>1 DEF TakeJob, Typed, TypeOK
  <2> QED BY <1>2, <2>2 DEF Typed
<1>4. CASE LogoutFind(t)
  <2>1. found'[t] \in UsersOrNone /\ found' \in [JobThreads -> UsersOrNone]
    <3>1. FindUser(FdInHand(t)) \in UsersOrNone
      BY FindUserFinds DEF UsersOrNone, Typed
    <3> QED BY <1>4, <3>1 DEF LogoutFind, Typed, TypeOK
  <2>2. TypeOK'
    BY <1>1, <1>4, <2>1 DEF LogoutFind, Typed, TypeOK
  <2> QED BY <1>2, <2>2 DEF Typed
<1>5. CASE LogoutClear(t)
  <2>1. TypeOK'
    BY <1>1, <1>5 DEF LogoutClear, Typed, TypeOK, UsersOrNone
  <2> QED BY <1>2, <2>1 DEF Typed
<1>6. CASE CarryOut(t)
  <2>1. TypeOK'
    BY <1>1, <1>6 DEF CarryOut, Typed, TypeOK
  <2> QED BY <1>2, <2>1 DEF Typed
<1> QED BY <1>3, <1>4, <1>5, <1>6 DEF JobStep

(* The signal, its handler, and the ends of the process. *)
LEMMA StopTyped ==
  ASSUME Typed, NEW state \in {"killed", "exited"}, Stop(state)
  PROVE  Typed'
  BY DEF Stop, Typed, TypeOK, MainInHand, ThreadInHand, clients, users, fds,
         mainThread, locks, threads, jobs

LEMMA SignalTyped ==
  ASSUME Typed, Interrupt \/ LogEveryoneOut
  PROVE  Typed'
<1> USE DEF clients, users, fds, mainThread, locks, threads, jobs
<1>1. CASE Interrupt
  BY <1>1 DEF Interrupt, Typed, TypeOK, MainInHand, ThreadInHand
<1>2. CASE LogEveryoneOut
  <2>1. loginFlag' \in [Users -> BOOLEAN] /\ openFds' \subseteq Fds
    BY <1>2 DEF LogEveryoneOut, Typed, TypeOK
  <2>2. TypeOK'
    BY <1>2, <2>1 DEF LogEveryoneOut, Typed, TypeOK
  <2> QED BY <1>2, <2>2 DEF LogEveryoneOut, Typed, MainInHand, ThreadInHand
<1> QED BY <1>1, <1>2

(* What a step of Next is: the steps of the threads and the clients, the   *)
(* signal, the end of the process, or nothing.                             *)
LEMMA NextSteps ==
  ASSUME [Next]_vars
  PROVE  \/ MainStep
         \/ Interrupt \/ LogEveryoneOut
         \/ \E state \in {"killed", "exited"} : Stop(state)
         \/ \E c \in Conns : Client(c) \/ ProcessClient(c)
         \/ \E t \in JobThreads : JobStep(t)
         \/ UNCHANGED vars
  BY DEF Next, RunServer, RunJobs, AcceptFails, FirstHeaderFails, LoginCrash,
         CarryOutDies, Quiescent

LEMMA StepTyped == Typed /\ [Next]_vars => Typed'
  BY NextSteps, MainTyped, SignalTyped, StopTyped, ClientTyped, ProcessClientTyped,
     JobTyped, StutterTyped

LEMMA TypedInvariant == Spec => []Typed
  BY InitTyped, StepTyped, PTL DEF Spec

(* The variables keep their types: usersMutex is never posted twice by     *)
(* run_server and login, and no thread carries out a header, a job or a    *)
(* user it does not have.                                                  *)
THEOREM TypeCorrect == Spec => []TypeOK
<1>1. Typed => TypeOK
  BY DEF Typed
<1> QED BY <1>1, TypedInvariant, PTL
-------------------------------------------------------------------------------
LEMMA InitDescriptors == Init => Descriptors
<1> SUFFICES ASSUME Init PROVE Descriptors
  OBVIOUS
<1>1. Range(usersList) = {}
  BY DEF Init, Range
<1> QED BY <1>1, SessionsAssumption DEF Init, Descriptors, InService

(* Most steps leave the descriptors, their owners and their users alone. *)
LEMMA DescriptorsKept ==
  ASSUME Typed, Descriptors,
         UNCHANGED <<usersList, fd, owner, fdOf, openFds, cur>>,
         main' \notin {"accept", "unlockUsers", "fill", "spawn"} =>
           main \notin {"accept", "unlockUsers", "fill", "spawn"},
         handler' # "done" => handler # "done",
         \A c \in Conns : (ct'[c] = "none") <=> (ct[c] = "none")
  PROVE  Descriptors'
<1>1. \A c \in Conns : InService(c)' <=> InService(c)
  BY DEF InService
<1>2. \A u, c : OnDescriptor(u, c)' <=> OnDescriptor(u, c)
  BY DEF OnDescriptor
<1>3. cur \in Conns \cup {NoConn}
  BY DEF Typed, TypeOK
<1> QED BY <1>1, <1>2, <1>3 DEF Descriptors

LEMMA UsersNamed ==
  ASSUME TypeOK
  PROVE  /\ \A u \in Range(usersList) : u \in Users
         /\ NoName \notin Users /\ NoConn \notin Conns /\ NoFd \notin Fds
         /\ \A u : Range(Append(usersList, u)) = Range(usersList) \cup {u}
<1>1. usersList \in Seq(Users)
  BY DEF TypeOK
<1>2. NoName \notin Users /\ NoConn \notin Conns /\ NoFd \notin Fds
  BY SessionsAssumption DEF Users, NoFd, Fds
<1>3. \A u \in Range(usersList) : u \in Users
  BY <1>1 DEF Range
<1>4. ASSUME NEW u
      PROVE  Range(Append(usersList, u)) = Range(usersList) \cup {u}
  <2>1. /\ Len(Append(usersList, u)) = Len(usersList) + 1
        /\ \A i \in 1..Len(usersList) : Append(usersList, u)[i] = usersList[i]
        /\ Append(usersList, u)[Len(usersList) + 1] = u
        /\ DOMAIN Append(usersList, u) = 1..(Len(usersList) + 1)
        /\ DOMAIN usersList = 1..Len(usersList) /\ Len(usersList) \in Nat
    BY <1>1
  <2>2. \A i \in 1..(Len(usersList) + 1) : i \in 1..Len(usersList) \/ i = Len(usersList) + 1
    BY <2>1
  <2>3. 1..Len(usersList) \subseteq 1..(Len(usersList) + 1)
          /\ Len(usersList) + 1 \in 1..(Len(usersList) + 1)
    BY <2>1
  <2> HIDE <1>1
  <2> QED BY <2>1, <2>2, <2>3 DEF Range
<1> QED BY <1>2, <1>3, <1>4

LEMMA MainDescriptors ==
  ASSUME Typed, Descriptors, MainStep
  PROVE  Descriptors'
<1> USE UsersNamed
    DEF clients, users, fds, mainThread, locks, threads, jobs, At, Typed
<1>1. /\ handler' = handler /\ cur \in Conns \cup {NoConn}
      /\ fdOf \in [Conns -> Fds \cup {NoFd}] /\ owner \in [Conns -> UsersOrNone]
      /\ ct \in [Conns -> ThreadLabels] /\ fd \in [Users -> Fds \cup {NoFd}]
      /\ openFds \subseteq Fds
      /\ main # "accept" => cur \in Conns
  BY DEF MainStep, TypeOK, MainInHand
<1>2. CASE \/ FirstHeader \/ LockBuffer \/ LoginBody \/ LockUsers \/ LoginRefused
           \/ LoginAgain \/ LoginFill \/ UnlockUsers
  BY <1>1, <1>2, DescriptorsKept
     DEF FirstHeader, LockBuffer, LoginBody, LockUsers, LoginRefused, LoginAgain,
         LoginFill, UnlockUsers
<1>3. ASSUME NEW c \in Conns, Accept(c) PROVE Descriptors'
  <2>1. /\ fdOf[c] = NoFd /\ cur = NoConn /\ handler # "done" /\ main' = "header"
        /\ fdOf' = [fdOf EXCEPT ![c] = LowestFree] /\ cur' = c
        /\ openFds' = openFds \cup {LowestFree}
        /\ UNCHANGED <<usersList, fd, owner, ct>>
    BY <1>3 DEF Accept, Pending, IntFlag, MainInHand
  <2>2. LowestFree \in Fds /\ LowestFree \notin openFds
    BY <1>1, <1>3, LowestFreeIsFree DEF Accept
  <2>3. ~InService(c) /\ ct[c] = "none" /\ owner[c] = NoName
    BY <2>1 DEF Descriptors, InService
  <2>4. /\ fdOf'[c] = LowestFree /\ InService(c)'
        /\ \A d \in Conns : d # c => fdOf'[d] = fdOf[d] /\ (InService(d)' <=> InService(d))
    BY <1>1, <2>1 DEF InService
  <2>5. \A d \in Conns : InService(d) => d # c /\ fdOf[d] \in openFds
    BY <2>1, <2>3 DEF Descriptors
  <2>6. ASSUME NEW u \in Range(usersList) PROVE \E d \in Conns : OnDescriptor(u, d)'
    <3>1. PICK d \in Conns : OnDescriptor(u, d)
      BY DEF Descriptors
    <3>2. d # c
      BY <2>3, <3>1 DEF OnDescriptor
    <3> QED BY <2>1, <2>4, <3>1, <3>2 DEF OnDescriptor
  <2>7. /\ \A d \in Conns : fdOf'[d] = NoFd => ~InService(d)'
        /\ \A d \in Conns : owner'[d] # NoName => InService(d)'
    BY <2>1, <2>2, <2>3, <2>4 DEF Descriptors
  <2>8. \A d, e \in Conns : InService(d)' /\ InService(e)' /\ fdOf'[d] = fdOf'[e] => d = e
    BY <2>2, <2>4, <2>5 DEF Descriptors
  <2>9. \A d \in Conns : InService(d)' => fdOf'[d] \in openFds'
    BY <2>1, <2>4, <2>5
  <2> QED BY <2>1, <2>3, <2>6, <2>7, <2>8, <2>9 DEF Descriptors
<1>4. CASE LoginSetFd
  <2>1. /\ name \in Users /\ cur \in Conns /\ main = "setFd" /\ main' = "unlockUsers"
        /\ fd' = [fd EXCEPT ![name] = fdOf[cur]]
        /\ owner' = [owner EXCEPT ![cur] = name]
        /\ UNCHANGED <<usersList, fdOf, openFds, cur, ct>>
    BY <1>1, <1>4 DEF LoginSetFd, MainInHand, HoldsUsers
  <2>2. owner[cur] = NoName /\ owner'[cur] = name /\ fd'[name] = fdOf[cur]
        /\ \A d \in Conns : d # cur => owner'[d] = owner[d]
        /\ \A u \in Users : u # name => fd'[u] = fd[u]
    BY <1>1, <2>1 DEF Descriptors
  <2>3. \A d \in Conns : InService(d)' <=> InService(d)
    BY <2>1 DEF InService
  <2>4. ASSUME NEW u \in Range(usersList) PROVE \E d \in Conns : OnDescriptor(u, d)'
    <3>1. CASE u = name
      BY <2>1, <2>2, <3>1 DEF OnDescriptor
    <3>2. CASE u # name
      <4>1. PICK d \in Conns : OnDescriptor(u, d)
        BY DEF Descriptors
      <4> QED BY <2>1, <2>2, <3>2, <4>1 DEF OnDescriptor
    <3> QED BY <3>1, <3>2
  <2>5. InService(cur)
    BY DEF InService
  <2> QED BY <1>1, <2>1, <2>2, <2>3, <2>4, <2>5 DEF Descriptors
<1>5. CASE LoginNew
  <2>1. /\ name \in Users /\ cur \in Conns /\ main = "login"
        /\ main' \in {"unlockUsers", "fill"}
        /\ usersList' = Append(usersList, name)
        /\ fd' = [fd EXCEPT ![name] = fdOf[cur]]
        /\ owner' = [owner EXCEPT ![cur] = name]
        /\ UNCHANGED <<fdOf, openFds, cur, ct>>
    BY <1>1, <1>5 DEF LoginNew, MainInHand, HoldsUsers
  <2>2. owner[cur] = NoName /\ owner'[cur] = name /\ fd'[name] = fdOf[cur]
        /\ \A d \in Conns : d # cur => owner'[d] = owner[d]
        /\ \A u \in Users : u # name => fd'[u] = fd[u]
    BY <1>1, <2>1 DEF Descriptors
  <2>3. \A d \in Conns : InService(d)' <=> InService(d)
    BY <2>1 DEF InService
  <2>4. ASSUME NEW u \in Range(usersList') PROVE \E d \in Conns : OnDescriptor(u, d)'
    <3>1. CASE u = name
      BY <2>1, <2>2, <3>1 DEF OnDescriptor
    <3>2. CASE u # name
      <4>1. u \in Range(usersList)
        BY <2>1, <3>2
      <4>2. PICK d \in Conns : OnDescriptor(u, d)
        BY <4>1 DEF Descriptors
      <4> QED BY <2>1, <2>2, <3>2, <4>1, <4>2 DEF OnDescriptor
    <3> QED BY <3>1, <3>2
  <2>5. InService(cur)
    BY DEF InService
  <2> QED BY <1>1, <2>1, <2>2, <2>3, <2>4, <2>5 DEF Descriptors
<1>6. CASE UnlockClose
  <2>1. /\ main = "unlockClose" /\ main' = "accept" /\ cur \in Conns /\ cur' = NoConn
        /\ openFds' = openFds \ {fdOf[cur]}
        /\ UNCHANGED <<usersList, fd, owner, fdOf, ct>>
    BY <1>1, <1>6 DEF UnlockClose
  <2>2. ct[cur] = "none" /\ owner[cur] = NoName
    BY <2>1 DEF Descriptors
  <2>3. \A d \in Conns : InService(d)' <=> InService(d) /\ d # cur
    BY <2>1, <2>2 DEF InService
  <2>4. \A u, d : OnDescriptor(u, d)' <=> OnDescriptor(u, d)
    BY <2>1 DEF OnDescriptor
  <2>5. InService(cur)
    BY DEF InService
  <2> QED BY <1>1, <2>1, <2>2, <2>3, <2>4, <2>5 DEF Descriptors
<1>7. CASE Spawn
  <2>1. /\ cur \in Conns /\ main' = "accept" /\ cur' = NoConn
        /\ ct' = [ct EXCEPT ![cur] = "header"]
        /\ UNCHANGED <<usersList, fd, owner, fdOf, openFds>>
    BY <1>1, <1>7 DEF Spawn
  <2>2. \A d \in Conns : InService(d)' <=> InService(d)
    BY <1>1, <2>1 DEF InService
  <2>3. \A u, d : OnDescriptor(u, d)' <=> OnDescriptor(u, d)
    BY <2>1 DEF OnDescriptor
  <2> QED BY <1>1, <2>1, <2>2, <2>3 DEF Descriptors
<1> QED BY <1>2, <1>3, <1>4, <1>5, <1>6, <1>7 DEF MainStep

LEMMA StepDescriptors == Typed /\ Descriptors /\ [Next]_vars => Descriptors'
<1> SUFFICES ASSUME Typed, Descriptors, [Next]_vars PROVE Descriptors'
  OBVIOUS
<1> USE DEF clients, users, fds, mainThread, locks, threads, jobs
<1>1. ASSUME NEW c \in Conns, ProcessClient(c) PROVE Descriptors'
  <2>1. \A d \in Conns : (ct'[d] = "none") <=> (ct[d] = "none")
    BY <1>1 DEF ProcessClient, ReadHeader, LockJobBuffer, ReadBody, ReadBodyFails,
                InsertJob, AfterInsert, Goes, Typed, TypeOK
  <2> QED BY <1>1, <2>1, DescriptorsKept DEF ProcessClient
<1>2. ASSUME NEW c \in Conns, Client(c) PROVE Descriptors'
  BY <1>2, DescriptorsKept DEF Client
<1>3. ASSUME NEW t \in JobThreads, JobStep(t) PROVE Descriptors'
  BY <1>3, DescriptorsKept DEF JobStep, TakeJob, LogoutFind, LogoutClear, CarryOut
<1>4. CASE Interrupt
  BY <1>4, DescriptorsKept DEF Interrupt
<1>5. CASE LogEveryoneOut
  <2>1. \A c \in Conns : InService(c)' <=> InService(c)
    BY <1>5 DEF LogEveryoneOut, InService
  <2>2. \A u, c : OnDescriptor(u, c)' <=> OnDescriptor(u, c)
    BY <1>5 DEF LogEveryoneOut, OnDescriptor
  <2> QED BY <1>5, <2>1, <2>2 DEF LogEveryoneOut, Descriptors
<1>6. ASSUME NEW state \in {"killed", "exited"}, Stop(state) PROVE Descriptors'
  BY <1>6, DescriptorsKept DEF Stop
<1>7. CASE UNCHANGED vars
  BY <1>7, DescriptorsKept DEF vars
<1> QED BY <1>1, <1>2, <1>3, <1>4, <1>5, <1>6, <1>7, NextSteps, MainDescriptors

LEMMA DescriptorsInvariant == Spec => [](Typed /\ Descriptors)
  BY InitTyped, StepTyped, InitDescriptors, StepDescriptors, PTL DEF Spec

LEMMA AttributionFollows == Typed /\ Descriptors => Attribution
<1> SUFFICES ASSUME Typed, Descriptors,
                    NEW c \in Conns, ct[c] # "none", FindUser(fdOf[c]) # NoName
             PROVE  FindUser(fdOf[c]) = owner[c]
  BY DEF Attribution
<1> DEFINE u == FindUser(fdOf[c])
<1>1. u \in Range(usersList) /\ fd[u] = fdOf[c] /\ u \in Users /\ u # NoName
  BY FindUserFinds, UsersNamed DEF Typed
<1> HIDE DEF u
<1>2. PICK d \in Conns : owner[d] = u /\ fd[u] = fdOf[d]
  BY <1>1 DEF Descriptors, OnDescriptor
<1>3. InService(c) /\ InService(d) /\ fdOf[c] = fdOf[d]
  BY <1>1, <1>2 DEF Descriptors, InService
<1>4. c = d
  BY <1>3 DEF Descriptors
<1> QED BY <1>2, <1>4 DEF u

(* A request is carried out for the user who has logged in on its          *)
(* connection, or for nobody, whatever names and descriptors are used      *)
(* again: findUsername never takes one connection's request for another's. *)
THEOREM AttributionCorrect == Spec => []Attribution
  BY AttributionFollows, DescriptorsInvariant, PTL
-------------------------------------------------------------------------------
(* The jobs that wait or are carried out.  Each comes from a connection    *)
(* with a thread, and a user logout has found is the one of the job.       *)
JobsInServer == (Range(queue) \cup Range(hand)) \ {NoJob}
IsLogout(j, c) == j # NoJob /\ j.conn = c /\ j.type = "LOGOUT"

JobsHaveThreads ==
  /\ \A j \in JobsInServer : ct[j.conn] # "none"
  /\ \A t \in JobThreads :
       found[t] # NoName =>
         /\ hand[t] # NoJob /\ hand[t].type = "LOGOUT"
         /\ found[t] = owner[hand[t].conn]

(* A connection has one LOGOUT in the server, and after it no other.       *)
OneLogout ==
  \A c \in Conns :
    /\ \A j \in JobsInServer :
         IsLogout(j, c) => ct[c] = "returned" \/ (ct[c] = "inserted" /\ hdr[c] = "LOGOUT")
    /\ \A i, k \in 1..Len(queue) : IsLogout(queue[i], c) /\ IsLogout(queue[k], c) => i = k
    /\ \A t \in JobThreads, i \in 1..Len(queue) :
         ~(IsLogout(hand[t], c) /\ IsLogout(queue[i], c))
    /\ \A t, s \in JobThreads : IsLogout(hand[t], c) /\ IsLogout(hand[s], c) => t = s

(* Whoever can still log out has a session, and is the only one of that    *)
(* name who can: logins and logouts alternate.                             *)
SessionsServed ==
  /\ \A u \in Users : loginFlag[u] => u \in Range(usersList)
  /\ \A c \in Conns : owner[c] # NoName => owner[c] \in Range(usersList)
  /\ main = "setFd" => name \in Range(usersList)
  /\ handler # "done" =>
       /\ main = "setFd" => loginFlag[name]
       /\ \A c \in Conns : owner[c] # NoName /\ ServedBy(c) =>
            /\ loginFlag[owner[c]] /\ OnDescriptor(owner[c], c)
            /\ ~(main = "setFd" /\ name = owner[c])
-------------------------------------------------------------------------------
Places ==
  /\ \A j \in JobsInServer : j \in Jobs /\ j # NoJob /\ j.conn \in Conns
  /\ \A i \in 1..Len(queue) : queue[i] \in JobsInServer
  /\ \A t \in JobThreads : hand[t] # NoJob => hand[t] \in JobsInServer
  /\ \A j \in JobsInServer : \/ \E i \in 1..Len(queue) : j = queue[i]
                             \/ \E t \in JobThreads : j = hand[t]
LEMMA JobPlaces == TypeOK => Places
<1> SUFFICES ASSUME TypeOK PROVE Places
  OBVIOUS
<1>1. queue \in Seq(Jobs) /\ hand \in [JobThreads -> Jobs \cup {NoJob}]
  BY DEF TypeOK
<1>2. /\ Range(queue) = {queue[i] : i \in 1..Len(queue)}
      /\ \A i \in 1..Len(queue) : queue[i] \in Jobs
  BY <1>1 DEF Range
<1>3. Range(hand) = {hand[t] : t \in JobThreads}
  BY <1>1 DEF Range
<1>4. \A j \in Jobs : j # NoJob /\ j.conn \in Conns
  BY NoJobAssumption DEF Jobs
<1> QED BY <1>1, <1>2, <1>3, <1>4 DEF JobsInServer, Places

LEMMA JobPlacesNext == TypeOK' => Places'
  BY JobPlaces, PTL

(* Taking a job from the queue changes its place and nothing else. *)
LEMMA TakeJobMoves ==
  ASSUME TypeOK, TypeOK', NEW t \in JobThreads, TakeJob(t)
  PROVE  /\ hand[t] = NoJob /\ hand'[t] = queue[1] /\ 1 \in 1..Len(queue)
         /\ \A s \in JobThreads : s # t => hand'[s] = hand[s]
         /\ \A i \in 1..Len(queue') : i + 1 \in 1..Len(queue) /\ queue'[i] = queue[i + 1]
         /\ JobsInServer' = JobsInServer
<1>1. queue \in Seq(Jobs) /\ hand \in [JobThreads -> Jobs \cup {NoJob}]
  BY DEF TypeOK
<1>2. /\ queue # <<>> /\ queue' = Tail(queue) /\ Head(queue) = queue[1]
      /\ hand[t] = NoJob /\ hand' = [hand EXCEPT ![t] = Head(queue)]
  BY <1>1 DEF TakeJob
<1>3. /\ Len(queue) \in Nat /\ Len(queue) > 0 /\ Len(queue') = Len(queue) - 1
      /\ \A i \in 1..Len(queue') : queue'[i] = queue[i + 1]
  BY <1>1, <1>2
<1>4. /\ 1 \in 1..Len(queue) /\ \A i \in 1..Len(queue') : i + 1 \in 1..Len(queue)
      /\ \A i \in 1..Len(queue) : i = 1 \/ (i - 1 \in 1..Len(queue') /\ i = (i - 1) + 1)
  BY <1>3
<1>5. hand'[t] = queue[1] /\ \A s \in JobThreads : s # t => hand'[s] = hand[s]
  BY <1>1, <1>2
<1>6. Places /\ Places'
  BY JobPlaces, JobPlacesNext
<1>7. \A i \in 1..Len(queue) : queue[i] \in JobsInServer'
  <2> SUFFICES ASSUME NEW i \in 1..Len(queue) PROVE queue[i] \in JobsInServer'
    OBVIOUS
  <2>1. queue[i] \in Jobs /\ queue[i] # NoJob
    BY <1>1, NoJobAssumption
  <2>2. CASE i = 1
    BY <1>5, <1>6, <2>1, <2>2 DEF Places
  <2>3. CASE i # 1
    <3>1. i - 1 \in 1..Len(queue') /\ i = (i - 1) + 1
      BY <1>4, <2>3
    <3>2. queue'[i - 1] = queue[i]
      BY <1>3, <3>1
    <3> QED BY <1>6, <3>1, <3>2 DEF Places
  <2> QED BY <2>2, <2>3
<1>8. \A s \in JobThreads : hand[s] # NoJob => hand[s] \in JobsInServer'
  BY <1>2, <1>5, <1>6 DEF Places
<1>9. \A i \in 1..Len(queue') : queue'[i] \in JobsInServer
  BY <1>3, <1>4, <1>6 DEF Places
<1>10. \A s \in JobThreads : hand'[s] # NoJob => hand'[s] \in JobsInServer
  BY <1>4, <1>5, <1>6 DEF Places
<1>11. JobsInServer' \subseteq JobsInServer
  BY <1>6, <1>9, <1>10 DEF Places
<1>12. JobsInServer \subseteq JobsInServer'
  BY <1>6, <1>7, <1>8 DEF Places
<1> QED BY <1>2, <1>3, <1>4, <1>5, <1>11, <1>12

(* Carrying a job out takes it, and no other, from the server. *)
LEMMA DoneMoves ==
  ASSUME TypeOK, TypeOK', NEW t \in JobThreads, hand[t] # NoJob, Done(t)
  PROVE  /\ hand'[t] = NoJob /\ queue' = queue
         /\ \A s \in JobThreads : s # t => hand'[s] = hand[s]
         /\ JobsInServer' \subseteq JobsInServer
         /\ JobsInServer \subseteq JobsInServer' \cup {hand[t]}
<1>1. /\ hand'[t] = NoJob /\ queue' = queue
      /\ \A s \in JobThreads : s # t => hand'[s] = hand[s]
  BY DEF TypeOK, Done
<1>2. Places /\ Places'
  BY JobPlaces, JobPlacesNext
<1>3. JobsInServer' \subseteq JobsInServer
  <2>1. \A i \in 1..Len(queue) : queue[i] \in JobsInServer
    BY <1>2 DEF Places
  <2>2. \A s \in JobThreads : hand'[s] # NoJob => hand'[s] \in JobsInServer
    BY <1>1, <1>2 DEF Places
  <2> QED BY <1>1, <1>2, <2>1, <2>2 DEF Places
<1>4. JobsInServer \subseteq JobsInServer' \cup {hand[t]}
  <2>1. \A i \in 1..Len(queue) : queue[i] \in JobsInServer'
    BY <1>1, <1>2 DEF Places
  <2>2. \A s \in JobThreads : hand[s] # NoJob => hand[s] \in JobsInServer' \cup {hand[t]}
    BY <1>1, <1>2 DEF Places
  <2> QED BY <1>2, <2>1, <2>2 DEF Places
<1> QED BY <1>1, <1>3, <1>4

(* process_client adds one job at the end of the queue. *)
NewJob(c) == [conn |-> c, type |-> hdr[c], body |-> body[c], n |-> made[c] + 1]
LEMMA InsertJobMoves ==
  ASSUME TypeOK, TypeOK', NEW c \in Conns, InsertJob(c)
  PROVE  /\ hand' = hand /\ Len(queue') = Len(queue) + 1 /\ Len(queue) \in Nat
         /\ queue'[Len(queue) + 1] = NewJob(c)
         /\ \A i \in 1..Len(queue) : queue'[i] = queue[i]
         /\ NewJob(c) \in Jobs /\ NewJob(c) # NoJob
         /\ JobsInServer' = JobsInServer \cup {NewJob(c)}
<1> DEFINE n == Len(queue)
<1>1. queue \in Seq(Jobs) /\ queue' = Append(queue, NewJob(c)) /\ hand' = hand
  BY DEF TypeOK, InsertJob, NewJob
<1>2. /\ n \in Nat /\ Len(queue') = n + 1 /\ queue'[n + 1] = NewJob(c)
      /\ \A i \in 1..n : queue'[i] = queue[i]
  BY <1>1
<1>3. /\ n + 1 \in 1..Len(queue') /\ \A i \in 1..n : i \in 1..Len(queue')
      /\ \A i \in 1..Len(queue') : i \in 1..n \/ i = n + 1
  BY <1>2
<1>4. NewJob(c) \in Jobs /\ NewJob(c) # NoJob
  <2>1. queue' \in Seq(Jobs)
    BY DEF TypeOK
  <2> QED BY <1>2, <1>3, <2>1, NoJobAssumption
<1>5. Places /\ Places'
  BY JobPlaces, JobPlacesNext
<1> HIDE DEF n
<1>6. JobsInServer' \subseteq JobsInServer \cup {NewJob(c)}
  <2>1. \A i \in 1..Len(queue') : queue'[i] \in JobsInServer \cup {NewJob(c)}
    BY <1>2, <1>3, <1>5 DEF Places, n
  <2>2. \A s \in JobThreads : hand'[s] # NoJob => hand'[s] \in JobsInServer
    BY <1>1, <1>5 DEF Places
  <2> QED BY <1>5, <2>1, <2>2 DEF Places
<1>7. JobsInServer \cup {NewJob(c)} \subseteq JobsInServer'
  <2>1. \A i \in 1..n : queue[i] \in JobsInServer'
    BY <1>2, <1>3, <1>5 DEF Places
  <2>2. NewJob(c) \in JobsInServer'
    BY <1>2, <1>3, <1>5 DEF Places
  <2>3. \A s \in JobThreads : hand[s] # NoJob => hand[s] \in JobsInServer'
    BY <1>1, <1>5 DEF Places
  <2> QED BY <1>5, <2>1, <2>2, <2>3 DEF Places, n
<1> QED BY <1>1, <1>2, <1>4, <1>6, <1>7 DEF n
-------------------------------------------------------------------------------
LEMMA InitJobs == Init => JobsHaveThreads /\ OneLogout /\ JobsInServer = {}
<1> SUFFICES ASSUME Init PROVE JobsHaveThreads /\ OneLogout /\ JobsInServer = {}
  OBVIOUS
<1>1. /\ queue = <<>> /\ \A t \in JobThreads : hand[t] = NoJob /\ found[t] = NoName
      /\ DOMAIN hand = JobThreads
  BY DEF Init
<1>2. JobsInServer = {}
  BY <1>1 DEF JobsInServer, Range
<1> QED BY <1>1, <1>2 DEF JobsHaveThreads, OneLogout, IsLogout

(* Steps that leave the jobs alone, and the owners of jobs. *)
LEMMA JobsHaveThreadsKept ==
  ASSUME Typed, JobsHaveThreads, UNCHANGED jobs,
         \A c \in Conns : ct[c] # "none" => ct'[c] # "none" /\ owner'[c] = owner[c]
  PROVE  JobsHaveThreads'
<1>1. Places
  BY JobPlaces DEF Typed
<1>2. UNCHANGED <<queue, hand, found>> /\ JobsInServer' = JobsInServer
  BY DEF jobs, JobsInServer
<1>3. \A t \in JobThreads : hand[t] # NoJob => hand[t].conn \in Conns /\ ct[hand[t].conn] # "none"
  BY <1>1 DEF Places, JobsHaveThreads
<1> QED BY <1>1, <1>2, <1>3 DEF Places, JobsHaveThreads

LEMMA MainJobs ==
  ASSUME Typed, Descriptors, JobsHaveThreads, MainStep
  PROVE  JobsHaveThreads'
<1> USE DEF clients, users, fds, mainThread, locks, threads, At
<1>1. UNCHANGED jobs
  BY DEF MainStep
<1>2. ASSUME NEW c \in Conns, ct[c] # "none" PROVE ct'[c] # "none" /\ owner'[c] = owner[c]
  <2>1. c # cur
    BY <1>2, SessionsAssumption DEF Descriptors
  <2> QED BY <1>2, <2>1
          DEF MainStep, FirstHeader, LockBuffer, LoginBody, LockUsers, LoginRefused, LoginAgain,
              LoginSetFd, LoginNew, LoginFill, UnlockUsers, UnlockClose, Spawn, Accept,
              Typed, TypeOK
<1> QED BY <1>1, <1>2, JobsHaveThreadsKept

LEMMA ProcessClientJobs ==
  ASSUME Typed, Typed', JobsHaveThreads, NEW c \in Conns, ProcessClient(c)
  PROVE  JobsHaveThreads'
<1> USE DEF users, fds, mainThread, locks, threads
<1>1. /\ owner' = owner /\ ct[c] # "none" /\ ct'[c] # "none"
      /\ \A d \in Conns : d # c => ct'[d] = ct[d]
  BY DEF ProcessClient, ReadHeader, LockJobBuffer, ReadBody, ReadBodyFails, InsertJob,
         AfterInsert, Goes, Typed, TypeOK
<1>2. CASE InsertJob(c)
  <2>1. /\ hand' = hand /\ found' = found
        /\ JobsInServer' = JobsInServer \cup {NewJob(c)}
    BY <1>2, InsertJobMoves DEF Typed, InsertJob
  <2>2. NewJob(c).conn = c
    BY DEF NewJob
  <2>3. Places
    BY JobPlaces DEF Typed
  <2> QED BY <1>1, <2>1, <2>2, <2>3 DEF JobsHaveThreads, Places
<1>3. CASE ~InsertJob(c)
  <2>1. UNCHANGED jobs
    BY <1>3 DEF ProcessClient, ReadHeader, LockJobBuffer, ReadBody, ReadBodyFails,
                AfterInsert, jobs
  <2>2. \A d \in Conns : ct[d] # "none" => ct'[d] # "none" /\ owner'[d] = owner[d]
    BY <1>1
  <2> QED BY <2>1, <2>2, JobsHaveThreadsKept
<1> QED BY <1>2, <1>3

LEMMA JobStepJobs ==
  ASSUME Typed, Typed', Attribution, JobsHaveThreads, NEW t \in JobThreads, JobStep(t)
  PROVE  JobsHaveThreads'
<1>1. UNCHANGED <<owner, ct>>
  BY DEF JobStep, TakeJob, LogoutFind, LogoutClear, CarryOut, users, threads
<1>2. Places /\ found \in [JobThreads -> UsersOrNone]
  BY JobPlaces DEF Typed, TypeOK
<1>3. CASE TakeJob(t)
  <2>1. /\ hand[t] = NoJob /\ \A s \in JobThreads : s # t => hand'[s] = hand[s]
        /\ JobsInServer' = JobsInServer /\ found' = found
    BY <1>3, TakeJobMoves DEF Typed, TakeJob
  <2> QED BY <1>1, <2>1 DEF JobsHaveThreads
<1>4. CASE LogoutFind(t)
  <2>1. /\ hand[t] # NoJob /\ hand[t].type = "LOGOUT"
        /\ found' = [found EXCEPT ![t] = FindUser(FdInHand(t))]
    BY <1>4 DEF LogoutFind, Doing
  <2>2. found'[t] = FindUser(FdInHand(t)) /\ \A s \in JobThreads : s # t => found'[s] = found[s]
    BY <1>2, <2>1
  <2>3. CASE found'[t] = NoName
    <3>1. /\ \A s \in JobThreads : s # t => hand'[s] = hand[s]
          /\ JobsInServer' \subseteq JobsInServer
      BY <1>4, <2>1, <2>3, DoneMoves DEF Typed, LogoutFind
    <3> QED BY <1>1, <2>2, <2>3, <3>1 DEF JobsHaveThreads
  <2>4. CASE found'[t] # NoName
    <3>1. UNCHANGED <<queue, hand>> /\ JobsInServer' = JobsInServer
      BY <1>4, <2>4 DEF LogoutFind, JobsInServer
    <3>2. hand[t].conn \in Conns /\ ct[hand[t].conn] # "none"
      BY <1>2, <2>1 DEF Places, JobsHaveThreads
    <3>3. found'[t] = owner[hand[t].conn]
      BY <2>2, <2>4, <3>2 DEF Attribution, FdInHand
    <3> QED BY <1>1, <2>1, <2>2, <3>1, <3>3 DEF JobsHaveThreads
  <2> QED BY <2>3, <2>4
<1>5. CASE LogoutClear(t) \/ CarryOut(t)
  <2>1. /\ hand[t] # NoJob /\ Done(t)
        /\ found'[t] = NoName /\ \A s \in JobThreads : s # t => found'[s] = found[s]
    <3>1. CASE LogoutClear(t)
      BY <1>2, <3>1 DEF LogoutClear, Doing
    <3>2. CASE CarryOut(t)
      <4>1. hand[t] # NoJob /\ hand[t].type # "LOGOUT" /\ found' = found /\ Done(t)
        BY <3>2 DEF CarryOut, Doing
      <4> QED BY <4>1 DEF JobsHaveThreads
    <3> QED BY <1>5, <3>1, <3>2
  <2>2. /\ \A s \in JobThreads : s # t => hand'[s] = hand[s]
        /\ JobsInServer' \subseteq JobsInServer
    BY <2>1, DoneMoves DEF Typed
  <2> QED BY <1>1, <2>1, <2>2 DEF JobsHaveThreads
<1> QED BY <1>3, <1>4, <1>5 DEF JobStep

LEMMA StepJobs ==
  Typed /\ Typed' /\ Descriptors /\ Attribution /\ JobsHaveThreads /\ [Next]_vars
    => JobsHaveThreads'
<1> SUFFICES ASSUME Typed, Typed', Descriptors, Attribution, JobsHaveThreads, [Next]_vars
             PROVE  JobsHaveThreads'
  OBVIOUS
<1>1. CASE \/ Interrupt \/ LogEveryoneOut \/ UNCHANGED vars
           \/ \E state \in {"killed", "exited"} : Stop(state)
           \/ \E c \in Conns : Client(c)
  <2>1. UNCHANGED <<jobs, ct, owner>>
    BY <1>1 DEF Interrupt, LogEveryoneOut, Stop, Client, vars, users, threads
  <2> QED BY <2>1, JobsHaveThreadsKept
<1> QED BY <1>1, NextSteps, MainJobs, ProcessClientJobs, JobStepJobs
-------------------------------------------------------------------------------
(* The three ways in which a connection can still log out. *)
Reading(c) ==
  ct[c] \in {"header", "lock", "body", "insert"} \/ (ct[c] = "inserted" /\ hdr[c] # "LOGOUT")
LogoutPending(c) == \E j \in JobsInServer : IsLogout(j, c)
LoggingIn(c) == main \in {"unlockUsers", "fill", "setFd", "spawn"} /\ cur = c

ServedWays == \A c \in Conns : ServedBy(c) <=> Reading(c) \/ LogoutPending(c) \/ LoggingIn(c)
LEMMA ServedByParts == ServedWays
  BY DEF ServedWays, ServedBy, Reading, LogoutPending, LoggingIn, JobsInServer, IsLogout

LEMMA ServedByPartsNext == ServedWays'
  BY ServedByParts, PTL

LEMMA ListedUsers ==
  ASSUME NEW s, NEW S, s \in Seq(S), NEW u
  PROVE  Contains(s, u) <=> u \in Range(s)
  BY DEF Contains, Range

(* NobodyLockedIn in these terms: in the middle of a login, or served.     *)
CanLogOut(u) ==
  (main = "setFd" /\ name = u) \/ \E c \in Conns : OnDescriptor(u, c) /\ ServedBy(c)
AllCanLogOut == \A u \in Users : u \in Range(usersList) /\ loginFlag[u] => CanLogOut(u)

LEMMA LockedInMeans == TypeOK => (NobodyLockedIn <=> AllCanLogOut)
<1> SUFFICES ASSUME TypeOK PROVE NobodyLockedIn <=> AllCanLogOut
  OBVIOUS
<1>1. \A u \in Users : Contains(usersList, u) <=> u \in Range(usersList)
  BY ListedUsers DEF TypeOK
<1>2. \A u, c : OnDescriptor(u, c) <=> owner[c] = u /\ fdOf[c] = fd[u]
  BY DEF OnDescriptor
<1> QED BY <1>1, <1>2, Zenon DEF NobodyLockedIn, AllCanLogOut, CanLogOut

LEMMA CanLogOutKept ==
  ASSUME Typed, AllCanLogOut,
         UNCHANGED <<usersList, fd, owner>>,
         \A c \in Conns : owner[c] # NoName => fdOf'[c] = fdOf[c],
         \A u \in Users : loginFlag'[u] => loginFlag[u],
         main = "setFd" => main' = "setFd" /\ name' = name,
         \A c \in Conns : ServedBy(c) => ServedBy(c)'
  PROVE  AllCanLogOut'
<1> SUFFICES ASSUME NEW u \in Users, u \in Range(usersList), loginFlag[u]
             PROVE  CanLogOut(u)'
  BY DEF AllCanLogOut
<1>1. CanLogOut(u) /\ u # NoName
  BY UsersNamed DEF AllCanLogOut, Typed
<1>2. \A c \in Conns : OnDescriptor(u, c) => OnDescriptor(u, c)'
  BY <1>1 DEF OnDescriptor
<1> QED BY <1>1, <1>2 DEF CanLogOut

LEMMA MainLogOut ==
  ASSUME Typed, Descriptors, AllCanLogOut, MainStep
  PROVE  AllCanLogOut'
<1> USE DEF clients, users, fds, mainThread, locks, threads, jobs, At
<1>1. UNCHANGED <<queue, hand>> /\ cur \in Conns \cup {NoConn} /\ NoConn \notin Conns
  BY UsersNamed DEF MainStep, Typed, TypeOK
<1>2. \A c \in Conns : LogoutPending(c)' <=> LogoutPending(c)
  BY <1>1 DEF LogoutPending, JobsInServer, IsLogout
<1>3. CASE \/ FirstHeader \/ LockBuffer \/ LoginBody \/ LockUsers \/ LoginRefused
           \/ LoginFill \/ UnlockUsers \/ UnlockClose \/ \E c \in Conns : Accept(c)
  <2>1. /\ UNCHANGED <<usersList, fd, owner, loginFlag, ct, hdr>>
        /\ main # "setFd"
    BY <1>3 DEF FirstHeader, LockBuffer, LoginBody, LockUsers, LoginRefused, LoginFill,
                UnlockUsers, UnlockClose, Accept
  <2>2. \A c \in Conns : owner[c] # NoName => fdOf'[c] = fdOf[c]
    <3>1. CASE \E c \in Conns : Accept(c)
      <4>1. PICK c \in Conns : Accept(c)
        BY <3>1
      <4>2. owner[c] = NoName /\ fdOf' = [fdOf EXCEPT ![c] = LowestFree]
        BY <4>1 DEF Accept, Pending, Descriptors
      <4> QED BY <4>2 DEF Typed, TypeOK
    <3> QED BY <1>3, <3>1 DEF FirstHeader, LockBuffer, LoginBody, LockUsers, LoginRefused,
                LoginFill, UnlockUsers, UnlockClose
  <2>3. \A c \in Conns : Reading(c)' <=> Reading(c)
    BY <2>1 DEF Reading
  <2>4. \A c \in Conns : LoggingIn(c) => LoggingIn(c)'
    BY <1>3 DEF LoggingIn, FirstHeader, LockBuffer, LoginBody, LockUsers, LoginRefused,
                LoginFill, UnlockUsers, UnlockClose, Accept
  <2>5. \A c \in Conns : ServedBy(c) => ServedBy(c)'
    BY <1>2, <2>3, <2>4, ServedByParts, ServedByPartsNext DEF ServedWays
  <2> QED BY <2>1, <2>2, <2>5, CanLogOutKept
<1>4. CASE LoginAgain
  <2>1. /\ main' = "setFd" /\ name' = name /\ main = "login" /\ name \in Users
        /\ loginFlag' = [loginFlag EXCEPT ![name] = TRUE]
        /\ UNCHANGED <<usersList, fd, owner, fdOf, ct, hdr>>
    BY <1>4 DEF LoginAgain, Typed, MainInHand, HoldsUsers
  <2>2. \A c \in Conns : ServedBy(c) => ServedBy(c)'
    <3>1. \A c \in Conns : (Reading(c)' <=> Reading(c)) /\ ~LoggingIn(c)
      BY <2>1 DEF Reading, LoggingIn
    <3> QED BY <1>2, <3>1, ServedByParts, ServedByPartsNext DEF ServedWays
  <2>3. \A u, c : OnDescriptor(u, c)' <=> OnDescriptor(u, c)
    BY <2>1 DEF OnDescriptor
  <2>4. ASSUME NEW u \in Users, u \in Range(usersList), loginFlag'[u], u # name
        PROVE  CanLogOut(u)'
    <3>1. loginFlag[u]
      BY <2>1, <2>4 DEF Typed, TypeOK
    <3> QED BY <2>1, <2>2, <2>3, <2>4, <3>1 DEF AllCanLogOut, CanLogOut
  <2>5. CanLogOut(name)'
    BY <2>1 DEF CanLogOut
  <2> QED BY <2>1, <2>4, <2>5 DEF AllCanLogOut
<1>5. CASE LoginSetFd \/ LoginNew
  <2>1. /\ main' \in {"unlockUsers", "fill"} /\ name' = name /\ main \in {"login", "setFd"}
        /\ name \in Users /\ cur \in Conns /\ cur' = cur
        /\ fd' = [fd EXCEPT ![name] = fdOf[cur]] /\ owner' = [owner EXCEPT ![cur] = name]
        /\ Range(usersList') \subseteq Range(usersList) \cup {name}
        /\ \A u \in Users : u # name => (loginFlag'[u] <=> loginFlag[u])
        /\ main = "setFd" => LoginSetFd
        /\ UNCHANGED <<fdOf, ct, hdr>>
    <3>1. CASE LoginSetFd
      BY <3>1 DEF LoginSetFd, Typed, TypeOK, MainInHand, HoldsUsers
    <3>2. CASE LoginNew
      BY <3>2, UsersNamed DEF LoginNew, Typed, TypeOK, MainInHand, HoldsUsers
    <3> QED BY <1>5, <3>1, <3>2
  <2>2. owner[cur] = NoName /\ owner'[cur] = name /\ fd'[name] = fdOf'[cur]
        /\ \A c \in Conns : c # cur => owner'[c] = owner[c]
        /\ \A u \in Users : u # name => fd'[u] = fd[u]
    BY <2>1 DEF Descriptors, Typed, TypeOK
  <2>3. ServedBy(cur)'
    BY <2>1 DEF ServedBy
  <2>4. CanLogOut(name)'
    BY <2>1, <2>2, <2>3 DEF CanLogOut, OnDescriptor
  <2>5. ASSUME NEW u \in Users, u \in Range(usersList'), loginFlag'[u], u # name
        PROVE  CanLogOut(u)'
    <3>1. u \in Range(usersList) /\ loginFlag[u] /\ u # NoName
      BY <2>1, <2>5, UsersNamed DEF Typed
    <3>2. PICK c \in Conns : OnDescriptor(u, c) /\ ServedBy(c)
      BY <2>5, <3>1 DEF AllCanLogOut, CanLogOut
    <3>3. c # cur
      BY <2>2, <3>1, <3>2 DEF OnDescriptor
    <3>4. OnDescriptor(u, c)'
      BY <2>1, <2>2, <2>5, <3>2, <3>3 DEF OnDescriptor
    <3>5. ServedBy(c)'
      <4>1. Reading(c)' <=> Reading(c)
        BY <2>1 DEF Reading
      <4>2. ~LoggingIn(c)
        BY <3>3 DEF LoggingIn
      <4> QED BY <1>2, <3>2, <4>1, <4>2, ServedByParts, ServedByPartsNext DEF ServedWays
    <3> QED BY <3>4, <3>5 DEF CanLogOut
  <2> QED BY <2>1, <2>4, <2>5 DEF AllCanLogOut
<1>6. CASE Spawn
  <2>1. /\ UNCHANGED <<usersList, fd, owner, loginFlag, fdOf>> /\ main = "spawn"
        /\ ct' = [ct EXCEPT ![cur] = "header"] /\ cur \in Conns
        /\ \A c \in Conns : c # cur => hdr'[c] = hdr[c]
    BY <1>1, <1>6 DEF Spawn, Typed, TypeOK, MainInHand
  <2>2. ASSUME NEW c \in Conns, ServedBy(c) PROVE ServedBy(c)'
    <3>1. CASE c = cur
      <4>1. Reading(c)'
        BY <2>1, <3>1 DEF Reading, Typed, TypeOK
      <4> QED BY <4>1, ServedByPartsNext DEF ServedWays
    <3>2. CASE c # cur
      <4>1. (Reading(c)' <=> Reading(c)) /\ ~LoggingIn(c)
        BY <2>1, <3>2 DEF Reading, LoggingIn, Typed, TypeOK
      <4> QED BY <1>2, <2>2, <4>1, ServedByParts, ServedByPartsNext DEF ServedWays
    <3> QED BY <3>1, <3>2
  <2> QED BY <2>1, <2>2, CanLogOutKept
<1> QED BY <1>3, <1>4, <1>5, <1>6 DEF MainStep

LEMMA ProcessClientLogOut ==
  ASSUME Typed, Typed', AllCanLogOut, "LOGOUT" \notin FreedTypes,
         NEW c \in Conns, ProcessClient(c)
  PROVE  AllCanLogOut'
<1> USE DEF users, fds, mainThread, locks, threads, Goes
<1>1. /\ UNCHANGED <<usersList, fd, owner, loginFlag, fdOf, main, name, cur>>
      /\ \A d \in Conns : d # c => ct'[d] = ct[d] /\ hdr'[d] = hdr[d]
  BY DEF ProcessClient, ReadHeader, LockJobBuffer, ReadBody, ReadBodyFails, InsertJob,
         AfterInsert, Typed, TypeOK
<1>2. \A d \in Conns : /\ LoggingIn(d)' <=> LoggingIn(d)
                       /\ d # c => (Reading(d)' <=> Reading(d))
  BY <1>1 DEF LoggingIn, Reading
<1>3. \A d \in Conns : LogoutPending(d) => LogoutPending(d)'
  <2>1. CASE InsertJob(c)
    <3>1. JobsInServer \subseteq JobsInServer'
      BY <2>1, InsertJobMoves DEF Typed
    <3> QED BY <3>1 DEF LogoutPending, IsLogout
  <2>2. CASE ~InsertJob(c)
    <3>1. UNCHANGED <<queue, hand>>
      BY <2>2 DEF ProcessClient, ReadHeader, LockJobBuffer, ReadBody, ReadBodyFails,
                  AfterInsert, jobs
    <3> QED BY <3>1 DEF LogoutPending, IsLogout, JobsInServer
  <2> QED BY <2>1, <2>2
<1>4. Reading(c) => Reading(c)' \/ LogoutPending(c)'
  <2>1. CASE ReadHeader(c) \/ LockJobBuffer(c) \/ ReadBody(c) \/ ReadBodyFails(c)
    BY <2>1 DEF Reading, ReadHeader, LockJobBuffer, ReadBody, ReadBodyFails, Typed, TypeOK
  <2>2. CASE InsertJob(c)
    <3>1. CASE hdr[c] = "LOGOUT"
      <4>1. IsLogout(NewJob(c), c) /\ NewJob(c) \in JobsInServer'
        BY <2>2, <3>1, InsertJobMoves DEF Typed, IsLogout, NewJob
      <4> QED BY <4>1 DEF LogoutPending, IsLogout
    <3>2. CASE hdr[c] # "LOGOUT"
      BY <2>2, <3>2 DEF Reading, InsertJob, Typed, TypeOK
    <3> QED BY <3>1, <3>2
  <2>3. CASE AfterInsert(c)
    <3>1. Reading(c) => hdr[c] # "LOGOUT"
      BY <2>3 DEF Reading, AfterInsert
    <3>2. hdr[c] # "LOGOUT" => ct'[c] = "header"
      BY <2>3 DEF AfterInsert, Typed, TypeOK
    <3> QED BY <3>1, <3>2 DEF Reading
  <2> QED BY <2>1, <2>2, <2>3 DEF ProcessClient
<1>5. \A d \in Conns : ServedBy(d) => ServedBy(d)'
  BY <1>2, <1>3, <1>4, ServedByParts, ServedByPartsNext DEF ServedWays
<1> QED BY <1>1, <1>5, CanLogOutKept

(* The LOGOUT of a connection leaves the server when its user, if there is *)
(* one, has been logged out.                                               *)
LEMMA JobStepLogOut ==
  ASSUME Typed, Typed', Attribution, JobsHaveThreads, AllCanLogOut,
         NEW t \in JobThreads, JobStep(t)
  PROVE  AllCanLogOut'
<1> USE DEF users, fds, mainThread, locks, threads
<1>1. UNCHANGED <<usersList, fd, owner, fdOf, main, name, cur, ct, hdr>>
  BY DEF JobStep, TakeJob, LogoutFind, LogoutClear, CarryOut
<1>2. \A d \in Conns : (LoggingIn(d)' <=> LoggingIn(d)) /\ (Reading(d)' <=> Reading(d))
  BY <1>1 DEF LoggingIn, Reading
<1>3. ASSUME NEW u \in Users, u \in Range(usersList), loginFlag'[u], loginFlag[u],
             \A d \in Conns : OnDescriptor(u, d) /\ LogoutPending(d) => LogoutPending(d)'
      PROVE  CanLogOut(u)'
  <2>1. CanLogOut(u)
    BY <1>3 DEF AllCanLogOut
  <2>2. \A d \in Conns : OnDescriptor(u, d) /\ ServedBy(d) => OnDescriptor(u, d)' /\ ServedBy(d)'
    BY <1>1, <1>2, <1>3, ServedByParts, ServedByPartsNext DEF ServedWays, OnDescriptor
  <2> QED BY <1>1, <2>1, <2>2 DEF CanLogOut
<1>4. CASE TakeJob(t)
  <2>1. JobsInServer' = JobsInServer /\ loginFlag' = loginFlag
    BY <1>4, TakeJobMoves DEF Typed, TakeJob
  <2>2. \A d : LogoutPending(d)' <=> LogoutPending(d)
    BY <2>1 DEF LogoutPending, IsLogout
  <2> QED BY <1>1, <1>3, <2>1, <2>2 DEF AllCanLogOut
<1>5. CASE LogoutFind(t)
  <2>1. loginFlag' = loginFlag
    BY <1>5 DEF LogoutFind
  <2>2. CASE found'[t] # NoName
    <3>1. UNCHANGED <<queue, hand>>
      BY <1>5, <2>2 DEF LogoutFind
    <3>2. \A d : LogoutPending(d)' <=> LogoutPending(d)
      BY <3>1 DEF LogoutPending, IsLogout, JobsInServer
    <3> QED BY <1>1, <1>3, <2>1, <3>2 DEF AllCanLogOut
  <2>3. CASE found'[t] = NoName
    <3>1. /\ hand[t] # NoJob /\ FindUser(FdInHand(t)) = NoName /\ Done(t)
      BY <1>5, <2>3 DEF LogoutFind, Doing, Typed, TypeOK
    <3>2. JobsInServer \subseteq JobsInServer' \cup {hand[t]}
      BY <3>1, DoneMoves DEF Typed
    <3>3. \A u \in Range(usersList) : fd[u] # fdOf[hand[t].conn]
      BY <3>1, FindUserFinds DEF Typed, FdInHand
    <3>4. ASSUME NEW u \in Range(usersList), NEW d \in Conns, OnDescriptor(u, d), LogoutPending(d)
          PROVE  LogoutPending(d)'
      <4>1. PICK j \in JobsInServer : IsLogout(j, d)
        BY <3>4 DEF LogoutPending
      <4>2. j # hand[t]
        BY <3>3, <3>4, <4>1 DEF IsLogout, OnDescriptor
      <4> QED BY <3>2, <4>1, <4>2 DEF LogoutPending, IsLogout
    <3> QED BY <1>1, <1>3, <2>1, <3>4 DEF AllCanLogOut
  <2> QED BY <2>2, <2>3
<1>6. CASE LogoutClear(t)
  <2>1. /\ hand[t] # NoJob /\ found[t] # NoName /\ Done(t)
        /\ loginFlag' = [loginFlag EXCEPT ![found[t]] = FALSE]
    BY <1>6 DEF LogoutClear, Doing
  <2>2. found[t] = owner[hand[t].conn] /\ found[t] \in Users
    BY <2>1 DEF JobsHaveThreads, Typed, TypeOK, UsersOrNone
  <2>3. JobsInServer \subseteq JobsInServer' \cup {hand[t]}
    BY <2>1, DoneMoves DEF Typed
  <2>4. ASSUME NEW u \in Users, u # found[t], NEW d \in Conns, OnDescriptor(u, d), LogoutPending(d)
        PROVE  LogoutPending(d)'
    <3>1. PICK j \in JobsInServer : IsLogout(j, d)
      BY <2>4 DEF LogoutPending
    <3>2. j # hand[t]
      BY <2>2, <2>4, <3>1 DEF IsLogout, OnDescriptor
    <3> QED BY <2>3, <3>1, <3>2 DEF LogoutPending, IsLogout
  <2>5. \A u \in Users : loginFlag'[u] => u # found[t] /\ loginFlag[u]
    BY <2>1, <2>2 DEF Typed, TypeOK
  <2> QED BY <1>1, <1>3, <2>4, <2>5 DEF AllCanLogOut
<1>7. CASE CarryOut(t)
  <2>1. hand[t] # NoJob /\ hand[t].type # "LOGOUT" /\ Done(t) /\ loginFlag' = loginFlag
    BY <1>7 DEF CarryOut, Doing
  <2>2. JobsInServer \subseteq JobsInServer' \cup {hand[t]}
    BY <2>1, DoneMoves DEF Typed
  <2>3. \A d : LogoutPending(d) => LogoutPending(d)'
    BY <2>1, <2>2 DEF LogoutPending, IsLogout
  <2> QED BY <1>1, <1>3, <2>1, <2>3 DEF AllCanLogOut
<1> QED BY <1>4, <1>5, <1>6, <1>7 DEF JobStep

LEMMA StepLogOut ==
  "LOGOUT" \notin FreedTypes =>
    (Typed /\ Typed' /\ Descriptors /\ Attribution /\ JobsHaveThreads /\ AllCanLogOut
       /\ [Next]_vars => AllCanLogOut')
<1> SUFFICES ASSUME "LOGOUT" \notin FreedTypes, Typed, Typed', Descriptors, Attribution,
                    JobsHaveThreads, AllCanLogOut, [Next]_vars
             PROVE  AllCanLogOut'
  OBVIOUS
<1>1. CASE LogEveryoneOut
  <2>1. \A u \in Users : ~loginFlag'[u]
    BY <1>1 DEF LogEveryoneOut, Typed, TypeOK
  <2> QED BY <2>1 DEF AllCanLogOut
<1>2. CASE \/ Interrupt \/ UNCHANGED vars \/ \E c \in Conns : Client(c)
           \/ \E state \in {"killed", "exited"} : Stop(state)
  <2>1. UNCHANGED <<users, fds, mainThread, threads, jobs>>
    BY <1>2 DEF Interrupt, Stop, Client, vars
  <2>2. UNCHANGED <<usersList, fd, owner, loginFlag, fdOf, main, name, cur, ct, hdr,
                    queue, hand>>
    BY <2>1 DEF users, fds, mainThread, threads, jobs
  <2>3. \A c \in Conns : ServedBy(c) => ServedBy(c)'
    BY <2>2 DEF ServedBy
  <2> QED BY <2>2, <2>3, CanLogOutKept
<1> QED BY <1>1, <1>2, NextSteps, MainLogOut, ProcessClientLogOut, JobStepLogOut

LEMMA InitLogOut == Init => AllCanLogOut
  BY DEF Init, AllCanLogOut, Range

(* Everybody who is logged in can log out: there is always a thread that   *)
(* reads from the connection, or a LOGOUT on its way, as long as no client *)
(* thread takes a job that has been freed for a LOGOUT.                    *)
THEOREM LoggedInServed ==
  ASSUME "LOGOUT" \notin FreedTypes
  PROVE  Spec => []NobodyLockedIn
<1> DEFINE IInv == Typed /\ Descriptors /\ Attribution /\ JobsHaveThreads /\ AllCanLogOut
<1>1. Init => IInv
  BY InitTyped, InitDescriptors, AttributionFollows, InitJobs, InitLogOut
<1>2. IInv /\ [Next]_vars => IInv'
  <2>1. (Typed /\ Descriptors => Attribution)'
    BY AttributionFollows, PTL
  <2> QED BY <2>1, StepTyped, StepDescriptors, StepJobs, StepLogOut
<1>3. IInv => NobodyLockedIn
  BY LockedInMeans DEF Typed
<1> QED BY <1>1, <1>2, <1>3, PTL DEF Spec
-------------------------------------------------------------------------------
(* A LOGOUT job is the last of its connection, so that a connection logs   *)
(* out once.                                                               *)
LEMMA OneLogoutKept ==
  ASSUME Typed, OneLogout, UNCHANGED <<queue, hand>>,
         \A c \in Conns : ct[c] \in {"returned", "inserted"} =>
           \/ ct'[c] = "returned"
           \/ ct'[c] = ct[c] /\ hdr'[c] = hdr[c]
           \/ ct'[c] = "header" /\ hdr[c] # "LOGOUT" /\ ct[c] = "inserted"
  PROVE  OneLogout'
<1>1. \A j, c : IsLogout(j, c)' <=> IsLogout(j, c)
  BY DEF IsLogout
<1>2. JobsInServer' = JobsInServer
  BY DEF JobsInServer
<1>3. ASSUME NEW c \in Conns, NEW j \in JobsInServer, IsLogout(j, c)
      PROVE  ct'[c] = "returned" \/ (ct'[c] = "inserted" /\ hdr'[c] = "LOGOUT")
  BY <1>3 DEF OneLogout
<1> QED BY <1>2, <1>3 DEF OneLogout, IsLogout

LEMMA ProcessClientOneLogout ==
  ASSUME Typed, Typed', OneLogout, FreedTypes \subseteq {"LOGOUT"},
         NEW c \in Conns, ProcessClient(c)
  PROVE  OneLogout'
<1> USE DEF users, fds, mainThread, locks, threads, Goes
<1>1. \A d \in Conns : d # c => ct'[d] = ct[d] /\ hdr'[d] = hdr[d]
  BY DEF ProcessClient, ReadHeader, LockJobBuffer, ReadBody, ReadBodyFails, InsertJob,
         AfterInsert, Typed, TypeOK
<1>2. CASE \/ ReadHeader(c) \/ LockJobBuffer(c) \/ ReadBody(c) \/ ReadBodyFails(c)
  <2>1. UNCHANGED <<queue, hand>> /\ ct[c] \notin {"returned", "inserted"}
    BY <1>2 DEF ReadHeader, LockJobBuffer, ReadBody, ReadBodyFails, jobs
  <2> QED BY <1>1, <2>1, OneLogoutKept
<1>3. CASE AfterInsert(c)
  <2>1. UNCHANGED <<queue, hand, hdr>> /\ ct[c] = "inserted"
    BY <1>3 DEF AfterInsert, jobs
  <2>2. ct'[c] = IF hdr[c] = "LOGOUT" THEN "returned" ELSE ct'[c]
    BY <1>3 DEF AfterInsert, Typed, TypeOK
  <2>3. ct'[c] \in {"returned", "header"}
    BY <1>3 DEF AfterInsert, Typed, TypeOK
  <2> QED BY <1>1, <2>1, <2>2, <2>3, OneLogoutKept
<1>4. CASE InsertJob(c)
  <2>1. /\ hand' = hand /\ Len(queue') = Len(queue) + 1 /\ Len(queue) \in Nat
        /\ queue'[Len(queue) + 1] = NewJob(c)
        /\ \A i \in 1..Len(queue) : queue'[i] = queue[i]
        /\ JobsInServer' = JobsInServer \cup {NewJob(c)}
    BY <1>4, InsertJobMoves DEF Typed
  <2>2. ct[c] = "insert" /\ ct'[c] = "inserted" /\ hdr' = hdr
    BY <1>4 DEF InsertJob, Typed, TypeOK
  <2>3. \A j \in JobsInServer : ~IsLogout(j, c)
    BY <2>2 DEF OneLogout
  <2>4. NewJob(c).conn = c /\ NewJob(c).type = hdr[c]
    BY DEF NewJob
  <2>5. \A d : IsLogout(NewJob(c), d) => d = c /\ hdr[c] = "LOGOUT"
    BY <2>4 DEF IsLogout
  <2>6. \A i \in 1..Len(queue') : i \in 1..Len(queue) \/ i = Len(queue) + 1
    BY <2>1
  <2>7. \A i \in 1..Len(queue) : queue[i] \in JobsInServer
    BY JobPlaces DEF Typed, Places
  <2>8. \A t \in JobThreads : ~IsLogout(hand[t], c)
    BY <2>3, JobPlaces DEF Typed, Places, IsLogout
  <2>9. \A d \in Conns, j \in JobsInServer' :
          IsLogout(j, d) => ct'[d] = "returned" \/ (ct'[d] = "inserted" /\ hdr'[d] = "LOGOUT")
    BY <1>1, <2>1, <2>2, <2>3, <2>5 DEF OneLogout
  <2>10. \A d \in Conns, i, k \in 1..Len(queue') :
           IsLogout(queue'[i], d) /\ IsLogout(queue'[k], d) => i = k
    BY <2>1, <2>3, <2>5, <2>6, <2>7 DEF OneLogout
  <2>11. \A d \in Conns, t \in JobThreads, i \in 1..Len(queue') :
           ~(IsLogout(hand'[t], d) /\ IsLogout(queue'[i], d))
    BY <2>1, <2>5, <2>6, <2>8 DEF OneLogout
  <2> QED BY <2>1, <2>9, <2>10, <2>11 DEF OneLogout, IsLogout
<1> QED BY <1>2, <1>3, <1>4 DEF ProcessClient

LEMMA JobStepOneLogout ==
  ASSUME Typed, Typed', JobsHaveThreads, OneLogout, NEW t \in JobThreads, JobStep(t)
  PROVE  OneLogout'
<1>1. UNCHANGED <<ct, hdr>>
  BY DEF JobStep, threads
<1>2. CASE TakeJob(t)
  <2>1. /\ hand'[t] = queue[1] /\ 1 \in 1..Len(queue)
        /\ \A s \in JobThreads : s # t => hand'[s] = hand[s]
        /\ \A i \in 1..Len(queue') : i + 1 \in 1..Len(queue) /\ queue'[i] = queue[i + 1]
        /\ JobsInServer' = JobsInServer
    BY <1>2, TakeJobMoves DEF Typed
  <2>2. \A d \in Conns, j \in JobsInServer' :
          IsLogout(j, d) => ct'[d] = "returned" \/ (ct'[d] = "inserted" /\ hdr'[d] = "LOGOUT")
    BY <1>1, <2>1 DEF OneLogout
  <2>3. \A d \in Conns, i, k \in 1..Len(queue') :
          IsLogout(queue'[i], d) /\ IsLogout(queue'[k], d) => i = k
    <3> SUFFICES ASSUME NEW d \in Conns, NEW i \in 1..Len(queue'), NEW k \in 1..Len(queue'),
                        IsLogout(queue'[i], d), IsLogout(queue'[k], d)
                 PROVE  i = k
      OBVIOUS
    <3>1. i + 1 = k + 1
      BY <2>1 DEF OneLogout
    <3> QED BY <3>1
  <2>4. \A d \in Conns, s \in JobThreads, i \in 1..Len(queue') :
          ~(IsLogout(hand'[s], d) /\ IsLogout(queue'[i], d))
    <3> SUFFICES ASSUME NEW d \in Conns, NEW s \in JobThreads, NEW i \in 1..Len(queue'),
                        IsLogout(hand'[s], d), IsLogout(queue'[i], d)
                 PROVE  FALSE
      OBVIOUS
    <3>1. CASE s = t
      <4>1. 1 = i + 1
        BY <2>1, <3>1 DEF OneLogout
      <4> QED BY <4>1
    <3>2. CASE s # t
      BY <2>1, <3>2 DEF OneLogout
    <3> QED BY <3>1, <3>2
  <2>5. \A d \in Conns, s, r \in JobThreads :
          IsLogout(hand'[s], d) /\ IsLogout(hand'[r], d) => s = r
    BY <2>1 DEF OneLogout
  <2> QED BY <2>2, <2>3, <2>4, <2>5 DEF OneLogout, IsLogout
<1>3. CASE UNCHANGED <<queue, hand>>
  BY <1>1, <1>3, OneLogoutKept
<1>4. CASE hand[t] # NoJob /\ Done(t)
  <2>1. /\ hand'[t] = NoJob /\ queue' = queue
        /\ \A s \in JobThreads : s # t => hand'[s] = hand[s]
        /\ JobsInServer' \subseteq JobsInServer
    BY <1>4, DoneMoves DEF Typed
  <2>2. \A s \in JobThreads : \A d : IsLogout(hand'[s], d) => IsLogout(hand[s], d)
    BY <2>1 DEF IsLogout
  <2> QED BY <1>1, <2>1, <2>2 DEF OneLogout, IsLogout
<1>5. TakeJob(t) \/ UNCHANGED <<queue, hand>> \/ (hand[t] # NoJob /\ Done(t))
  BY DEF JobStep, LogoutFind, LogoutClear, CarryOut, Doing
<1> QED BY <1>2, <1>3, <1>4, <1>5

LEMMA StepOneLogout ==
  FreedTypes \subseteq {"LOGOUT"} =>
    (Typed /\ Typed' /\ Descriptors /\ JobsHaveThreads /\ OneLogout /\ [Next]_vars
       => OneLogout')
<1> SUFFICES ASSUME FreedTypes \subseteq {"LOGOUT"}, Typed, Typed', Descriptors,
                    JobsHaveThreads, OneLogout, [Next]_vars
             PROVE  OneLogout'
  OBVIOUS
<1>1. CASE MainStep
  <2>1. UNCHANGED <<queue, hand>>
    BY <1>1 DEF MainStep, jobs
  <2>2. \A c \in Conns : ct[c] # "none" => ct'[c] = ct[c] /\ hdr'[c] = hdr[c]
    <3>1. \A c \in Conns : ct[c] # "none" => c # cur
      BY SessionsAssumption DEF Descriptors
    <3> QED BY <1>1, <3>1
          DEF MainStep, FirstHeader, LockBuffer, LoginBody, LockUsers, LoginRefused, LoginAgain,
              LoginSetFd, LoginNew, LoginFill, UnlockUsers, UnlockClose, Spawn, Accept,
              threads, Typed, TypeOK
  <2> QED BY <2>1, <2>2, OneLogoutKept
<1>2. CASE \/ Interrupt \/ LogEveryoneOut \/ UNCHANGED vars
           \/ \E state \in {"killed", "exited"} : Stop(state)
           \/ \E c \in Conns : Client(c)
  <2>1. UNCHANGED <<queue, hand, ct, hdr>>
    BY <1>2 DEF Interrupt, LogEveryoneOut, Stop, Client, vars, threads, jobs
  <2> QED BY <2>1, OneLogoutKept
<1> QED BY <1>1, <1>2, NextSteps, ProcessClientOneLogout, JobStepOneLogout
-------------------------------------------------------------------------------
LEMMA InitServed == Init => SessionsServed
  BY DEF Init, SessionsServed, ServedBy

(* Steps that log nobody in or out, and let no connection log out that     *)
(* could not before.                                                       *)
LEMMA SessionsServedKept ==
  ASSUME Typed, SessionsServed,
         UNCHANGED <<usersList, loginFlag, fd, owner>>,
         \A c \in Conns : owner[c] # NoName => fdOf'[c] = fdOf[c],
         handler' # "done" => handler # "done",
         main' = "setFd" => main = "setFd" /\ name' = name,
         \A c \in Conns : owner[c] # NoName /\ ServedBy(c)' => ServedBy(c)
  PROVE  SessionsServed'
<1>1. \A c \in Conns : owner[c] # NoName => (OnDescriptor(owner[c], c)' <=> OnDescriptor(owner[c], c))
  BY DEF OnDescriptor
<1> QED BY <1>1 DEF SessionsServed

LEMMA MainServed ==
  ASSUME Typed, Descriptors, SessionsServed, MainStep
  PROVE  SessionsServed'
<1> USE DEF clients, users, fds, mainThread, locks, threads, jobs, At
<1>1. /\ UNCHANGED <<queue, hand, handler>>
      /\ cur \in Conns \cup {NoConn} /\ NoConn \notin Conns /\ NoName \notin Users
  BY UsersNamed DEF MainStep, Typed, TypeOK
<1>2. \A c \in Conns : LogoutPending(c)' <=> LogoutPending(c)
  BY <1>1 DEF LogoutPending, JobsInServer, IsLogout
<1>3. CASE \/ FirstHeader \/ LockBuffer \/ LoginBody \/ LockUsers \/ LoginRefused
           \/ LoginFill \/ UnlockUsers \/ UnlockClose \/ \E c \in Conns : Accept(c)
  <2>1. /\ UNCHANGED <<usersList, fd, owner, loginFlag, ct, hdr>>
        /\ main' # "setFd"
    BY <1>3 DEF FirstHeader, LockBuffer, LoginBody, LockUsers, LoginRefused, LoginFill,
                UnlockUsers, UnlockClose, Accept
  <2>2. \A c \in Conns : owner[c] # NoName => fdOf'[c] = fdOf[c]
    <3>1. CASE \E c \in Conns : Accept(c)
      <4>1. PICK c \in Conns : Accept(c)
        BY <3>1
      <4>2. owner[c] = NoName /\ fdOf' = [fdOf EXCEPT ![c] = LowestFree]
        BY <4>1 DEF Accept, Pending, Descriptors
      <4> QED BY <4>2 DEF Typed, TypeOK
    <3> QED BY <1>3, <3>1 DEF FirstHeader, LockBuffer, LoginBody, LockUsers, LoginRefused,
                LoginFill, UnlockUsers, UnlockClose
  <2>3. \A c \in Conns : Reading(c)' <=> Reading(c)
    BY <2>1 DEF Reading
  <2>4. ASSUME NEW c \in Conns, owner[c] # NoName, LoggingIn(c)' PROVE LoggingIn(c)
    <3>1. CASE \E d \in Conns : Accept(d)
      BY <2>4, <3>1 DEF LoggingIn, Accept
    <3>2. CASE ~\E d \in Conns : Accept(d)
      <4>1. UNCHANGED cur
        BY <1>3, <2>4, <3>2 DEF LoggingIn, FirstHeader, LockBuffer, LoginBody, LockUsers,
                LoginRefused, LoginFill, UnlockUsers, UnlockClose
      <4>2. cur = c
        BY <2>4, <4>1 DEF LoggingIn
      <4>3. main \in {"accept", "unlockUsers", "fill", "spawn"}
        BY <2>4, <4>2 DEF Descriptors
      <4> QED BY <1>3, <3>2, <4>2, <4>3 DEF LoggingIn, FirstHeader, LockBuffer, LoginBody,
                LockUsers, LoginRefused, LoginFill, UnlockUsers, UnlockClose
    <3> QED BY <3>1, <3>2
  <2>5. \A c \in Conns : owner[c] # NoName /\ ServedBy(c)' => ServedBy(c)
    BY <1>2, <2>3, <2>4, ServedByParts, ServedByPartsNext DEF ServedWays
  <2> QED BY <1>1, <2>1, <2>2, <2>5, SessionsServedKept
<1>4. CASE LoginAgain
  <2>1. /\ main' = "setFd" /\ name' = name /\ main = "login" /\ name \in Users
        /\ cur' = cur /\ cur \in Conns /\ owner[cur] = NoName
        /\ loginFlag' = [loginFlag EXCEPT ![name] = TRUE] /\ ~loginFlag[name]
        /\ name \in Range(usersList)
        /\ UNCHANGED <<usersList, fd, owner, fdOf, ct, hdr>>
    BY <1>4, ListedUsers DEF LoginAgain, Known, Descriptors, Typed, TypeOK, MainInHand, HoldsUsers
  <2>2. loginFlag'[name] /\ \A u \in Users : u # name => (loginFlag'[u] <=> loginFlag[u])
    BY <2>1 DEF Typed, TypeOK
  <2>3. ASSUME NEW c \in Conns, owner[c] # NoName, ServedBy(c)', handler # "done"
        PROVE  /\ loginFlag[owner[c]] /\ OnDescriptor(owner[c], c)
               /\ owner[c] # name
    <3>1. (Reading(c)' <=> Reading(c)) /\ ~LoggingIn(c)'
      BY <2>1, <2>3 DEF Reading, LoggingIn
    <3>2. ServedBy(c)
      BY <1>2, <2>3, <3>1, ServedByParts, ServedByPartsNext DEF ServedWays
    <3> QED BY <2>1, <2>3, <3>2 DEF SessionsServed
  <2>4. \A c \in Conns : owner[c] # NoName => owner[c] \in Users
    BY DEF Typed, TypeOK, UsersOrNone
  <2>5. \A u, c : OnDescriptor(u, c)' <=> OnDescriptor(u, c)
    BY <2>1 DEF OnDescriptor
  <2> QED BY <1>1, <2>1, <2>2, <2>3, <2>4, <2>5 DEF SessionsServed
<1>5. CASE LoginSetFd \/ LoginNew
  <2>1. /\ main' # "setFd" /\ main \in {"login", "setFd"}
        /\ name \in Users /\ cur \in Conns
        /\ fd' = [fd EXCEPT ![name] = fdOf[cur]] /\ owner' = [owner EXCEPT ![cur] = name]
        /\ Range(usersList') = Range(usersList) \cup {name}
        /\ handler # "done" => loginFlag'[name]
        /\ \A u \in Users : u # name => (loginFlag'[u] <=> loginFlag[u])
        /\ UNCHANGED <<fdOf, ct, hdr>> /\ cur' = cur
    <3>1. CASE LoginSetFd
      BY <3>1 DEF LoginSetFd, SessionsServed, Typed, TypeOK, MainInHand, HoldsUsers
    <3>2. CASE LoginNew
      BY <3>2, UsersNamed DEF LoginNew, Typed, TypeOK, MainInHand, HoldsUsers
    <3> QED BY <1>5, <3>1, <3>2
  <2>2. owner[cur] = NoName /\ owner'[cur] = name /\ fd'[name] = fdOf'[cur]
        /\ \A c \in Conns : c # cur => owner'[c] = owner[c]
        /\ \A u \in Users : u # name => fd'[u] = fd[u]
    BY <2>1 DEF Descriptors, Typed, TypeOK
  <2>3. ASSUME NEW c \in Conns, owner[c] = name, c # cur PROVE ~ServedBy(c) \/ handler = "done"
    <3>1. CASE LoginSetFd
      BY <1>1, <2>1, <2>3, <3>1 DEF LoginSetFd, SessionsServed
    <3>2. CASE LoginNew
      <4>1. name \notin Range(usersList)
        BY <3>2, ListedUsers DEF LoginNew, Known, Typed, TypeOK
      <4> QED BY <1>1, <2>1, <2>3, <4>1 DEF SessionsServed
    <3> QED BY <1>5, <3>1, <3>2
  <2>4. ASSUME NEW c \in Conns, c # cur, owner[c] # NoName, ServedBy(c)', handler # "done"
        PROVE  loginFlag'[owner'[c]] /\ fd'[owner'[c]] = fdOf'[c]
    <3>1. (Reading(c)' <=> Reading(c)) /\ ~LoggingIn(c)'
      BY <2>1, <2>4 DEF Reading, LoggingIn
    <3>2. ServedBy(c)
      BY <1>2, <2>4, <3>1, ServedByParts, ServedByPartsNext DEF ServedWays
    <3>3. owner[c] # name /\ owner[c] \in Users
      BY <2>3, <2>4, <3>2 DEF Typed, TypeOK, UsersOrNone
    <3>4. loginFlag[owner[c]] /\ OnDescriptor(owner[c], c)
      BY <2>4, <3>2 DEF SessionsServed
    <3> QED BY <2>1, <2>2, <2>4, <3>3, <3>4 DEF OnDescriptor
  <2>5. \A c \in Conns : owner'[c] # NoName => owner'[c] \in Range(usersList')
    BY <2>1, <2>2 DEF SessionsServed
  <2>6. \A u \in Users : loginFlag'[u] => u \in Range(usersList')
    BY <2>1 DEF SessionsServed
  <2>7. handler # "done" => loginFlag'[owner'[cur]] /\ fd'[owner'[cur]] = fdOf'[cur]
    BY <2>1, <2>2
  <2>8. \A c \in Conns : owner'[c] # NoName /\ ServedBy(c)' /\ handler # "done" =>
          loginFlag'[owner'[c]] /\ fd'[owner'[c]] = fdOf'[c]
    BY <2>2, <2>4, <2>7
  <2> QED BY <1>1, <2>1, <2>5, <2>6, <2>8 DEF SessionsServed, OnDescriptor
<1>6. CASE Spawn
  <2>1. /\ UNCHANGED <<usersList, fd, owner, loginFlag, fdOf>> /\ main = "spawn"
        /\ main' = "accept" /\ cur \in Conns
        /\ \A c \in Conns : c # cur => hdr'[c] = hdr[c] /\ ct'[c] = ct[c]
    BY <1>6 DEF Spawn, Typed, TypeOK, MainInHand
  <2>2. ASSUME NEW c \in Conns, ServedBy(c)' PROVE ServedBy(c)
    <3>1. CASE c = cur
      BY <2>1, <3>1 DEF ServedBy
    <3>2. CASE c # cur
      <4>1. (Reading(c)' <=> Reading(c)) /\ ~LoggingIn(c)'
        BY <2>1, <3>2 DEF Reading, LoggingIn
      <4> QED BY <1>2, <2>2, <4>1, ServedByParts, ServedByPartsNext DEF ServedWays
    <3> QED BY <3>1, <3>2
  <2> QED BY <1>1, <2>1, <2>2, SessionsServedKept
<1> QED BY <1>3, <1>4, <1>5, <1>6 DEF MainStep

LEMMA ProcessClientServed ==
  ASSUME Typed, Typed', SessionsServed, FreedTypes \subseteq {"LOGOUT"},
         NEW c \in Conns, ProcessClient(c)
  PROVE  SessionsServed'
<1> USE DEF users, fds, mainThread, locks, threads, Goes
<1>1. /\ UNCHANGED <<usersList, fd, owner, loginFlag, fdOf, main, name, cur, handler>>
      /\ \A d \in Conns : d # c => ct'[d] = ct[d] /\ hdr'[d] = hdr[d]
  BY DEF ProcessClient, ReadHeader, LockJobBuffer, ReadBody, ReadBodyFails, InsertJob,
         AfterInsert, Typed, TypeOK
<1>2. \A d \in Conns : /\ LoggingIn(d)' <=> LoggingIn(d)
                       /\ d # c => (Reading(d)' <=> Reading(d))
  BY <1>1 DEF LoggingIn, Reading
<1>3. Reading(c)' => Reading(c)
  <2>1. CASE ReadHeader(c) \/ LockJobBuffer(c) \/ ReadBody(c) \/ ReadBodyFails(c) \/ InsertJob(c)
    BY <2>1 DEF Reading, ReadHeader, LockJobBuffer, ReadBody, ReadBodyFails, InsertJob
  <2>2. CASE AfterInsert(c)
    <3>1. hdr[c] = "LOGOUT" => ct'[c] = "returned"
      BY <2>2 DEF AfterInsert, Typed, TypeOK
    <3> QED BY <2>2, <3>1 DEF Reading, AfterInsert
  <2> QED BY <2>1, <2>2 DEF ProcessClient
<1>4. \A d \in Conns : LogoutPending(d)' => LogoutPending(d) \/ (d = c /\ Reading(c))
  <2>1. CASE InsertJob(c)
    <3>1. JobsInServer' = JobsInServer \cup {NewJob(c)} /\ NewJob(c).conn = c
      BY <2>1, InsertJobMoves DEF Typed, NewJob
    <3>2. Reading(c)
      BY <2>1 DEF Reading, InsertJob
    <3> QED BY <3>1, <3>2 DEF LogoutPending, IsLogout
  <2>2. CASE ~InsertJob(c)
    <3>1. UNCHANGED <<queue, hand>>
      BY <2>2 DEF ProcessClient, ReadHeader, LockJobBuffer, ReadBody, ReadBodyFails,
                  AfterInsert, jobs
    <3> QED BY <3>1 DEF LogoutPending, IsLogout, JobsInServer
  <2> QED BY <2>1, <2>2
<1>5. \A d \in Conns : ServedBy(d)' => ServedBy(d)
  BY <1>2, <1>3, <1>4, ServedByParts, ServedByPartsNext DEF ServedWays
<1> QED BY <1>1, <1>5, SessionsServedKept

(* The LOGOUT that a job thread carries out is of a connection that can    *)
(* log out no more, and of the only one of its user that could.            *)
LEMMA LogoutIsLast ==
  ASSUME Typed, Typed', Descriptors, JobsHaveThreads, OneLogout, SessionsServed,
         NEW t \in JobThreads, LogoutClear(t), UNCHANGED <<main, cur, ct, hdr>>,
         NEW c \in Conns, c = hand[t].conn
  PROVE  /\ found[t] = owner[c] /\ found[t] \in Users
         /\ ServedBy(c) /\ ~ServedBy(c)'
         /\ handler # "done" => \A d \in Conns : owner[d] = found[t] /\ ServedBy(d) => d = c
<1>1. /\ hand[t] # NoJob /\ hand[t].type = "LOGOUT" /\ found[t] # NoName /\ Done(t)
  BY DEF LogoutClear, Doing
<1>2. /\ ct[c] # "none" /\ hand[t] \in JobsInServer /\ IsLogout(hand[t], c)
  BY <1>1, JobPlaces DEF Typed, Places, JobsHaveThreads, IsLogout
<1>3. found[t] = owner[c] /\ found[t] \in Users
  BY <1>1 DEF JobsHaveThreads, Typed, TypeOK, UsersOrNone
<1>4. ServedBy(c)
  BY <1>2, ServedByParts DEF ServedWays, LogoutPending
<1>5. ~ServedBy(c)'
  <2>1. ct[c] = "returned" \/ (ct[c] = "inserted" /\ hdr[c] = "LOGOUT")
    BY <1>2 DEF OneLogout
  <2>2. ~Reading(c)'
    BY <1>2, <2>1 DEF Reading
  <2>3. ~LoggingIn(c)'
    BY <1>2, SessionsAssumption DEF LoggingIn, Descriptors
  <2>4. ~LogoutPending(c)'
    <3> SUFFICES ASSUME NEW j \in JobsInServer', IsLogout(j, c) PROVE FALSE
      BY DEF LogoutPending, IsLogout
    <3>1. /\ hand'[t] = NoJob /\ queue' = queue
          /\ \A s \in JobThreads : s # t => hand'[s] = hand[s]
      BY <1>1, DoneMoves DEF Typed
    <3>2. CASE \E i \in 1..Len(queue) : j = queue[i]
      BY <1>2, <3>2 DEF OneLogout
    <3>3. CASE \E s \in JobThreads : j = hand'[s]
      BY <1>2, <3>1, <3>3 DEF OneLogout, IsLogout
    <3> QED BY <3>1, <3>2, <3>3, JobPlacesNext DEF Typed, Places
  <2> QED BY <1>2, <2>2, <2>3, <2>4, ServedByPartsNext DEF ServedWays
<1>6. ASSUME handler # "done", NEW d \in Conns, owner[d] = found[t], ServedBy(d)
      PROVE  d = c
  <2>1. found[t] # NoName
    BY <1>1
  <2>2. OnDescriptor(found[t], d) /\ OnDescriptor(found[t], c)
    BY <1>2, <1>3, <1>4, <1>6, <2>1 DEF SessionsServed
  <2>3. InService(c) /\ InService(d)
    BY <1>2, <1>6, <2>1 DEF Descriptors, InService
  <2> QED BY <1>2, <2>2, <2>3 DEF Descriptors, OnDescriptor
<1> QED BY <1>2, <1>3, <1>4, <1>5, <1>6

LEMMA JobStepServed ==
  ASSUME Typed, Typed', Descriptors, JobsHaveThreads, OneLogout, SessionsServed,
         NEW t \in JobThreads, JobStep(t)
  PROVE  SessionsServed'
<1> USE DEF users, fds, mainThread, threads
<1>1. UNCHANGED <<usersList, fd, owner, fdOf, main, name, cur, ct, hdr, handler>>
  BY DEF JobStep, TakeJob, LogoutFind, LogoutClear, CarryOut
<1>2. \A d \in Conns : ServedBy(d)' => ServedBy(d)
  <2>1. \A d \in Conns : (LoggingIn(d)' <=> LoggingIn(d)) /\ (Reading(d)' <=> Reading(d))
    BY <1>1 DEF LoggingIn, Reading
  <2>2. JobsInServer' \subseteq JobsInServer
    <3>1. CASE TakeJob(t)
      BY <3>1, TakeJobMoves DEF Typed
    <3>2. CASE UNCHANGED <<queue, hand>>
      BY <3>2 DEF JobsInServer
    <3>3. CASE hand[t] # NoJob /\ Done(t)
      BY <3>3, DoneMoves DEF Typed
    <3> QED BY <3>1, <3>2, <3>3 DEF JobStep, LogoutFind, LogoutClear, CarryOut, Doing
  <2>3. \A d \in Conns : LogoutPending(d)' => LogoutPending(d)
    BY <2>2 DEF LogoutPending, IsLogout
  <2> QED BY <2>1, <2>3, ServedByParts, ServedByPartsNext DEF ServedWays
<1>3. CASE ~LogoutClear(t)
  <2>1. loginFlag' = loginFlag
    BY <1>3 DEF JobStep, TakeJob, LogoutFind, CarryOut
  <2> QED BY <1>1, <1>2, <2>1, SessionsServedKept
<1>4. CASE LogoutClear(t)
  <2>1. hand[t] # NoJob /\ hand[t].conn \in Conns
    BY <1>4, JobPlaces DEF LogoutClear, Doing, Typed, Places
  <2>2. PICK c \in Conns : c = hand[t].conn
    BY <2>1
  <2>3. /\ found[t] = owner[c] /\ found[t] \in Users /\ ServedBy(c) /\ ~ServedBy(c)'
        /\ handler # "done" => \A d \in Conns : owner[d] = found[t] /\ ServedBy(d) => d = c
    BY <1>1, <1>4, <2>2, LogoutIsLast
  <2>4. \A u \in Users : loginFlag'[u] <=> loginFlag[u] /\ u # found[t]
    BY <1>4, <2>3 DEF LogoutClear, Typed, TypeOK
  <2>5. handler # "done" => ~(main = "setFd" /\ name = found[t])
    BY <2>3, UsersNamed DEF SessionsServed, Typed
  <2>6. \A d \in Conns : owner[d] # NoName => owner[d] \in Users
    BY DEF Typed, TypeOK, UsersOrNone
  <2>7. main = "setFd" => name \in Users
    BY DEF Typed, MainInHand, HoldsUsers
  <2>8. \A u, d : OnDescriptor(u, d)' <=> OnDescriptor(u, d)
    BY <1>1 DEF OnDescriptor
  <2>9. \A d \in Conns : owner[d] # NoName /\ ServedBy(d)' /\ handler # "done" =>
          owner[d] # found[t] /\ ServedBy(d)
    BY <1>2, <2>3
  <2> QED BY <1>1, <2>4, <2>5, <2>6, <2>7, <2>8, <2>9 DEF SessionsServed
<1> QED BY <1>3, <1>4

LEMMA StepServed ==
  FreedTypes \subseteq {"LOGOUT"} =>
    (Typed /\ Typed' /\ Descriptors /\ JobsHaveThreads /\ OneLogout /\ SessionsServed
       /\ [Next]_vars => SessionsServed')
<1> SUFFICES ASSUME FreedTypes \subseteq {"LOGOUT"}, Typed, Typed', Descriptors,
                    JobsHaveThreads, OneLogout, SessionsServed, [Next]_vars
             PROVE  SessionsServed'
  OBVIOUS
<1>1. CASE LogEveryoneOut
  <2>1. /\ \A u \in Users : ~loginFlag'[u]
        /\ UNCHANGED <<usersList, owner, main, name>> /\ handler' = "done"
    BY <1>1 DEF LogEveryoneOut, Typed, TypeOK, mainThread
  <2> QED BY <2>1 DEF SessionsServed
<1>2. CASE \/ Interrupt \/ UNCHANGED vars \/ \E c \in Conns : Client(c)
           \/ \E state \in {"killed", "exited"} : Stop(state)
  <2>1. UNCHANGED <<users, fds, mainThread, threads, jobs>> /\ (handler' # "done" => handler # "done")
    BY <1>2 DEF Interrupt, Stop, Client, vars
  <2>2. UNCHANGED <<usersList, fd, owner, loginFlag, fdOf, main, name, cur, ct, hdr,
                    queue, hand>>
    BY <2>1 DEF users, fds, mainThread, threads, jobs
  <2>3. \A c \in Conns : ServedBy(c)' => ServedBy(c)
    BY <2>2 DEF ServedBy
  <2> QED BY <2>1, <2>2, <2>3, SessionsServedKept
<1> QED BY <1>1, <1>2, NextSteps, MainServed, ProcessClientServed, JobStepServed
-------------------------------------------------------------------------------
(* SessionOf is NoConn, or the one connection of the user's descriptor. *)
HasSession(u) == handler # "done" /\ loginFlag[u] /\ ~(main = "setFd" /\ name = u)

SessionsKnown ==
  \A u \in Users :
    /\ ~HasSession(u) => SessionOf(u) = NoConn
    /\ HasSession(u) => SessionOf(u) \in Conns /\ OnDescriptor(u, SessionOf(u))
    /\ \A c \in Conns : HasSession(u) /\ OnDescriptor(u, c) => SessionOf(u) = c

LEMMA SessionsAreKnown == Typed /\ Descriptors /\ SessionsServed => SessionsKnown
<1> SUFFICES ASSUME Typed, Descriptors, SessionsServed, NEW u \in Users, HasSession(u)
             PROVE  /\ SessionOf(u) \in Conns /\ OnDescriptor(u, SessionOf(u))
                    /\ \A c \in Conns : OnDescriptor(u, c) => SessionOf(u) = c
  BY DEF SessionsKnown, SessionOf, HasSession
<1>1. SessionOf(u) = CHOOSE c \in Conns : owner[c] = u /\ fdOf[c] = fd[u]
  BY DEF SessionOf, HasSession
<1>2. u \in Range(usersList) /\ u # NoName
  BY UsersNamed DEF SessionsServed, HasSession, Typed
<1>3. \E c \in Conns : owner[c] = u /\ fdOf[c] = fd[u]
  BY <1>2 DEF Descriptors, OnDescriptor
<1>4. SessionOf(u) \in Conns /\ owner[SessionOf(u)] = u /\ fdOf[SessionOf(u)] = fd[u]
  BY <1>1, <1>3
<1>5. \A c \in Conns : OnDescriptor(u, c) => InService(c)
  BY <1>2 DEF OnDescriptor, Descriptors
<1> QED BY <1>4, <1>5 DEF Descriptors, OnDescriptor

LEMMA SessionKept ==
  ASSUME SessionsKnown, SessionsKnown', NEW u \in Users,
         HasSession(u)' <=> HasSession(u),
         \A c \in Conns : OnDescriptor(u, c) => OnDescriptor(u, c)'
  PROVE  SessionOf(u)' = SessionOf(u)
<1>1. CASE HasSession(u)
  <2>1. PICK c \in Conns : c = SessionOf(u) /\ OnDescriptor(u, c)
    BY <1>1 DEF SessionsKnown
  <2>2. OnDescriptor(u, c)' /\ HasSession(u)'
    BY <1>1, <2>1
  <2> QED BY <2>1, <2>2 DEF SessionsKnown
<1>2. CASE ~HasSession(u)
  BY <1>2 DEF SessionsKnown
<1> QED BY <1>1, <1>2

(* The registry does not see the steps that change no flag, no descriptor  *)
(* and no owner.                                                           *)
LEMMA SessionsUnchanged ==
  ASSUME Typed, SessionsKnown, SessionsKnown',
         UNCHANGED <<fd, owner, loginFlag>>,
         \A c \in Conns : owner[c] # NoName => fdOf'[c] = fdOf[c],
         (handler' = "done") <=> (handler = "done"),
         (main' = "setFd") <=> (main = "setFd"),
         main = "setFd" => name' = name
  PROVE  UNCHANGED Registry!vars
<1>1. ASSUME NEW u \in Users PROVE SessionOf(u)' = SessionOf(u)
  <2>1. HasSession(u)' <=> HasSession(u)
    BY DEF HasSession
  <2>2. \A c \in Conns : OnDescriptor(u, c) => OnDescriptor(u, c)'
    BY UsersNamed DEF OnDescriptor, Typed
  <2> QED BY <2>1, <2>2, SessionKept
<1> QED BY <1>1 DEF Registry!vars

(* A session begins when the descriptor of its user is set. *)
LEMMA SetFdLogsIn ==
  ASSUME Typed, Descriptors, SessionsServed, SessionsKnown, SessionsKnown',
         MainStep, LoginSetFd \/ LoginNew, handler # "done"
  PROVE  Registry!Next
<1> USE DEF At, users, fds, mainThread, locks, threads
<1>1. /\ main' # "setFd" /\ main \in {"login", "setFd"} /\ handler' = handler
      /\ name \in Users /\ cur \in Conns /\ name' = name
      /\ fd' = [fd EXCEPT ![name] = fdOf[cur]] /\ owner' = [owner EXCEPT ![cur] = name]
      /\ loginFlag'[name] /\ ~HasSession(name)
      /\ main = "setFd" => LoginSetFd
      /\ \A u \in Users : u # name => (loginFlag'[u] <=> loginFlag[u])
      /\ fdOf' = fdOf
  <2>1. CASE LoginSetFd
    BY <2>1 DEF MainStep, LoginSetFd, SessionsServed, HasSession, Typed, TypeOK, MainInHand,
                HoldsUsers
  <2>2. CASE LoginNew
    <3>1. name \notin Range(usersList) /\ name \in Users
      BY <2>2, ListedUsers DEF LoginNew, Known, Typed, TypeOK, MainInHand, HoldsUsers
    <3>2. ~loginFlag[name]
      BY <3>1 DEF SessionsServed
    <3> QED BY <2>2, <3>1, <3>2 DEF MainStep, LoginNew, HasSession, Typed, TypeOK, MainInHand,
                HoldsUsers
  <2> QED BY <2>1, <2>2
<1>2. /\ owner[cur] = NoName /\ owner'[cur] = name /\ fd'[name] = fdOf[cur]
      /\ \A c \in Conns : c # cur => owner'[c] = owner[c]
      /\ \A u \in Users : u # name => fd'[u] = fd[u] /\ u # NoName
  BY <1>1, UsersNamed DEF Descriptors, Typed, TypeOK
<1>3. PICK c \in Conns : c = cur
  BY <1>1
<1>4. PICK u \in Users : u = name
  BY <1>1
<1>5. SessionOf(u) = NoConn
  BY <1>1, <1>4 DEF SessionsKnown
<1>6. SessionOf(u)' = c
  <2>1. OnDescriptor(u, c)' /\ HasSession(u)'
    BY <1>1, <1>2, <1>3, <1>4 DEF OnDescriptor, HasSession
  <2> QED BY <2>1 DEF SessionsKnown
<1>7. ASSUME NEW v \in Users, v # u PROVE SessionOf(v)' = SessionOf(v)
  <2>1. HasSession(v)' <=> HasSession(v)
    BY <1>1, <1>4, <1>7 DEF HasSession
  <2>2. \A d \in Conns : OnDescriptor(v, d) => OnDescriptor(v, d)'
    BY <1>1, <1>2, <1>4, <1>7 DEF OnDescriptor
  <2> QED BY <2>1, <2>2, SessionKept
<1>8. [v \in Users |-> SessionOf(v)]' = [[v \in Users |-> SessionOf(v)] EXCEPT ![u] = c]
  BY <1>6, <1>7
<1>9. Registry!Login(u, c)
  BY <1>1, <1>2, <1>3, <1>4, <1>5, <1>8 DEF Registry!Login
<1> QED BY <1>9 DEF Registry!Next

(* It ends when the flag is cleared, by a LOGOUT of its own connection. *)
LEMMA ClearLogsOut ==
  ASSUME Typed, Typed', Descriptors, JobsHaveThreads, OneLogout, SessionsServed,
         SessionsKnown, SessionsKnown',
         NEW t \in JobThreads, JobStep(t), LogoutClear(t), handler # "done"
  PROVE  Registry!Next
<1> USE DEF users, fds, mainThread, threads
<1>1. UNCHANGED <<usersList, fd, owner, fdOf, main, name, cur, ct, hdr, handler>>
  BY DEF JobStep, LogoutClear
<1>2. hand[t] # NoJob /\ hand[t].conn \in Conns
  BY JobPlaces DEF LogoutClear, Doing, Typed, Places
<1>3. PICK c \in Conns : c = hand[t].conn
  BY <1>2
<1>4. found[t] = owner[c] /\ found[t] \in Users /\ ServedBy(c)
  BY <1>1, <1>3, LogoutIsLast
<1>5. PICK u \in Users : u = found[t]
  BY <1>4
<1>6. \A v \in Users : loginFlag'[v] <=> loginFlag[v] /\ v # u
  BY <1>5 DEF LogoutClear, Typed, TypeOK
<1>7. HasSession(u) /\ OnDescriptor(u, c)
  BY <1>4, <1>5, UsersNamed DEF SessionsServed, HasSession, Typed
<1>8. SessionOf(u) = c /\ SessionOf(u)' = NoConn
  <2>1. ~HasSession(u)'
    BY <1>6 DEF HasSession
  <2> QED BY <1>7, <2>1 DEF SessionsKnown
<1>9. ASSUME NEW v \in Users, v # u PROVE SessionOf(v)' = SessionOf(v)
  <2>1. HasSession(v)' <=> HasSession(v)
    BY <1>1, <1>6, <1>9 DEF HasSession
  <2>2. \A d \in Conns : OnDescriptor(v, d) => OnDescriptor(v, d)'
    BY <1>1 DEF OnDescriptor
  <2> QED BY <2>1, <2>2, SessionKept
<1>10. [v \in Users |-> SessionOf(v)]' = [[v \in Users |-> SessionOf(v)] EXCEPT ![u] = NoConn]
  BY <1>8, <1>9
<1>11. Registry!Logout(u, c)
  BY <1>1, <1>4, <1>5, <1>8, <1>10 DEF Registry!Logout
<1> QED BY <1>11 DEF Registry!Next

(* The other steps of the main thread; a user whose flag has been set and  *)
(* whose descriptor has not has no session yet.                            *)
LEMMA MainRegistry ==
  ASSUME Typed, Descriptors, SessionsKnown, SessionsKnown', MainStep,
         ~(LoginSetFd \/ LoginNew)
  PROVE  UNCHANGED Registry!vars
<1> USE DEF At, users, fds, mainThread, locks, threads
<1>1. UNCHANGED <<fd, owner, handler>>
  BY DEF MainStep, FirstHeader, LockBuffer, LoginBody, LockUsers, LoginRefused, LoginAgain,
         LoginFill, UnlockUsers, UnlockClose, Spawn, Accept
<1>2. CASE LoginAgain
  <2>1. /\ main' = "setFd" /\ name' = name /\ main = "login" /\ name \in Users
        /\ fdOf' = fdOf /\ ~loginFlag[name]
        /\ \A u \in Users : u # name => (loginFlag'[u] <=> loginFlag[u])
    BY <1>2 DEF LoginAgain, Typed, TypeOK, MainInHand, HoldsUsers
  <2>2. ASSUME NEW u \in Users PROVE SessionOf(u)' = SessionOf(u)
    <3>1. HasSession(u)' <=> HasSession(u)
      BY <1>1, <2>1 DEF HasSession
    <3>2. \A c \in Conns : OnDescriptor(u, c) => OnDescriptor(u, c)'
      BY <1>1, <2>1 DEF OnDescriptor
    <3> QED BY <3>1, <3>2, SessionKept
  <2> QED BY <1>1, <2>2 DEF Registry!vars
<1>3. CASE \/ FirstHeader \/ LockBuffer \/ LoginBody \/ LockUsers \/ LoginRefused
           \/ LoginFill \/ UnlockUsers \/ UnlockClose \/ Spawn \/ \E c \in Conns : Accept(c)
  <2>1. loginFlag' = loginFlag /\ main # "setFd" /\ main' # "setFd"
    BY <1>3 DEF FirstHeader, LockBuffer, LoginBody, LockUsers, LoginRefused, LoginFill,
                UnlockUsers, UnlockClose, Spawn, Accept
  <2>2. \A c \in Conns : owner[c] # NoName => fdOf'[c] = fdOf[c]
    <3>1. CASE \E c \in Conns : Accept(c)
      <4>1. PICK c \in Conns : Accept(c)
        BY <3>1
      <4>2. owner[c] = NoName /\ fdOf' = [fdOf EXCEPT ![c] = LowestFree]
        BY <4>1 DEF Accept, Pending, Descriptors
      <4> QED BY <4>2 DEF Typed, TypeOK
    <3> QED BY <1>3, <3>1 DEF FirstHeader, LockBuffer, LoginBody, LockUsers, LoginRefused,
                LoginFill, UnlockUsers, UnlockClose, Spawn
  <2> QED BY <1>1, <2>1, <2>2, SessionsUnchanged
<1> QED BY <1>2, <1>3 DEF MainStep

(* Every step is one of the registry's, or changes nothing there.  After   *)
(* the handler has run nobody has a session.                               *)
RegistryStep == [Registry!Next]_(Registry!vars)
LEMMA StepRegistry ==
  Typed /\ Typed' /\ Descriptors /\ JobsHaveThreads /\ OneLogout /\ SessionsServed
    /\ SessionsServed' /\ SessionsKnown /\ SessionsKnown' /\ [Next]_vars => RegistryStep
<1> SUFFICES ASSUME Typed, Typed', Descriptors, JobsHaveThreads, OneLogout, SessionsServed,
                    SessionsKnown, SessionsKnown', [Next]_vars
             PROVE  Registry!Next \/ UNCHANGED Registry!vars
  BY DEF RegistryStep
<1>1. CASE handler = "done"
  <2>1. handler' = "done"
    BY <1>1, NextSteps DEF MainStep, Interrupt, LogEveryoneOut, Stop, Client, ProcessClient,
       JobStep, vars
  <2>2. \A u \in Users : SessionOf(u) = NoConn /\ SessionOf(u)' = NoConn
    BY <1>1, <2>1 DEF SessionsKnown, HasSession
  <2>3. Registry!Leftover
    BY <1>1, <2>1, <2>2 DEF Registry!Leftover
  <2> QED BY <2>3 DEF Registry!Next
<1>2. CASE handler # "done" /\ MainStep
  BY <1>2, SetFdLogsIn, MainRegistry
<1>3. CASE handler # "done" /\ LogEveryoneOut
  <2>1. handler' = "done" /\ owner' = owner
    BY <1>3 DEF LogEveryoneOut
  <2>2. \A u \in Users : SessionOf(u)' = NoConn
    BY <2>1 DEF SessionsKnown, HasSession
  <2>3. Registry!ShutDown
    BY <1>3, <2>1, <2>2 DEF Registry!ShutDown
  <2> QED BY <2>3 DEF Registry!Next
<1>4. ASSUME handler # "done", NEW t \in JobThreads, JobStep(t), LogoutClear(t)
      PROVE  Registry!Next
  BY <1>4, ClearLogsOut
<1>5. CASE \/ Interrupt \/ UNCHANGED vars
           \/ \E c \in Conns : Client(c) \/ ProcessClient(c)
           \/ \E state \in {"killed", "exited"} : Stop(state)
           \/ \E t \in JobThreads : JobStep(t) /\ ~LogoutClear(t)
  <2>1. UNCHANGED <<fd, owner, loginFlag, fdOf, main, name>>
    BY <1>5 DEF Interrupt, Client, ProcessClient, Stop, JobStep, TakeJob, LogoutFind,
       CarryOut, vars, users, fds, mainThread
  <2>2. (handler' = "done") <=> (handler = "done")
    BY <1>5 DEF Interrupt, Client, ProcessClient, Stop, JobStep, vars
  <2> QED BY <2>1, <2>2, SessionsUnchanged
<1> QED BY <1>1, <1>2, <1>3, <1>4, <1>5, NextSteps

LEMMA InitRegistry == Init => Registry!Init
  BY DEF Init, Registry!Init, SessionOf

(* The code keeps the promise of SessionRegistry - one session per name,   *)
(* begun by a login on a connection without one, and ended by a LOGOUT of  *)
(* that connection or by the shutdown - as long as a job that has been     *)
(* freed is never taken for one of another type than LOGOUT.               *)
THEOREM RegistryImplemented ==
  ASSUME FreedTypes \subseteq {"LOGOUT"}
  PROVE  Spec => ImplementsRegistry
<1> DEFINE IInv == Typed /\ Descriptors /\ Attribution /\ JobsHaveThreads /\ OneLogout
                     /\ SessionsServed
<1>1. Init => IInv
  BY InitTyped, InitDescriptors, AttributionFollows, InitJobs, InitServed
<1>2. IInv /\ [Next]_vars => IInv'
  <2>1. (Typed /\ Descriptors => Attribution)'
    BY AttributionFollows, PTL
  <2> QED BY <2>1, StepTyped, StepDescriptors, StepJobs, StepOneLogout, StepServed
<1>3. IInv /\ IInv' /\ [Next]_vars => RegistryStep
  <2>1. (Typed /\ Descriptors /\ SessionsServed => SessionsKnown)'
    BY SessionsAreKnown, PTL
  <2> QED BY <2>1, SessionsAreKnown, StepRegistry
<1>4. Spec => Registry!Init /\ [][Registry!Next]_(Registry!vars)
  BY <1>1, <1>2, <1>3, InitRegistry, PTL DEF Spec, RegistryStep
<1> QED BY <1>4 DEF ImplementsRegistry, Registry!Spec
===============================================================================
