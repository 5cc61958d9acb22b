-------------------------------- MODULE Sessions --------------------------------
(***************************************************************************)
(* Connections, logins and logouts: the main thread, which accepts one     *)
(* connection at a time, waits for its first message and logs it in        *)
(* (run_server, login); one thread per accepted client, which turns its    *)
(* messages into jobs (process_client); the job threads, seen from the     *)
(* list of users (run_jobs, processJob, logout, findUsername); and the     *)
(* handler of SIGINT, which runs on the main thread.                       *)
(*                                                                         *)
(* The environment is a set of clients that connect, send headers and      *)
(* bodies, fall silent or go away at any time.  The auctions are those of  *)
(* AuctionServer, the job buffer is the queue of JobQueue.                 *)
(*                                                                         *)
(* Bounds: a client connects once and sends MaxMessages messages; a client *)
(* thread makes MaxJobs jobs; there are MaxSignals (0 or 1) signals.       *)
(***************************************************************************)
EXTENDS Integers, SequencesExt

CONSTANTS
  Names, Conns, JobThreads,
  NullName,     \* the user name of a login message without a body
  NoName, NoConn, NoJob,
  Main,         \* the main thread, as an owner of buffer_lock
  Kinds,        \* the types of message the clients send besides LOGIN
  StackTypes,   \* what the header of a new client thread may hold
  FreedTypes,   \* what jobMsgType may hold in a job that has been freed
  MaxFds,       \* file descriptors the process may open for clients
  Capacity,     \* jobs that may wait
  Leavers,      \* the clients that may go away
  MaxMessages, MaxJobs, MaxSignals

AboutUsers == {"USRLIST", "USRWINS", "USRSALES", "USRBLNC"} \* under usersMutex
TwoFields == {"ANCREATE", "ANBID"}                          \* parsed by strtok
MessageKinds == {"LOGOUT", "ANLIST", "ANWATCH", "ANLEAVE"} \cup TwoFields \cup AboutUsers
HasBody == {"LOGIN", "ANWATCH", "ANLEAVE"} \cup TwoFields
NeedsUser == {"ANLEAVE", "ANBID", "USRWINS", "USRSALES", "USRBLNC"}

ASSUME SessionsAssumption ==
  /\ IsFiniteSet(Names) /\ NullName \notin Names /\ NoName \notin Names \cup {NullName}
  /\ NoConn \notin Conns
  /\ Main \notin Conns /\ NoConn # Main /\ Leavers \subseteq Conns
  /\ Kinds \subseteq MessageKinds
  /\ StackTypes \subseteq MessageKinds \cup {"none"} /\ StackTypes # {}
  /\ FreedTypes \subseteq MessageKinds \cup {"none"}
  /\ MaxFds \in Nat /\ Capacity \in Nat \ {0}
  /\ MaxMessages \in Nat /\ MaxJobs \in Nat /\ MaxSignals \in {0, 1}

Users == Names \cup {NullName}
Fds == 1..MaxFds
NoFd == 0
Jobs == [conn: Conns, type: MessageKinds \cup {"LOGIN"}, body: BOOLEAN, n: 1..MaxJobs]
ASSUME NoJobAssumption == NoJob \notin Jobs

VARIABLES
  \* the clients and what is on the way from them
  phase,       \* "new", "open" or "closed", as the client sees it
  in,          \* the headers and bodies sent and not yet read
  owes,        \* a header has been sent and its body has not
  sent,        \* messages sent
  \* the list of users: its order, and the fields of users_t
  usersList, loginFlag, fd,
  owner,       \* history: who has logged in on a connection
  \* the file descriptors
  fdOf,        \* the descriptor accept returned for a connection
  openFds,
  \* the main thread
  main,        \* where it is
  cur,         \* the connection it is dealing with
  name,        \* the user name of the login message
  handler,     \* "none", "P_users" or "done": sigint_handler, on top of it
  bufferLock, usersMutex,
  \* the client threads
  ct,          \* where each is, "none" before it exists
  hdr,         \* the header on its stack
  body,        \* the job in hand got a body
  made,        \* jobs it has inserted
  \* the job threads
  queue,       \* the waiting jobs
  hand,        \* the job each works on
  found,       \* the user whose fd logout has found equal
  process      \* "up", "killed" or "exited"

clients == <<phase, in, owes, sent>>
users == <<usersList, loginFlag, fd, owner>>
fds == <<fdOf, openFds>>
mainThread == <<main, cur, name>>
locks == <<bufferLock, usersMutex>>
threads == <<ct, hdr, body, made>>
jobs == <<queue, hand, found>>
vars == <<clients, users, fds, mainThread, handler, locks, threads, jobs, process>>

IntFlag == handler # "none"
Up == process = "up"
-------------------------------------------------------------------------------
Init ==
  /\ phase = [c \in Conns |-> "new"] /\ in = [c \in Conns |-> <<>>]
  /\ owes = [c \in Conns |-> FALSE] /\ sent = [c \in Conns |-> 0]
  /\ usersList = <<>>
  /\ loginFlag = [u \in Users |-> FALSE] /\ fd = [u \in Users |-> NoFd]
  /\ owner = [c \in Conns |-> NoName]
  /\ fdOf = [c \in Conns |-> NoFd] /\ openFds = {}
  /\ main = "accept" /\ cur = NoConn /\ name = NoName /\ handler = "none"
  /\ bufferLock = NoConn /\ usersMutex = 1
  /\ ct = [c \in Conns |-> "none"] /\ hdr = [c \in Conns |-> "none"]
  /\ body = [c \in Conns |-> FALSE] /\ made = [c \in Conns |-> 0]
  /\ queue = <<>> /\ hand = [t \in JobThreads |-> NoJob]
  /\ found = [t \in JobThreads |-> NoName]
  /\ process = "up"

(* findUsername: the first user in the list with this descriptor, if any. *)
FindUser(f) ==
  LET i == SelectInSeq(usersList, LAMBDA u : fd[u] = f)
  IN  IF i = 0 THEN NoName ELSE usersList[i]

EOF(c) == phase[c] = "closed" /\ in[c] = <<>>
Closed(c) == fdOf[c] \notin openFds
Readable(c) == in[c] # <<>> \/ EOF(c)
Receive(c) == in' = [in EXCEPT ![c] = IF @ = <<>> THEN @ ELSE Tail(@)]

Stop(state) ==
  /\ process' = state
  /\ UNCHANGED <<clients, users, fds, mainThread, handler, locks, threads, jobs>>
-------------------------------------------------------------------------------
(* The clients.  The first message of a client is LOGIN or has no body. *)
Connect(c) ==
  /\ phase[c] = "new" /\ handler # "done"
  /\ phase' = [phase EXCEPT ![c] = "open"]
  /\ UNCHANGED <<in, owes, sent>>

SendHeader(c, k) ==
  /\ phase[c] = "open" /\ ~owes[c] /\ sent[c] < MaxMessages
  /\ sent[c] = 0 => k = "LOGIN" \/ k \notin HasBody
  /\ in' = [in EXCEPT ![c] = Append(@, k)]
  /\ owes' = [owes EXCEPT ![c] = k \in HasBody]
  /\ sent' = [sent EXCEPT ![c] = @ + 1]
  /\ UNCHANGED phase

SendBody(c) ==
  /\ phase[c] = "open" /\ owes[c]
  /\ in' = [in EXCEPT ![c] = Append(@, "body")]
  /\ owes' = [owes EXCEPT ![c] = FALSE]
  /\ UNCHANGED <<phase, sent>>

GoAway(c) ==
  /\ phase[c] = "open" /\ c \in Leavers
  /\ phase' = [phase EXCEPT ![c] = "closed"]
  /\ UNCHANGED <<in, owes, sent>>

Client(c) ==
  /\ Connect(c) \/ SendBody(c) \/ GoAway(c) \/ \E k \in Kinds \cup {"LOGIN"} : SendHeader(c, k)
  /\ UNCHANGED <<users, fds, mainThread, handler, locks, threads, jobs, process>>
-------------------------------------------------------------------------------
(* run_server.  The main thread runs when the handler does not. *)
Pending(c) == phase[c] # "new" /\ fdOf[c] = NoFd
LowestFree == CHOOSE f \in Fds \ openFds : \A g \in Fds \ openFds : f <= g

At(from, to) == handler # "P_users" /\ main = from /\ main' = to

Accept(c) ==
  /\ At("accept", "header") /\ ~IntFlag
  /\ Pending(c) /\ openFds # Fds
  /\ fdOf' = [fdOf EXCEPT ![c] = LowestFree]
  /\ openFds' = openFds \cup {LowestFree}
  /\ cur' = c
  /\ UNCHANGED <<clients, users, name, locks, threads>>

(* Mutant: the handler leaves the listening socket open. *)
AcceptFailsIfFull ==
  /\ main = "accept"
  /\ handler = "none" /\ openFds = Fds
  /\ Stop("exited")

(* accept fails, whether or not anybody wants to connect: no descriptor is *)
(* left, or the handler has closed the listening socket.                   *)
AcceptFails ==
  /\ main = "accept"
  /\ handler = "done" \/ (handler = "none" /\ openFds = Fds)
  /\ Stop("exited")

FirstHeader ==
  /\ main = "header" /\ in[cur] # <<>>
  /\ At("header", IF Head(in[cur]) = "LOGIN" THEN "lockBuffer" ELSE "spawn")
  /\ Receive(cur)
  /\ UNCHANGED <<phase, owes, sent, users, fds, cur, name, locks, threads>>

(* The client has gone without a word: the accept loop ends. *)
FirstHeaderFails ==
  /\ main = "header" /\ handler # "P_users" /\ EOF(cur)
  /\ Stop("exited")

LockBuffer ==
  /\ At("lockBuffer", "loginBody")
  /\ bufferLock = NoConn
  /\ bufferLock' = Main
  /\ UNCHANGED <<clients, users, fds, cur, name, usersMutex, threads>>

(* With no body, user name and password are NULL. *)
LoginBody ==
  /\ At("loginBody", "lockUsers")
  /\ Readable(cur)
  /\ \E u \in IF EOF(cur) THEN {NullName} ELSE Names : name' = u
  /\ Receive(cur)
  /\ bufferLock' = NoConn
  /\ UNCHANGED <<phase, owes, sent, users, fds, cur, usersMutex, threads>>

LockUsers ==
  /\ At("lockUsers", "login")
  /\ usersMutex > 0
  /\ usersMutex' = usersMutex - 1
  /\ UNCHANGED <<clients, users, fds, cur, name, bufferLock, threads>>
-------------------------------------------------------------------------------
(* login.  A password fits an account or it does not.  A NULL name, in the *)
(* message or in the list, is compared with every other name: a crash.     *)
Known == Contains(usersList, name)
ComparesNull == usersList # <<>> /\ NullName \in {name, Head(usersList)}

LoginCrash == main = "login" /\ handler # "P_users" /\ ComparesNull /\ Stop("killed")

(* Mutant: login posts usersMutex before it returns, and so does its caller. *)
LoginRefusedPosts ==
  /\ ~ComparesNull /\ Known
  /\ At("login", IF loginFlag[name] THEN "unlockUsers" ELSE "unlockClose")
  /\ usersMutex' = usersMutex + 1
  /\ UNCHANGED <<clients, users, fds, cur, name, bufferLock, threads>>

(* EUSRLGDIN, and EWRNGPWD, which closes the connection. *)
LoginRefused ==
  /\ ~ComparesNull /\ Known
  /\ At("login", IF loginFlag[name] THEN "unlockUsers" ELSE "unlockClose")
  /\ UNCHANGED <<clients, users, fds, cur, name, locks, threads>>

(* Mutant: the flag of a user who is logged in is not looked at. *)
LoginAgainTwice ==
  /\ ~ComparesNull /\ Known
  /\ At("login", "setFd")
  /\ loginFlag' = [loginFlag EXCEPT ![name] = TRUE]
  /\ UNCHANGED <<clients, usersList, fd, owner, fds, cur, name, locks, threads>>

LoginAgain ==
  /\ ~ComparesNull /\ Known /\ ~loginFlag[name]
  /\ At("login", "setFd")
  /\ loginFlag' = [loginFlag EXCEPT ![name] = TRUE]
  /\ UNCHANGED <<clients, usersList, fd, owner, fds, cur, name, locks, threads>>

LoginSetFd ==
  /\ At("setFd", "unlockUsers")
  /\ fd' = [fd EXCEPT ![name] = fdOf[cur]]
  /\ owner' = [owner EXCEPT ![cur] = name]
  /\ UNCHANGED <<clients, usersList, loginFlag, fds, cur, name, locks, threads>>

(* InsertAtTail links the node of a new user into a non-empty list first   *)
(* and sets its data then.                                                 *)
LoginNew ==
  /\ ~ComparesNull /\ ~Known
  /\ At("login", IF usersList = <<>> THEN "unlockUsers" ELSE "fill")
  /\ usersList' = Append(usersList, name)
  /\ loginFlag' = [loginFlag EXCEPT ![name] = TRUE]
  /\ fd' = [fd EXCEPT ![name] = fdOf[cur]]
  /\ owner' = [owner EXCEPT ![cur] = name]
  /\ UNCHANGED <<clients, fds, cur, name, locks, threads>>

LoginFill ==
  /\ At("fill", "unlockUsers")
  /\ UNCHANGED <<clients, users, fds, cur, name, locks, threads>>

UnlockUsers ==
  /\ At("unlockUsers", "spawn")
  /\ usersMutex' = usersMutex + 1
  /\ name' = NoName
  /\ UNCHANGED <<clients, users, fds, cur, bufferLock, threads>>

UnlockClose ==
  /\ At("unlockClose", "accept")
  /\ usersMutex' = usersMutex + 1
  /\ openFds' = openFds \ {fdOf[cur]}
  /\ cur' = NoConn /\ name' = NoName
  /\ UNCHANGED <<clients, users, fdOf, bufferLock, threads>>

(* pthread_create(process_client), also after EUSRLGDIN and after a first  *)
(* message that is not LOGIN.                                              *)
Spawn ==
  /\ At("spawn", "accept")
  /\ ct' = [ct EXCEPT ![cur] = "header"]
  /\ \E k \in StackTypes : hdr' = [hdr EXCEPT ![cur] = k]
  /\ cur' = NoConn
  /\ UNCHANGED <<clients, users, fds, name, locks, body, made>>
-------------------------------------------------------------------------------
(* sigint_handler, on the main thread wherever it is. *)
Interrupt ==
  /\ MaxSignals = 1 /\ handler = "none"
  /\ handler' = "P_users"
  /\ UNCHANGED <<clients, users, fds, mainThread, locks, threads, jobs, process>>

LogEveryoneOut ==
  /\ handler = "P_users" /\ usersMutex > 0
  /\ handler' = "done"
  /\ loginFlag' = [u \in DOMAIN loginFlag |-> FALSE]
  /\ openFds' = openFds \ {fd[u] : u \in Range(usersList)}
  /\ UNCHANGED <<clients, usersList, fd, owner, fdOf, mainThread, locks, threads,
                 jobs, process>>
-------------------------------------------------------------------------------
(* process_client.  The end of a connection leaves the header as it was,   *)
(* and nobody looks at the result; so does a connection the handler has    *)
(* closed, but a thread that waits in recv by then goes on waiting, and    *)
(* may still get what it waits for.                                        *)
BodyNext(c) == in[c] # <<>> /\ Head(in[c]) = "body"

Goes(c, from, to) == ct[c] = from /\ ct' = [ct EXCEPT ![c] = to]

ReadHeader(c) ==
  /\ Goes(c, "header", "lock")
  /\ made[c] < MaxJobs
  /\ \/ in[c] # <<>> /\ ~BodyNext(c)
        /\ hdr' = [hdr EXCEPT ![c] = Head(in[c])] /\ Receive(c)
     \/ (Closed(c) \/ EOF(c)) /\ hdr[c] # "none" /\ UNCHANGED <<hdr, in>>
  /\ UNCHANGED <<phase, owes, sent, locks, body, made, jobs>>

LockJobBuffer(c) ==
  /\ Goes(c, "lock", "body")
  /\ bufferLock = NoConn
  /\ bufferLock' = c
  /\ UNCHANGED <<clients, usersMutex, hdr, body, made, jobs>>

(* Mutant: the lock is given back only if something has been read. *)
ReadBodyKeepsLock(c) ==
  /\ Goes(c, "body", "insert")
  /\ IF hdr[c] \in HasBody
       THEN /\ BodyNext(c) \/ EOF(c)
            /\ Receive(c) /\ bufferLock' = NoConn
            /\ body' = [body EXCEPT ![c] = ~EOF(c)]
       ELSE ~Closed(c) /\ UNCHANGED <<in, body, bufferLock>>
  /\ UNCHANGED <<phase, owes, sent, usersMutex, hdr, made, jobs>>

(* read waits for a body if the header announced one, under the lock. *)
ReadBody(c) ==
  /\ Goes(c, "body", "insert")
  /\ IF hdr[c] \in HasBody
       THEN (BodyNext(c) \/ EOF(c)) /\ Receive(c) /\ body' = [body EXCEPT ![c] = ~EOF(c)]
       ELSE ~Closed(c) /\ UNCHANGED <<in, body>>
  /\ bufferLock' = NoConn
  /\ UNCHANGED <<phase, owes, sent, usersMutex, hdr, made, jobs>>

ReadBodyFails(c) ==
  /\ Goes(c, "body", "header")
  /\ Closed(c)
  /\ bufferLock' = NoConn
  /\ UNCHANGED <<clients, usersMutex, hdr, body, made, jobs>>

(* Mutant: the thread of a LOGOUT ends before it inserts the job. *)
InsertJobAfterTest(c) ==
  /\ Goes(c, "insert", IF hdr[c] = "LOGOUT" THEN "returned" ELSE "inserted")
  /\ Len(queue) < Capacity
  /\ made' = [made EXCEPT ![c] = @ + 1]
  /\ queue' = IF hdr[c] = "LOGOUT" THEN queue
              ELSE Append(queue, [conn |-> c, type |-> hdr[c], body |-> body[c],
                                  n |-> made[c] + 1])
  /\ body' = [body EXCEPT ![c] = FALSE]
  /\ UNCHANGED <<clients, locks, hdr, hand, found>>

InsertJob(c) ==
  /\ Goes(c, "insert", "inserted")
  /\ Len(queue) < Capacity
  /\ made' = [made EXCEPT ![c] = @ + 1]
  /\ queue' = Append(queue, [conn |-> c, type |-> hdr[c], body |-> body[c],
                             n |-> made[c] + 1])
  /\ body' = [body EXCEPT ![c] = FALSE]
  /\ UNCHANGED <<clients, locks, hdr, hand, found>>

Freed(c) ==
  ~\E j \in Range(queue) \cup Range(hand) : j # NoJob /\ j.conn = c /\ j.n = made[c]

(* newJob->jobMsgType == LOGOUT ends the thread; the job may be freed. *)
AfterInsert(c) ==
  /\ \E k \in {hdr[c]} \cup IF Freed(c) THEN FreedTypes ELSE {} :
       Goes(c, "inserted", IF k = "LOGOUT" THEN "returned" ELSE "header")
  /\ UNCHANGED <<clients, locks, hdr, body, made, jobs>>
-------------------------------------------------------------------------------
(* run_jobs and processJob. *)
TakeJob(t) ==
  /\ hand[t] = NoJob /\ queue # <<>>
  /\ hand' = [hand EXCEPT ![t] = Head(queue)]
  /\ queue' = Tail(queue)
  /\ UNCHANGED <<users, fds, found>>

Doing(t, kinds) == hand[t] # NoJob /\ hand[t].type \in kinds
FdInHand(t) == fdOf[hand[t].conn]
Done(t) == /\ hand' = [hand EXCEPT ![t] = NoJob]
           /\ UNCHANGED queue

(* logout: the comparison, then the flag. *)
LogoutFind(t) ==
  /\ Doing(t, {"LOGOUT"}) /\ found[t] = NoName
  /\ found' = [found EXCEPT ![t] = FindUser(FdInHand(t))]
  /\ IF found'[t] = NoName THEN Done(t) ELSE UNCHANGED <<queue, hand>>
  /\ UNCHANGED <<users, fds>>

(* Mutant: the connection is closed as well. *)
LogoutClearClose(t) ==
  /\ Doing(t, {"LOGOUT"}) /\ found[t] # NoName
  /\ loginFlag' = [loginFlag EXCEPT ![found[t]] = FALSE]
  /\ openFds' = openFds \ {FdInHand(t)}
  /\ found' = [found EXCEPT ![t] = NoName]
  /\ Done(t)
  /\ UNCHANGED <<usersList, fd, owner, fdOf>>

LogoutClear(t) ==
  /\ Doing(t, {"LOGOUT"}) /\ found[t] # NoName
  /\ loginFlag' = [loginFlag EXCEPT ![found[t]] = FALSE]
  /\ found' = [found EXCEPT ![t] = NoName]
  /\ Done(t)
  /\ UNCHANGED <<usersList, fd, owner, fds>>

(* printUsers joins the names of all users but the one who asks. *)
PrintsNull(t) ==
  /\ Doing(t, {"USRLIST"})
  /\ Contains(usersList, NullName) /\ fd[NullName] # FdInHand(t)

(* The other requests look up their user and change nothing here. *)
CarryOut(t) ==
  /\ Doing(t, {"LOGIN"} \cup (MessageKinds \ {"LOGOUT"}))
  /\ Doing(t, AboutUsers) => usersMutex > 0
  /\ Doing(t, NeedsUser) => FindUser(FdInHand(t)) # NoName
  /\ Doing(t, TwoFields) => hand[t].body
  /\ ~PrintsNull(t)
  /\ Done(t)
  /\ UNCHANGED <<users, fds, found>>

(* A field, a user or a user name that is NULL, the node that login has    *)
(* linked and not yet filled in, or SIGPIPE.  (Whether ANWATCH, ANLEAVE    *)
(* and ANBID come to use the user depends on the auctions.)                *)
CarryOutDies(t) ==
  LET user == FindUser(FdInHand(t))
      unlocked == {"LOGOUT", "ANWATCH", "ANLEAVE", "ANBID"}
  IN
  /\ hand[t] # NoJob
  /\ Doing(t, AboutUsers) => usersMutex > 0
  /\ \/ Doing(t, TwoFields) /\ ~hand[t].body
     \/ Doing(t, NeedsUser \cup {"ANWATCH"}) /\ user = NoName
     \/ Doing(t, {"ANLEAVE", "ANBID"}) /\ user = NullName
     \/ PrintsNull(t)
     \/ main = "fill" /\ (Doing(t, {"ANCREATE"}) \/ (Doing(t, unlocked) /\ user = NoName))
     \/ ~Doing(t, {"LOGIN"}) /\ phase[hand[t].conn] = "closed" /\ ~Closed(hand[t].conn)
  /\ Stop("killed")
-------------------------------------------------------------------------------
MainStep ==
  /\ \/ FirstHeader \/ LockBuffer \/ LoginBody \/ LockUsers \/ LoginRefused
     \/ LoginAgain \/ LoginSetFd \/ LoginNew \/ LoginFill \/ UnlockUsers
     \/ UnlockClose \/ Spawn \/ \E c \in Conns : Accept(c)
  /\ UNCHANGED <<handler, jobs, process>>
RunServer ==
  MainStep \/ AcceptFails \/ FirstHeaderFails \/ LoginCrash \/ LogEveryoneOut

ProcessClient(c) ==
  /\ \/ ReadHeader(c) \/ LockJobBuffer(c) \/ ReadBody(c) \/ ReadBodyFails(c)
     \/ InsertJob(c) \/ AfterInsert(c)
  /\ UNCHANGED <<users, fds, mainThread, handler, process>>

JobStep(t) ==
  /\ TakeJob(t) \/ LogoutFind(t) \/ LogoutClear(t) \/ CarryOut(t)
  /\ UNCHANGED <<clients, mainThread, handler, locks, threads, process>>
RunJobs(t) == JobStep(t) \/ CarryOutDies(t)

(* The process is gone, or nobody has anything to do: the main thread has  *)
(* no connection to accept, waits for a client that says nothing, or, in   *)
(* the handler, for the semaphore it holds itself.                         *)
HoldsUsers == {"login", "setFd", "fill", "unlockUsers", "unlockClose"}
WaitsForItself == handler = "P_users" /\ main \in HoldsUsers
WaitsForClient == main = "header" /\ in[cur] = <<>>

Quiescent ==
  /\ \/ ~Up \/ WaitsForItself
     \/ /\ main = "accept" \/ WaitsForClient
        /\ queue = <<>> /\ \A t \in JobThreads : hand[t] = NoJob
        /\ \A c \in Conns : ct[c] \in {"none", "header", "returned"}
  /\ UNCHANGED vars

Next ==
  \/ Up /\ (RunServer \/ Interrupt)
  \/ Up /\ \E c \in Conns : Client(c) \/ ProcessClient(c)
  \/ Up /\ \E t \in JobThreads : RunJobs(t)
  \/ Quiescent

Spec == Init /\ [][Next]_vars

(* Threads that can run do run, and no client lets the server wait for the *)
(* rest of a message or for a first one: it sends it or goes away.  The    *)
(* mutex is not denied for ever to a main thread that waits while others   *)
(* lock and unlock it: the thread of a connection that is closed does      *)
(* nothing else any more.                                                  *)
Prompt(c) ==
  /\ Up
  /\ \/ SendBody(c)
     \/ sent[c] = 0 /\ SendHeader(c, "LOGIN")
     \/ (owes[c] \/ sent[c] = 0) /\ GoAway(c)
  /\ UNCHANGED <<users, fds, mainThread, handler, locks, threads, jobs, process>>

FairSpec ==
  /\ Spec
  /\ WF_vars(Up /\ RunServer) /\ SF_vars(Up /\ main = "lockBuffer" /\ RunServer)
  /\ \A c \in Conns : WF_vars(Up /\ ProcessClient(c)) /\ WF_vars(Prompt(c))
  /\ \A t \in JobThreads : WF_vars(Up /\ RunJobs(t))
-------------------------------------------------------------------------------
MainLabels == {"accept", "header", "lockBuffer", "loginBody", "lockUsers", "spawn"}
                \cup HoldsUsers
ThreadLabels == {"none", "header", "lock", "body", "insert", "inserted", "returned"}
Headers == MessageKinds \cup {"LOGIN", "none"}
UsersOrNone == Users \cup {NoName}

(* Every variable has its type. *)
TypeOK ==
  /\ phase \in [Conns -> {"new", "open", "closed"}]
  /\ in \in [Conns -> Seq(MessageKinds \cup {"LOGIN", "body"})]
  /\ owes \in [Conns -> BOOLEAN] /\ sent \in [Conns -> 0..MaxMessages]
  /\ usersList \in Seq(Users)
  /\ loginFlag \in [Users -> BOOLEAN] /\ fd \in [Users -> Fds \cup {NoFd}]
  /\ owner \in [Conns -> UsersOrNone]
  /\ fdOf \in [Conns -> Fds \cup {NoFd}] /\ openFds \subseteq Fds
  /\ main \in MainLabels /\ cur \in Conns \cup {NoConn} /\ name \in UsersOrNone
  /\ handler \in {"none", "P_users", "done"}
  /\ bufferLock \in Conns \cup {Main, NoConn} /\ usersMutex \in {0, 1}
  /\ ct \in [Conns -> ThreadLabels] /\ hdr \in [Conns -> Headers]
  /\ body \in [Conns -> BOOLEAN] /\ made \in [Conns -> 0..MaxJobs]
  /\ queue \in Seq(Jobs) /\ hand \in [JobThreads -> Jobs \cup {NoJob}]
  /\ found \in [JobThreads -> UsersOrNone]
  /\ process \in {"up", "killed", "exited"}

(* A request is carried out for the user who has logged in on the          *)
(* connection it came from, or for nobody: findUsername goes by the        *)
(* descriptor, and no descriptor of a user is ever given to another        *)
(* connection, whoever logs in, out, in again or is refused.               *)
Attribution ==
  \A c \in Conns : ct[c] # "none" => FindUser(fdOf[c]) \in {NoName, owner[c]}

(* Whoever is logged in can log out: the thread of the connection still    *)
(* reads messages, or the LOGOUT it has read is still to be carried out.   *)
ServedBy(c) ==
  \/ ct[c] \in {"header", "lock", "body", "insert"}
  \/ ct[c] = "inserted" /\ hdr[c] # "LOGOUT"
  \/ \E j \in Range(queue) \cup Range(hand) : j # NoJob /\ j.conn = c /\ j.type = "LOGOUT"
  \/ main \in {"unlockUsers", "fill", "setFd", "spawn"} /\ cur = c
NobodyLockedIn ==
  \A u \in Users :
    Contains(usersList, u) /\ loginFlag[u] =>
      \/ main = "setFd" /\ name = u
      \/ \E c \in Conns : owner[c] = u /\ fdOf[c] = fd[u] /\ ServedBy(c)

(* Sessions, as the registry sees them: a name has one from the moment its *)
(* descriptor is set until its flag is cleared.                            *)
SessionOf(u) ==
  IF handler # "done" /\ loginFlag[u] /\ ~(main = "setFd" /\ name = u)
    THEN CHOOSE c \in Conns : owner[c] = u /\ fdOf[c] = fd[u]
    ELSE NoConn

Registry == INSTANCE SessionRegistry WITH
              Names <- Users,
              session <- [u \in Users |-> SessionOf(u)], owner <- owner,
              open <- handler # "done"

(* One session per name, ended by its own connection only: login's two     *)
(* writes, logout's comparison and write, and requests of refused or       *)
(* forgotten connections in any order keep the promise of SessionRegistry. *)
(* (As long as no job thread frees a job before process_client has read    *)
(* its type.)                                                              *)
ImplementsRegistry == Registry!Spec

(* A client that connects gets a thread or is refused, whatever others do: *)
(* the accept loop never waits for good for a lock or in a login.          *)
Refused(c) == fdOf[c] # NoFd /\ Closed(c)
Served ==
  \A c \in Conns : phase[c] = "open" ~> ct[c] # "none" \/ Refused(c) \/ IntFlag \/ ~Up

(* A LOGOUT that has been sent ends the session, whatever is queued or     *)
(* read before it, and whoever else holds buffer_lock.                     *)
LoggedIn(u, c) == Contains(usersList, u) /\ loginFlag[u] /\ fd[u] = fdOf[c]
LogoutWorks ==
  \A u \in Names, c \in Conns :
    LoggedIn(u, c) /\ Contains(in[c], "LOGOUT") ~> ~LoggedIn(u, c) \/ IntFlag \/ ~Up

(* After SIGINT the server ends, whatever clients are in the middle of,    *)
(* with one exception: a signal that comes while the main thread holds     *)
(* usersMutex leaves its handler waiting for that semaphore for good.      *)
ShutdownEnds == IntFlag ~> ~Up \/ WaitsForItself
-------------------------------------------------------------------------------
(* What the comments of the code say, and the code does not keep.          *)

(* "user exists, not logged in, and right password => return OK" (login):  *)
(* between that OK and the start of the connection's thread the user is    *)
(* logged in, so that another login is refused.                            *)
OKMeansLoggedIn ==
  main = "spawn" /\ owner[cur] # NoName /\ ~IntFlag => loginFlag[owner[cur]]
===============================================================================
