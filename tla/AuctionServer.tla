----------------------------- MODULE AuctionServer -----------------------------
(***************************************************************************)
(* The auctions of the server and the threads that work on them: the job   *)
(* threads, each carrying out one client request at a time (processJob and *)
(* the handlers of helpers.c), and the tick thread (run_tick), which walks *)
(* auctionsList WITHOUT a lock, counts durations down and closes the       *)
(* auctions that reach 0.  P and V are separate steps, and so is every     *)
(* access that another thread can observe in between.                      *)
(*                                                                         *)
(* Every user is logged in, on a connection of its own, so that            *)
(* findUsername(client_fd) is the user a request comes from.               *)
(*                                                                         *)
(* Bounds: MaxAuctions auctions are created and MaxRequests requests taken *)
(* in a behaviour; the history variable due is not counted below           *)
(* -MaxAuctions.                                                           *)
(***************************************************************************)
EXTENDS Integers, SequencesExt

CONSTANTS
  Users, JobThreads, Tick,  \* Tick: the thread of run_tick
  NoUser,                   \* the NULL of currentWinner and creator
  Durations, Prices, Bids,  \* what clients put into ANCREATE and ANBID
  MallocInts,               \* what a fresh malloc block may hold
  Kinds,                    \* the kinds of request the clients send
  MaxAuctions, MaxRequests

AuctionKinds == {"ANCREATE", "ANLIST", "ANWATCH", "ANLEAVE", "ANBID"}
UserKinds == {"USRLIST", "USRWINS", "USRSALES", "USRBLNC"}

ASSUME AuctionServerAssumption ==
  /\ IsFiniteSet(Users) /\ IsFiniteSet(JobThreads) /\ Tick \notin JobThreads
  /\ NoUser \notin Users
  /\ Durations \subseteq Int /\ Prices \subseteq Int /\ Bids \subseteq Int
  /\ MallocInts \subseteq Int
  /\ Kinds \subseteq AuctionKinds \cup UserKinds
  /\ MaxAuctions \in Nat /\ MaxRequests \in Nat

Threads == JobThreads \cup {Tick}
Ids == 1..MaxAuctions

Requests ==
       [kind: {"ANCREATE"}, user: Users, duration: Durations, price: Prices]
  \cup [kind: {"ANWATCH", "ANLEAVE"}, user: Users, id: Ids]
  \cup [kind: {"ANBID"}, user: Users, id: Ids, bid: Bids]
  \cup [kind: {"ANLIST"} \cup UserKinds, user: Users]

VARIABLES
  \* the fields of users_t
  balance, auctionsOwned, auctionsWon,
  \* the fields of auctions_t, by auction id (bin_flag is bin_price # 0)
  duration, bin_price, bid, currentWinner, creator, watchers, numberOfWatchers,
  auctionID,     \* the last id given out
  auctionsList,  \* the ids of the nodes of auctionsList, from its head
  freedNext,     \* the next field left behind in a node that was freed
  auctionsMutex, usersMutex, auctionIdMutex,
  \* the threads
  pc,            \* where each thread is
  req,           \* the request a job thread carries out
  at,            \* the auction a thread has in hand (newAuction, currentAuction)
  reply,         \* the type of the message sent back for it, "none" before
  requests,      \* requests taken so far
  crashed,       \* the process has died of a wild pointer
  due            \* history: the ticks left to an auction, had none been missed

users == <<balance, auctionsOwned, auctionsWon>>
details == <<bin_price, creator>>
standing == <<bid, currentWinner>>
watching == <<watchers, numberOfWatchers>>
auctions == <<duration, details, standing, watching, auctionID>>
list == <<auctionsList, freedNext>>
sems == <<auctionsMutex, usersMutex, auctionIdMutex>>
work == <<req, at, reply, requests>>
vars == <<users, auctions, list, sems, pc, work, crashed, due>>

NoReq == [kind |-> "none"]
NULL == 0                  \* no node, no auction
-------------------------------------------------------------------------------
Init ==
  /\ balance = [u \in Users |-> 0]
  /\ auctionsOwned = [u \in Users |-> <<>>]
  /\ auctionsWon = [u \in Users |-> <<>>]
  /\ duration = [a \in Ids |-> 0] /\ bin_price = [a \in Ids |-> 0]
  /\ bid = [a \in Ids |-> 0]
  /\ currentWinner = [a \in Ids |-> NoUser] /\ creator = [a \in Ids |-> NoUser]
  /\ watchers = [a \in Ids |-> <<>>] /\ numberOfWatchers = [a \in Ids |-> 0]
  /\ auctionID = 0 /\ auctionsList = <<>> /\ freedNext = [a \in Ids |-> NULL]
  /\ auctionsMutex = 1 /\ usersMutex = 1 /\ auctionIdMutex = 1
  /\ pc = [t \in Threads |-> "idle"]
  /\ req = [t \in JobThreads |-> NoReq]
  /\ at = [t \in Threads |-> NULL]
  /\ reply = [t \in JobThreads |-> "none"]
  /\ requests = 0 /\ crashed = FALSE
  /\ due = [a \in Ids |-> 0]

Go(t, from, to) == ~crashed /\ pc[t] = from /\ pc' = [pc EXCEPT ![t] = to]
Reply(t, type) == reply' = [reply EXCEPT ![t] = type]

(* findUserIndex, findAuctionIndex: the place of the first x in s, here    *)
(* counted from 1, so that 0 is the -1 the code returns for "not there".   *)
IndexOf(s, x) == SelectInSeq(s, LAMBDA y : y = x)

Listed(a) == IndexOf(auctionsList, a) # 0
IsWatching(u, a) == IndexOf(watchers[a], u) # 0
BinFlag(a) == bin_price[a] # 0

(* The next pointer of the node of auction a, which is in the list. *)
NextNode(a) ==
  LET i == IndexOf(auctionsList, a)
  IN  IF i = Len(auctionsList) THEN NULL ELSE auctionsList[i + 1]

(* InsertAtTail links a new node into a non-empty list before it sets the  *)
(* node's data: the node of a, or u's newest owned auction, is a wild      *)
(* pointer to a thread that reads the list without its lock.               *)
NodeUnfilled(a) == \E t \in JobThreads : pc[t] = "listFill" /\ at[t] = a
OwnedUnfilled(u) == \E t \in JobThreads : pc[t] = "ownFill" /\ req[t].user = u

Crash == /\ ~crashed
         /\ crashed' = TRUE
         /\ UNCHANGED <<users, auctions, list, sems, pc, work, due>>
-------------------------------------------------------------------------------
(* A job thread takes a request and waits for the lock of its kind. *)
Creating == {t \in JobThreads : pc[t] \in {"P_auctions", "handle"}
                                 /\ req[t].kind = "ANCREATE"}
TakeRequest(t) ==
  \E r \in Requests :
    /\ r.kind \in Kinds
    /\ requests < MaxRequests
    /\ r.kind = "ANCREATE" => auctionID + Cardinality(Creating) < MaxAuctions
    /\ Go(t, "idle", IF r.kind \in UserKinds THEN "P_users" ELSE "P_auctions")
    /\ req' = [req EXCEPT ![t] = r]
    /\ requests' = requests + 1
    /\ UNCHANGED <<users, auctions, list, sems, at, reply, crashed, due>>

(* Mutant: P does not wait. *)
PAuctionsNoWait(t) ==
  /\ Go(t, "P_auctions", "handle")
  /\ auctionsMutex' = auctionsMutex - 1
  /\ UNCHANGED <<users, auctions, list, usersMutex, auctionIdMutex, work, crashed, due>>

PAuctions(t) ==
  /\ Go(t, "P_auctions", "handle")
  /\ auctionsMutex > 0
  /\ auctionsMutex' = auctionsMutex - 1
  /\ UNCHANGED <<users, auctions, list, usersMutex, auctionIdMutex, work, crashed, due>>

VAuctions(t) ==
  /\ Go(t, "V_auctions", "idle")
  /\ auctionsMutex' = auctionsMutex + 1
  /\ at' = [at EXCEPT ![t] = NULL]
  /\ IF t \in JobThreads
       THEN req' = [req EXCEPT ![t] = NoReq] /\ Reply(t, "none")
       ELSE UNCHANGED <<req, reply>>
  /\ UNCHANGED <<users, auctions, list, usersMutex, auctionIdMutex, requests, crashed, due>>

Handling(t, kind) == req[t].kind = kind /\ Go(t, "handle", "V_auctions")

ListAuctions(t) ==
  /\ Handling(t, "ANLIST")
  /\ Reply(t, "ANLIST")
  /\ UNCHANGED <<users, auctions, list, sems, req, at, requests, crashed, due>>
-------------------------------------------------------------------------------
(* createAuction *)
InvalidArgs(r) == r.duration < 1 \/ r.price < 0

CreateInvalid(t) ==
  /\ Handling(t, "ANCREATE")
  /\ InvalidArgs(req[t])
  /\ Reply(t, "EINVALIDARG")
  /\ UNCHANGED <<users, auctions, list, sems, req, at, requests, crashed, due>>

(* The new struct is filled in, except numberOfWatchers, which keeps       *)
(* whatever malloc returned; P(&auctionIdMutex) and the new id.            *)
CreateTakeId(t) ==
  LET a == auctionID + 1 IN
  /\ req[t].kind = "ANCREATE" /\ Go(t, "handle", "own")
  /\ ~InvalidArgs(req[t])
  /\ auctionIdMutex > 0
  /\ auctionIdMutex' = auctionIdMutex - 1
  /\ auctionID' = a
  /\ at' = [at EXCEPT ![t] = a]
  /\ duration' = [duration EXCEPT ![a] = req[t].duration]
  /\ bin_price' = [bin_price EXCEPT ![a] = req[t].price]
  /\ \E n \in MallocInts : numberOfWatchers' = [numberOfWatchers EXCEPT ![a] = n]
  /\ due' = [due EXCEPT ![a] = req[t].duration]
  /\ UNCHANGED <<users, creator, standing, watchers, list, auctionsMutex, usersMutex,
                 req, reply, requests, crashed>>

(* V(&auctionIdMutex); the creator and its auctionsOwned. *)
CreateOwn(t) ==
  LET u == req[t].user IN
  /\ Go(t, "own", IF auctionsOwned[u] = <<>> THEN "list" ELSE "ownFill")
  /\ auctionIdMutex' = auctionIdMutex + 1
  /\ creator' = [creator EXCEPT ![at[t]] = u]
  /\ auctionsOwned' = [auctionsOwned EXCEPT ![u] = Append(@, at[t])]
  /\ UNCHANGED <<balance, auctionsWon, duration, bin_price, standing, watching,
                 auctionID, list, auctionsMutex, usersMutex, work, crashed, due>>

CreateOwnFill(t) ==
  /\ Go(t, "ownFill", "list")
  /\ UNCHANGED <<users, auctions, list, sems, work, crashed, due>>

(* InsertAtTail(auctions, newAuction) and the reply. *)
CreateList(t) ==
  LET empty == auctionsList = <<>> IN
  /\ Go(t, "list", IF empty THEN "V_auctions" ELSE "listFill")
  /\ auctionsList' = Append(auctionsList, at[t])
  /\ IF empty THEN Reply(t, "ANCREATE") ELSE UNCHANGED reply
  /\ UNCHANGED <<users, auctions, freedNext, sems, req, at, requests, crashed, due>>

CreateListFill(t) ==
  /\ Go(t, "listFill", "V_auctions")
  /\ Reply(t, "ANCREATE")
  /\ UNCHANGED <<users, auctions, list, sems, req, at, requests, crashed, due>>
-------------------------------------------------------------------------------
WatchAuction(t) ==
  LET a == req[t].id IN
  /\ Handling(t, "ANWATCH")
  /\ IF Listed(a)
       THEN /\ numberOfWatchers' = [numberOfWatchers EXCEPT ![a] = @ + 1]
            /\ watchers' = [watchers EXCEPT ![a] = Append(@, req[t].user)]
            /\ Reply(t, "ANWATCH")
       ELSE Reply(t, "EANNOTFOUND") /\ UNCHANGED watching
  /\ UNCHANGED <<users, duration, details, standing, auctionID, list, sems,
                 req, at, requests, crashed, due>>

(* For a user who is not watching, findUserIndex gives -1 and              *)
(* removeByIndex(watchers, -1) runs off the end of the list.               *)
LeaveAuction(t) ==
  LET a == req[t].id
      u == req[t].user IN
  /\ Handling(t, "ANLEAVE")
  /\ Listed(a) => IsWatching(u, a)
  /\ IF Listed(a)
       THEN /\ numberOfWatchers' = [numberOfWatchers EXCEPT ![a] = @ - 1]
            /\ watchers' = [watchers EXCEPT ![a] = RemoveAt(@, IndexOf(@, u))]
            /\ Reply(t, "OK")
       ELSE Reply(t, "EANNOTFOUND") /\ UNCHANGED watching
  /\ UNCHANGED <<users, duration, details, standing, auctionID, list, sems,
                 req, at, requests, crashed, due>>

LeaveNotWatching(t) ==
  /\ pc[t] = "handle" /\ req[t].kind = "ANLEAVE"
  /\ Listed(req[t].id) /\ ~IsWatching(req[t].user, req[t].id)
  /\ Crash
-------------------------------------------------------------------------------
(* bidAuction.  A request for an auction that is not in a non-empty list   *)
(* falls out of the loop and is never answered.                            *)
BidNotFound(t) ==
  /\ Handling(t, "ANBID")
  /\ ~Listed(req[t].id)
  /\ IF auctionsList = <<>> THEN Reply(t, "EANNOTFOUND") ELSE UNCHANGED reply
  /\ UNCHANGED <<users, auctions, list, sems, req, at, requests, crashed, due>>

(* Mutants: no check for the creator; none for the watchers; the old bid   *)
(* is what buys now.                                                       *)
CreatorMayBid(r) == Listed(r.id) /\ IsWatching(r.user, r.id)
StrangerMayBid(r) == Listed(r.id) /\ creator[r.id] # r.user
OldBidBuysNow(r) == BinFlag(r.id) /\ bid[r.id] > bin_price[r.id]

MayBid(r) == Listed(r.id) /\ creator[r.id] # r.user /\ IsWatching(r.user, r.id)
BuysNow(r) == BinFlag(r.id) /\ r.bid > bin_price[r.id]

(* Mutant: the return is missing, the handler goes round its loop. *)
BidDeniedLoops(t) ==
  /\ req[t].kind = "ANBID" /\ Go(t, "handle", "handle")
  /\ Listed(req[t].id) /\ ~MayBid(req[t])
  /\ Reply(t, "EANDENIED")
  /\ UNCHANGED <<users, auctions, list, sems, req, at, requests, crashed, due>>

BidDenied(t) ==
  /\ Handling(t, "ANBID")
  /\ Listed(req[t].id) /\ ~MayBid(req[t])
  /\ Reply(t, "EANDENIED")
  /\ UNCHANGED <<users, auctions, list, sems, req, at, requests, crashed, due>>

BidLow(t) ==
  /\ Handling(t, "ANBID")
  /\ MayBid(req[t]) /\ ~BuysNow(req[t]) /\ req[t].bid <= bid[req[t].id]
  /\ Reply(t, "EBIDLOW")
  /\ UNCHANGED <<users, auctions, list, sems, req, at, requests, crashed, due>>

TakeBid(t) ==
  /\ bid' = [bid EXCEPT ![req[t].id] = req[t].bid]
  /\ currentWinner' = [currentWinner EXCEPT ![req[t].id] = req[t].user]
  /\ at' = [at EXCEPT ![t] = req[t].id]
  /\ UNCHANGED <<users, duration, details, watching, auctionID, list, sems,
                 req, reply, requests, crashed, due>>

(* Mutant: an equal bid is enough. *)
BidRaiseEqual(t) ==
  /\ req[t].kind = "ANBID" /\ Go(t, "handle", "update")
  /\ MayBid(req[t]) /\ ~BuysNow(req[t]) /\ req[t].bid >= bid[req[t].id]
  /\ TakeBid(t)

BidRaise(t) ==
  /\ req[t].kind = "ANBID" /\ Go(t, "handle", "update")
  /\ MayBid(req[t]) /\ ~BuysNow(req[t]) /\ req[t].bid > bid[req[t].id]
  /\ TakeBid(t)

(* updateAuction, inside P and V of auctionIdMutex: ANUPDATE to the        *)
(* watchers, then OK to the bidder.                                        *)
BidUpdate(t) ==
  /\ Go(t, "update", "V_auctions")
  /\ auctionIdMutex > 0
  /\ Reply(t, "OK")
  /\ UNCHANGED <<users, auctions, list, sems, req, at, requests, crashed, due>>

BidBuyNow(t) ==
  /\ req[t].kind = "ANBID" /\ Go(t, "handle", "P_charge")
  /\ MayBid(req[t]) /\ BuysNow(req[t])
  /\ TakeBid(t)
-------------------------------------------------------------------------------
(* closeAuction and the removal that follows it at every call: run by a    *)
(* job thread after a buy-now bid and by the tick thread, each holding     *)
(* auctionsMutex.                                                          *)
PUsers(t, from, to) ==
  /\ Go(t, from, to)
  /\ usersMutex > 0
  /\ usersMutex' = usersMutex - 1
  /\ UNCHANGED <<users, auctions, list, auctionsMutex, auctionIdMutex, work, crashed, due>>

ClosePCharge(t) == PUsers(t, "P_charge", "charge")
ClosePPay(t) == PUsers(t, "P_pay", "pay")

CloseCharge(t) ==
  LET a == at[t]
      winner == currentWinner[a] IN
  /\ Go(t, "charge", "P_pay")
  /\ balance' = [balance EXCEPT ![winner] = @ - bid[a]]
  /\ auctionsWon' = [auctionsWon EXCEPT ![winner] = Append(@, a)]
  /\ usersMutex' = usersMutex + 1
  /\ UNCHANGED <<auctionsOwned, auctions, list, auctionsMutex, auctionIdMutex,
                 work, crashed, due>>

(* Mutant: the creator gets the buy-now price, not the bid. *)
ClosePayBinPrice(t) ==
  /\ Go(t, "pay", "notify")
  /\ balance' = [balance EXCEPT ![creator[at[t]]] = @ + bin_price[at[t]]]
  /\ usersMutex' = usersMutex + 1
  /\ UNCHANGED <<auctionsOwned, auctionsWon, auctions, list, auctionsMutex,
                 auctionIdMutex, work, crashed, due>>

ClosePay(t) ==
  /\ Go(t, "pay", "notify")
  /\ balance' = [balance EXCEPT ![creator[at[t]]] = @ + bid[at[t]]]
  /\ usersMutex' = usersMutex + 1
  /\ UNCHANGED <<auctionsOwned, auctionsWon, auctions, list, auctionsMutex,
                 auctionIdMutex, work, crashed, due>>

(* ANCLOSED to the watchers; a bidder who bought now is one of them and    *)
(* gets no other answer.                                                   *)
CloseNotify(t) ==
  /\ Go(t, "notify", "remove")
  /\ IF t \in JobThreads /\ IsWatching(req[t].user, at[t])
       THEN Reply(t, "ANCLOSED") ELSE UNCHANGED reply
  /\ UNCHANGED <<users, auctions, list, sems, req, at, requests, crashed, due>>

CloseRemove(t) ==
  LET a == at[t] IN
  /\ Go(t, "remove", "V_auctions")
  /\ Listed(a)
  /\ freedNext' = [freedNext EXCEPT ![a] = NextNode(a)]
  /\ auctionsList' = RemoveAt(auctionsList, IndexOf(auctionsList, a))
  /\ UNCHANGED <<users, auctions, sems, work, crashed, due>>

(* removeByIndex(auctionsList, -1) runs off the end of the list. *)
CloseAbsent(t) == pc[t] = "remove" /\ ~Listed(at[t]) /\ Crash
-------------------------------------------------------------------------------
(* run_tick: one line read from stdin (or its end) is one walk. *)
TickStart ==
  /\ auctionsList # <<>>
  /\ Go(Tick, "idle", "visit")
  /\ at' = [at EXCEPT ![Tick] = Head(auctionsList)]
  /\ due' = [a \in Ids |->
               IF Listed(a) /\ ~NodeUnfilled(a) /\ due[a] > -MaxAuctions
                 THEN due[a] - 1 ELSE due[a]]
  /\ UNCHANGED <<users, auctions, list, sems, req, reply, requests, crashed>>

(* Mutants: the test comes before the decrement; the duration stops at 1. *)
TickVisitTestFirst ==
  LET a == at[Tick] IN
  /\ Go(Tick, "visit", IF duration[a] = 0 THEN "P_auctions" ELSE "advance")
  /\ duration' = [duration EXCEPT ![a] = @ - 1]
  /\ UNCHANGED <<users, details, standing, watching, auctionID, list, sems,
                 work, crashed, due>>
TickVisitStopsAtOne ==
  LET a == at[Tick] IN
  /\ Go(Tick, "visit", "advance")
  /\ duration' = [duration EXCEPT ![a] = IF @ > 1 THEN @ - 1 ELSE 1]
  /\ UNCHANGED <<users, details, standing, watching, auctionID, list, sems,
                 work, crashed, due>>

(* duration - 1 and the test, through the pointer in the node.  A node     *)
(* freed since the walk reached it may still hold that pointer, a node not *)
(* yet filled in may hold it already.                                      *)
TickVisit ==
  LET a == at[Tick] IN
  /\ Go(Tick, "visit", IF duration[a] = 1 THEN "P_auctions" ELSE "advance")
  /\ duration' = [duration EXCEPT ![a] = @ - 1]
  /\ UNCHANGED <<users, details, standing, watching, auctionID, list, sems,
                 work, crashed, due>>

(* Mutant: the tick thread closes without the lock. *)
TickNoLock ==
  /\ Go(Tick, "P_auctions",
        IF currentWinner[at[Tick]] = NoUser THEN "P_pay" ELSE "P_charge")
  /\ UNCHANGED <<users, auctions, list, sems, work, crashed, due>>

TickPAuctions ==
  /\ Go(Tick, "P_auctions",
        IF currentWinner[at[Tick]] = NoUser THEN "P_pay" ELSE "P_charge")
  /\ auctionsMutex > 0
  /\ auctionsMutex' = auctionsMutex - 1
  /\ UNCHANGED <<users, auctions, list, usersMutex, auctionIdMutex, work, crashed, due>>

(* current = current->next, of a freed node the value left in it. *)
TickAdvance ==
  LET a == at[Tick]
      next == IF Listed(a) THEN NextNode(a) ELSE freedNext[a] IN
  /\ ~NodeUnfilled(a)
  /\ Go(Tick, "advance", IF next = NULL THEN "idle" ELSE "visit")
  /\ at' = [at EXCEPT ![Tick] = next]
  /\ UNCHANGED <<users, auctions, list, sems, req, reply, requests, crashed, due>>

(* The node is freed or not filled in yet, and what its fields hold is no  *)
(* pointer.  If an unfilled node, always the last one, does hold pointers  *)
(* (to memory of no consequence), the walk ends there instead.             *)
TickWild ==
  LET a == at[Tick] IN
  /\ pc[Tick] \in {"visit", "advance"}
  /\ ~Listed(a) \/ NodeUnfilled(a)
  /\ Crash

TickCutShort ==
  /\ pc[Tick] \in {"visit", "advance"} /\ Go(Tick, pc[Tick], "idle")
  /\ NodeUnfilled(at[Tick])
  /\ at' = [at EXCEPT ![Tick] = NULL]
  /\ UNCHANGED <<users, auctions, list, sems, req, reply, requests, crashed, due>>
-------------------------------------------------------------------------------
(* USRLIST, USRWINS, USRSALES, USRBLNC: a look at the users under          *)
(* usersMutex, and the reply.                                              *)
QueryPUsers(t) == PUsers(t, "P_users", "query")

Query(t) ==
  /\ Go(t, "query", "V_users")
  /\ Reply(t, req[t].kind)
  /\ UNCHANGED <<users, auctions, list, sems, req, at, requests, crashed, due>>

(* usersSales follows the data of an auctionsOwned node that createAuction *)
(* is still filling in, under another lock.                                *)
QueryWild(t) ==
  /\ pc[t] = "query" /\ req[t].kind = "USRSALES" /\ OwnedUnfilled(req[t].user)
  /\ Crash

QueryVUsers(t) ==
  /\ Go(t, "V_users", "idle")
  /\ usersMutex' = usersMutex + 1
  /\ req' = [req EXCEPT ![t] = NoReq]
  /\ Reply(t, "none")
  /\ UNCHANGED <<users, auctions, list, auctionsMutex, auctionIdMutex, at,
                 requests, crashed, due>>
-------------------------------------------------------------------------------
(* Nothing to do: every job thread waits for a job, every auction closed.  *)
Quiescent ==
  /\ \/ crashed
     \/ auctionsList = <<>> /\ \A t \in Threads : pc[t] = "idle"
  /\ UNCHANGED vars

Create(t) ==
  \/ CreateInvalid(t) \/ CreateTakeId(t) \/ CreateOwn(t) \/ CreateOwnFill(t)
  \/ CreateList(t) \/ CreateListFill(t)
Bid(t) ==
  \/ BidNotFound(t) \/ BidDenied(t) \/ BidLow(t)
  \/ BidRaise(t) \/ BidUpdate(t) \/ BidBuyNow(t)
UsersRequest(t) == QueryPUsers(t) \/ Query(t) \/ QueryWild(t) \/ QueryVUsers(t)
CloseAuction(t) ==
  \/ ClosePCharge(t) \/ CloseCharge(t) \/ ClosePPay(t) \/ ClosePay(t)
  \/ CloseNotify(t) \/ CloseRemove(t) \/ CloseAbsent(t)

ProcessJob(t) ==
  \/ PAuctions(t) \/ ListAuctions(t) \/ Create(t) \/ WatchAuction(t)
  \/ LeaveAuction(t) \/ LeaveNotWatching(t) \/ Bid(t) \/ CloseAuction(t)
  \/ UsersRequest(t) \/ VAuctions(t)

RunTick ==
  \/ TickStart \/ TickVisit \/ TickPAuctions \/ TickAdvance \/ TickWild
  \/ TickCutShort \/ CloseAuction(Tick) \/ VAuctions(Tick)

Next ==
  \/ \E t \in JobThreads : TakeRequest(t) \/ ProcessJob(t)
  \/ RunTick
  \/ Quiescent

Spec == Init /\ [][Next]_vars

(* Threads that can run do run, and lines keep coming from stdin. *)
FairSpec ==
  /\ Spec
  /\ \A t \in JobThreads : WF_vars(ProcessJob(t))
  /\ WF_vars(RunTick)
-------------------------------------------------------------------------------
Closing == {"P_charge", "charge", "P_pay", "pay", "notify", "remove"}
HoldsAuctions ==
  {"handle", "own", "ownFill", "list", "listFill", "update", "V_auctions"} \cup Closing
HoldsUsers == {"charge", "pay", "query", "V_users"}
HoldsId == {"own"}
Labels == HoldsAuctions \cup HoldsUsers
            \cup {"idle", "P_auctions", "P_users", "visit", "advance"}
ReplyTypes == {"none", "OK", "EINVALIDARG", "EANNOTFOUND", "EANDENIED", "EBIDLOW",
               "ANCREATE", "ANLIST", "ANWATCH", "ANCLOSED"} \cup UserKinds

(* Every variable has its type. *)
TypeOK ==
  /\ balance \in [Users -> Int]
  /\ auctionsOwned \in [Users -> Seq(Ids)] /\ auctionsWon \in [Users -> Seq(Ids)]
  /\ duration \in [Ids -> Int] /\ bin_price \in [Ids -> Int] /\ bid \in [Ids -> Int]
  /\ currentWinner \in [Ids -> Users \cup {NoUser}]
  /\ creator \in [Ids -> Users \cup {NoUser}]
  /\ watchers \in [Ids -> Seq(Users)] /\ numberOfWatchers \in [Ids -> Int]
  /\ auctionID \in 0..MaxAuctions /\ auctionsList \in Seq(Ids)
  /\ freedNext \in [Ids -> Ids \cup {NULL}]
  /\ auctionsMutex \in Nat /\ usersMutex \in Nat /\ auctionIdMutex \in Nat
  /\ pc \in [Threads -> Labels]
  /\ req \in [JobThreads -> Requests \cup {NoReq}]
  /\ at \in [Threads -> Ids \cup {NULL}]
  /\ reply \in [JobThreads -> ReplyTypes]
  /\ requests \in Nat /\ crashed \in BOOLEAN
  /\ due \in [Ids -> Int]

At(labels) == {t \in Threads : pc[t] \in labels}
Guards(sem, S) ==
  /\ sem \in {0, 1}
  /\ \A t, u \in S : t = u
  /\ (sem = 0) <=> (S # {})

(* Each semaphore lets one thread in, is held exactly while some thread is *)
(* inside, and is never posted twice: all paths through processJob,        *)
(* createAuction, bidAuction, closeAuction and run_tick pair P with V.     *)
LocksExclusive ==
  /\ Guards(auctionsMutex, At(HoldsAuctions))
  /\ Guards(usersMutex, At(HoldsUsers))
  /\ Guards(auctionIdMutex, At(HoldsId))

IsClosing(a) == \E t \in Threads : at[t] = a /\ pc[t] \in Closing

(* A bid above the buy-now price never stands in an open auction: it is    *)
(* there only while the auction is being closed for it, or afterwards.     *)
(* bidAuction relies on this, it takes a buy-now bid without comparing it  *)
(* with the highest one.                                                   *)
BuyNowEndsAuction ==
  \A a \in Ids : BinFlag(a) /\ bid[a] > bin_price[a] => ~Listed(a) \/ IsClosing(a)

(* Bids only rise, and nobody takes the lead without raising (bidAuction). *)
BidsOnlyRise ==
  [][\A a \in Ids : /\ bid'[a] >= bid[a]
                    /\ currentWinner'[a] # currentWinner[a] => bid'[a] > bid[a]]_vars

(* Once the winner has been charged for an auction (closeAuction), neither *)
(* the winner nor the price of that auction changes any more.              *)
ChargedIsFinal ==
  [][\A u \in Users, a \in Ids :
       Contains(auctionsWon[u], a) =>
         /\ currentWinner[a] = u
         /\ bid'[a] = bid[a] /\ currentWinner'[a] = currentWinner[a]]_vars

(* auctionsList holds each auction once, in the order of the ids: two      *)
(* creations never overtake each other between the id and the insertion    *)
(* (createAuction), and a removal takes out the right node.                *)
ListInIdOrder ==
  /\ \A i, j \in 1..Len(auctionsList) : i < j => auctionsList[i] < auctionsList[j]
  /\ \A i \in 1..Len(auctionsList) : auctionsList[i] <= auctionID

Sum(f(_), S) == MapThenSumSet(f, S)
Inserted(a) ==
  /\ a <= auctionID
  /\ ~\E t \in JobThreads : at[t] = a /\ pc[t] \in {"own", "ownFill", "list"}

(* Money is neither made nor lost: what winners have been charged has been *)
(* paid to creators, or is about to be by a thread inside closeAuction.    *)
MoneyConserved ==
  LET InFlight == {t \in Threads : pc[t] \in {"P_pay", "pay"}}
  IN  Sum(LAMBDA u : balance[u], Users) + Sum(LAMBDA t : bid[at[t]], InFlight) = 0

(* The balance USRBLNC reports is what USRWINS and USRSALES add up to: the *)
(* price of the user's auctions that have been paid, less the price of the *)
(* ones the user won.                                                      *)
Paid(a) ==
  /\ Inserted(a)
  /\ ~Listed(a) \/ \E t \in Threads : at[t] = a /\ pc[t] \in {"notify", "remove"}
BalancesMatchHistory ==
  \A u \in Users :
    balance[u] = Sum(LAMBDA a : bid[a], {a \in Ids : Paid(a) /\ creator[a] = u})
                 - Sum(LAMBDA i : bid[auctionsWon[u][i]], 1..Len(auctionsWon[u]))

(* A tick that closes an auction breaks off its walk, so the auctions      *)
(* behind it miss the tick: an auction can outlive its duration, but by no *)
(* more ticks than there are auctions created before it.                   *)
OutlivesByEarlierAuctions ==
  \A a \in Ids : pc[Tick] = "idle" /\ Listed(a) => due[a] > 1 - a

(* Every request about auctions is answered, the bid that buys now by the  *)
(* notice to the watchers.  The exception is a bid on an auction that is   *)
(* gone while others are open: bidAuction falls out of its loop.           *)
AnsweredUnlessGone ==
  \A t \in JobThreads :
    pc[t] = "V_auctions" /\ reply[t] = "none" =>
      req[t].kind = "ANBID" /\ ~Listed(req[t].id) /\ auctionsList # <<>>

(* Every request is worked off: no thread waits forever for a lock.        *)
RequestsComplete ==
  \A t \in JobThreads : pc[t] # "idle" ~> pc[t] = "idle" \/ crashed

(* Every auction is closed in the end, however many expire together.       *)
AuctionsClose == \A a \in Ids : Listed(a) ~> ~Listed(a) \/ crashed
-------------------------------------------------------------------------------
(* What the comments of the code say, and the code does not keep.          *)

(* "the auctions' ids of the auctions that the user wins" (structs.h): an  *)
(* auction is won, and charged for, once.                                  *)
WonOnce ==
  \A u \in Users : \A i, j \in 1..Len(auctionsWon[u]) :
    auctionsWon[u][i] = auctionsWon[u][j] => i = j
-------------------------------------------------------------------------------
(* The refinement mapping.  An auction opens when it enters auctionsList,  *)
(* its winner is charged and its creator paid inside closeAuction.         *)
Phase(a) ==
  LET Doing(labels) == \E t \in Threads : at[t] = a /\ pc[t] \in labels
  IN  CASE ~Inserted(a)              -> "none"
        [] Doing({"P_pay", "pay"})   -> "charged"
        [] Paid(a)                   -> "settled"
        [] OTHER                     -> "open"

House == INSTANCE AuctionHouse WITH
           phase <- [a \in Ids |-> Phase(a)],
           seller <- [a \in Ids |-> IF Inserted(a) THEN creator[a] ELSE NoUser],
           highBidder <- currentWinner,
           highBid <- bid,
           account <- balance

(* The threads, the locks and the unlocked walk of the tick thread keep    *)
(* the promise of AuctionHouse: every auction is closed, charged and paid  *)
(* exactly once.  (Only while no auction has a buy-now price.)             *)
ImplementsHouse == House!Spec
===============================================================================
