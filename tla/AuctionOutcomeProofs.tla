-------------------------- MODULE AuctionOutcomeProofs --------------------------
(***************************************************************************)
(* Proofs about the answers, the money and the ticks of AuctionServer, for *)
(* any number of users, job threads, auctions and requests:                *)
(*   - Answered: AnsweredUnlessGone;                                       *)
(*   - MoneyStays: MoneyConserved;                                         *)
(*   - KeepsTheHouse: ImplementsHouse, without buy-now prices;             *)
(*   - BalancesAdd: BalancesMatchHistory, without buy-now prices;          *)
(*   - OutlivesBounded: OutlivesByEarlierAuctions.                         *)
(***************************************************************************)
EXTENDS AuctionOrderProofs

(* A step leaves the other threads and their requests alone, and the list  *)
(* and the watchers too unless its thread holds auctionsMutex.             *)
Others(t) ==
  /\ \A u \in Threads \ {t} : pc'[u] = pc[u] /\ at'[u] = at[u]
  /\ \A u \in JobThreads \ {t} : req'[u] = req[u] /\ reply'[u] = reply[u]
  /\ UNCHANGED <<auctionsList, watchers>> \/ pc[t] \in HoldsAuctions \ {"V_auctions"}

LEMMA CloseOthers ==
  ASSUME TypeOK, NEW t \in Threads, CloseAuction(t) \/ VAuctions(t)
  PROVE  Others(t)
<1> USE DEF Others, TypeOK, Go, HoldsAuctions, Closing,
       users, auctions, list, sems, work, details, standing, watching
<1>1. CASE ClosePCharge(t) BY <1>1 DEF ClosePCharge, PUsers
<1>2. CASE CloseCharge(t)  BY <1>2 DEF CloseCharge
<1>3. CASE ClosePPay(t)    BY <1>3 DEF ClosePPay, PUsers
<1>4. CASE ClosePay(t)     BY <1>4 DEF ClosePay
<1>5. CASE CloseNotify(t)  BY <1>5 DEF CloseNotify, Reply
<1>6. CASE CloseRemove(t)  BY <1>6 DEF CloseRemove
<1>7. CASE CloseAbsent(t)  BY <1>7 DEF CloseAbsent, Crash
<1>8. CASE VAuctions(t)    BY <1>8 DEF VAuctions, Reply
<1> QED BY <1>1, <1>2, <1>3, <1>4, <1>5, <1>6, <1>7, <1>8 DEF CloseAuction

LEMMA JobOthers ==
  ASSUME TypeOK, NEW t \in JobThreads, TakeRequest(t) \/ ProcessJob(t)
  PROVE  Others(t)
<1> USE DEF Others, TypeOK, Go, HoldsAuctions, Closing, Handling, Reply,
       users, auctions, list, sems, work, details, standing, watching
<1>1. t \in Threads
  BY DEF Threads
<1>2. CASE TakeRequest(t)     BY <1>2 DEF TakeRequest
<1>3. CASE PAuctions(t)       BY <1>3 DEF PAuctions
<1>4. CASE ListAuctions(t)    BY <1>4 DEF ListAuctions
<1>5. CASE Create(t)
  <2>1. CASE CreateInvalid(t)  BY <2>1 DEF CreateInvalid
  <2>2. CASE CreateTakeId(t)   BY <2>2 DEF CreateTakeId
  <2>3. CASE CreateOwn(t)      BY <2>3 DEF CreateOwn
  <2>4. CASE CreateOwnFill(t)  BY <2>4 DEF CreateOwnFill
  <2>5. CASE CreateList(t)     BY <2>5 DEF CreateList
  <2>6. CASE CreateListFill(t) BY <2>6 DEF CreateListFill
  <2> QED BY <1>5, <2>1, <2>2, <2>3, <2>4, <2>5, <2>6 DEF Create
<1>6. CASE WatchAuction(t)    BY <1>6 DEF WatchAuction
<1>7. CASE LeaveAuction(t)    BY <1>7 DEF LeaveAuction
<1>8. CASE LeaveNotWatching(t) BY <1>8 DEF LeaveNotWatching, Crash
<1>9. CASE Bid(t)
  <2>1. CASE BidNotFound(t)  BY <2>1 DEF BidNotFound
  <2>2. CASE BidDenied(t)    BY <2>2 DEF BidDenied
  <2>3. CASE BidLow(t)       BY <2>3 DEF BidLow
  <2>4. CASE BidRaise(t)     BY <2>4 DEF BidRaise, TakeBid
  <2>5. CASE BidUpdate(t)    BY <2>5 DEF BidUpdate
  <2>6. CASE BidBuyNow(t)    BY <2>6 DEF BidBuyNow, TakeBid
  <2> QED BY <1>9, <2>1, <2>2, <2>3, <2>4, <2>5, <2>6 DEF Bid
<1>10. CASE UsersRequest(t)
  <2>1. CASE QueryPUsers(t)  BY <2>1 DEF QueryPUsers, PUsers
  <2>2. CASE Query(t)        BY <2>2 DEF Query
  <2>3. CASE QueryWild(t)    BY <2>3 DEF QueryWild, Crash
  <2>4. CASE QueryVUsers(t)  BY <2>4 DEF QueryVUsers
  <2> QED BY <1>10, <2>1, <2>2, <2>3, <2>4 DEF UsersRequest
<1>11. CASE CloseAuction(t) \/ VAuctions(t)
  BY <1>1, <1>11, CloseOthers
<1> QED BY <1>2, <1>3, <1>4, <1>5, <1>6, <1>7, <1>8, <1>9, <1>10, <1>11 DEF ProcessJob

LEMMA TickOthers == ASSUME TypeOK, RunTick PROVE Others(Tick)
<1> USE DEF Others, TypeOK, Go, HoldsAuctions, Closing,
       users, auctions, list, sems, work, details, standing, watching
<1>1. Tick \in Threads
  BY DEF Threads
<1>2. CASE TickStart      BY <1>2 DEF TickStart
<1>3. CASE TickVisit      BY <1>3 DEF TickVisit
<1>4. CASE TickPAuctions  BY <1>4 DEF TickPAuctions
<1>5. CASE TickAdvance    BY <1>5 DEF TickAdvance
<1>6. CASE TickWild       BY <1>6 DEF TickWild, Crash
<1>7. CASE TickCutShort   BY <1>7 DEF TickCutShort
<1>8. CASE CloseAuction(Tick) \/ VAuctions(Tick)
  BY <1>1, <1>8, CloseOthers
<1> QED BY <1>2, <1>3, <1>4, <1>5, <1>6, <1>7, <1>8 DEF RunTick

LEMMA StepOthers ==
  ASSUME TypeOK, InHand, [Next]_vars
  PROVE  \/ UNCHANGED vars
         \/ \E t \in JobThreads : (TakeRequest(t) \/ ProcessJob(t)) /\ Others(t)
         \/ RunTick /\ Others(Tick)
BY JobOthers, TickOthers DEF Next, Quiescent
-------------------------------------------------------------------------------
(* A buyer on whose behalf a job thread closes an auction is among those   *)
(* who are told, and a bid that falls out of the loop has fallen out.      *)
BuyerWatches(t) ==
  pc[t] \in {"P_charge", "charge", "P_pay", "pay", "notify"} => IsWatching(req[t].user, at[t])
BuyerTold(t) == pc[t] = "remove" => reply[t] # "none"
AnsweredOrGone(t) ==
  pc[t] = "V_auctions" /\ reply[t] = "none" =>
    req[t].kind = "ANBID" /\ ~Listed(req[t].id) /\ auctionsList # <<>>

Answering(t) == BuyerWatches(t) /\ BuyerTold(t) /\ AnsweredOrGone(t)

LEMMA OthersAnswering ==
  ASSUME TypeOK, LocksExclusive, NEW u \in Threads, Others(u),
         NEW t \in JobThreads, t # u, Answering(t)
  PROVE  Answering(t)'
<1>1. /\ pc'[t] = pc[t] /\ at'[t] = at[t] /\ req'[t] = req[t] /\ reply'[t] = reply[t]
  BY DEF Others, Threads
<1>2. CASE UNCHANGED <<auctionsList, watchers>>
  BY <1>1, <1>2 DEF Answering, BuyerWatches, BuyerTold, AnsweredOrGone, IsWatching, Listed
<1>3. CASE pc[u] \in HoldsAuctions
  <2>1. pc[t] \notin HoldsAuctions
    BY <1>3 DEF LocksExclusive, Guards, At, Threads
  <2> QED BY <1>1, <2>1 DEF Answering, BuyerWatches, BuyerTold, AnsweredOrGone,
             HoldsAuctions, Closing
<1> QED BY <1>2, <1>3 DEF Others

LEMMA OwnAnswering ==
  ASSUME TypeOK, InHand, NEW t \in JobThreads, TakeRequest(t) \/ ProcessJob(t), Answering(t)
  PROVE  Answering(t)'
<1> USE DEF Answering, BuyerWatches, BuyerTold, AnsweredOrGone, IsWatching, Listed,
       TypeOK, Go, Handling, Reply, users, auctions, list, sems, work, details, standing,
       watching
<1>1. t \in Threads
  BY DEF Threads
<1>2. CASE TakeRequest(t)     BY <1>1, <1>2 DEF TakeRequest
<1>3. CASE PAuctions(t)       BY <1>1, <1>3 DEF PAuctions
<1>4. CASE ListAuctions(t)    BY <1>1, <1>4 DEF ListAuctions
<1>5. CASE Create(t)
  <2>1. CASE CreateInvalid(t)  BY <1>1, <2>1 DEF CreateInvalid
  <2>2. CASE CreateTakeId(t)   BY <1>1, <2>2 DEF CreateTakeId
  <2>3. CASE CreateOwn(t)      BY <1>1, <2>3 DEF CreateOwn
  <2>4. CASE CreateOwnFill(t)  BY <1>1, <2>4 DEF CreateOwnFill
  <2>5. CASE CreateList(t)     BY <1>1, <2>5 DEF CreateList
  <2>6. CASE CreateListFill(t) BY <1>1, <2>6 DEF CreateListFill
  <2> QED BY <1>5, <2>1, <2>2, <2>3, <2>4, <2>5, <2>6 DEF Create
<1>6. CASE WatchAuction(t)    BY <1>1, <1>6 DEF WatchAuction
<1>7. CASE LeaveAuction(t)    BY <1>1, <1>7 DEF LeaveAuction
<1>8. CASE LeaveNotWatching(t) \/ QueryWild(t) \/ CloseAbsent(t)
  BY <1>8 DEF LeaveNotWatching, QueryWild, CloseAbsent, Crash
<1>9. CASE Bid(t)
  <2>1. CASE BidNotFound(t)  BY <1>1, <2>1 DEF BidNotFound
  <2>2. CASE BidDenied(t)    BY <1>1, <2>2 DEF BidDenied
  <2>3. CASE BidLow(t)       BY <1>1, <2>3 DEF BidLow
  <2>4. CASE BidRaise(t)     BY <1>1, <2>4 DEF BidRaise, TakeBid
  <2>5. CASE BidUpdate(t)    BY <1>1, <2>5 DEF BidUpdate
  <2>6. CASE BidBuyNow(t)    BY <1>1, <2>6 DEF BidBuyNow, TakeBid, MayBid
  <2> QED BY <1>9, <2>1, <2>2, <2>3, <2>4, <2>5, <2>6 DEF Bid
<1>10. CASE QueryPUsers(t) \/ Query(t) \/ QueryVUsers(t)
  BY <1>1, <1>10 DEF QueryPUsers, Query, QueryVUsers, PUsers
<1>11. CASE ClosePCharge(t) \/ ClosePPay(t)
  BY <1>1, <1>11 DEF ClosePCharge, ClosePPay, PUsers
<1>12. CASE CloseCharge(t)    BY <1>1, <1>12 DEF CloseCharge
<1>13. CASE ClosePay(t)       BY <1>1, <1>13 DEF ClosePay
<1>14. CASE CloseNotify(t)    BY <1>1, <1>14 DEF CloseNotify
<1>15. CASE CloseRemove(t)    BY <1>1, <1>15 DEF CloseRemove
<1>16. CASE VAuctions(t)      BY <1>1, <1>16 DEF VAuctions
<1> QED BY <1>2, <1>3, <1>4, <1>5, <1>6, <1>7, <1>8, <1>9, <1>10, <1>11, <1>12, <1>13,
           <1>14, <1>15, <1>16 DEF ProcessJob, UsersRequest, CloseAuction

(* Every request about auctions is answered before its thread releases     *)
(* auctionsMutex, but for the bid that falls out of the loop of bidAuction *)
(* because its auction is gone: for any number of threads, and whichever   *)
(* of them closes the auction.                                             *)
THEOREM Answered == Spec => []AnsweredUnlessGone
<1> DEFINE Inv == \A t \in JobThreads : Answering(t)
<1>1. Init => Inv
  BY DEF Init, Answering, BuyerWatches, BuyerTold, AnsweredOrGone, Threads
<1>2. TypeOK /\ InHand /\ LocksExclusive /\ Inv /\ [Next]_vars => Inv'
  <2> SUFFICES ASSUME TypeOK, InHand, LocksExclusive, Inv, [Next]_vars, NEW t \in JobThreads
               PROVE  Answering(t)'
    OBVIOUS
  <2>1. CASE UNCHANGED vars
    BY <2>1 DEF vars, work, auctions, watching, list, Answering, BuyerWatches, BuyerTold,
       AnsweredOrGone, IsWatching, Listed
  <2>2. ASSUME NEW u \in JobThreads, TakeRequest(u) \/ ProcessJob(u), Others(u)
        PROVE  Answering(t)'
    BY <2>2, OwnAnswering, OthersAnswering DEF Threads
  <2>3. CASE RunTick /\ Others(Tick)
    BY <2>3, OthersAnswering, AuctionServerAssumption DEF Threads
  <2> QED BY <2>1, <2>2, <2>3, StepOthers
<1>3. Inv => AnsweredUnlessGone
  BY DEF Answering, AnsweredOrGone, AnsweredUnlessGone
<1> QED BY <1>1, <1>2, <1>3, TypedInHand, MutualExclusion, PTL DEF Spec
-------------------------------------------------------------------------------
(* Whoever is about to be charged or paid is a user: an auction has its    *)
(* creator by the time it is listed, and keeps it when its node is freed;  *)
(* an auction that nobody leads has no bid.                                *)
HasSeller(a) == creator[a] \in Users
Sellers ==
  /\ \A t \in Threads : at[t] \in Ids /\ pc[t] # "own" => HasSeller(at[t])
  /\ \A a \in Ids : Listed(a) => HasSeller(a)
  /\ \A a \in Ids : freedNext[a] \in Ids => HasSeller(freedNext[a])
  /\ \A a \in Ids : currentWinner[a] = NoUser => bid[a] = 0
  /\ \A t \in Threads : pc[t] \in {"P_charge", "charge"} => currentWinner[at[t]] \in Users

(* A thread between the charge and the payment still has money to hand on, *)
(* the bid on the auction that it closes.                                  *)
Owing == {"P_pay", "pay"}
MoneyInv ==
  /\ \A t \in Threads : pc[t] \in Owing => Total(balance, Users) + bid[at[t]] = 0
  /\ (\A t \in Threads : pc[t] \notin Owing) => Total(balance, Users) = 0

(* The steps that move no money, no bid and no node, and do not take the   *)
(* thread in or out of closeAuction, nor an auction any nearer to the list. *)
Walking == {"visit", "advance", "P_auctions"} \cup Closing
Plain(t) ==
  /\ UNCHANGED <<balance, auctionsWon, creator, currentWinner, bid, auctionsList, freedNext>>
  /\ \A u \in Threads \ {t} : pc'[u] = pc[u] /\ at'[u] = at[u]
  /\ pc'[t] \in Owing <=> pc[t] \in Owing
  /\ pc'[t] \in {"notify", "remove"} <=> pc[t] \in {"notify", "remove"}
  /\ pc'[t] \in Closing <=> pc[t] \in Closing
  /\ pc[t] \in Closing \cup Fresh => at'[t] = at[t]
  /\ pc'[t] \in {"P_charge", "charge"} => pc[t] \in {"P_charge", "charge"}
  /\ pc[t] = "own" => pc'[t] = "own"
  /\ pc'[t] = "own" \/ at'[t] \in {at[t], NULL} \/ HasSeller(at'[t])
  /\ \/ UNCHANGED <<bin_price, auctionID>> /\ (pc'[t] \in Fresh <=> pc[t] \in Fresh)
     \/ t \in JobThreads /\ CreateTakeId(t)
  /\ t = Tick /\ pc'[t] \in Walking =>
       Listed(at'[t]) \/ (pc[t] \in Walking /\ (at'[t] = at[t] \/ ~Listed(at[t])))

LEMMA PlainKeeps ==
  ASSUME TypeOK, TypeOK', Sellers, MoneyInv, NEW t \in Threads, Plain(t)
  PROVE  Sellers' /\ MoneyInv'
<1>1. \A u \in Threads : pc'[u] \in Owing <=> pc[u] \in Owing
  BY DEF Plain
<1>2. \A u \in Threads : pc[u] \in Closing => at'[u] = at[u]
  BY DEF Plain
<1>3. MoneyInv'
  BY <1>1, <1>2 DEF MoneyInv, Plain, Owing, Closing
<1>4. \A a : HasSeller(a)' <=> HasSeller(a)
  BY DEF HasSeller, Plain
<1>5. \A a : Listed(a)' <=> Listed(a)
  BY DEF Listed, Plain
<1>6. \A u \in Threads :
        pc'[u] \in {"P_charge", "charge"} => currentWinner'[at'[u]] \in Users
  BY DEF Plain, Sellers, Closing
<1>7. \A u \in Threads : at'[u] \in Ids /\ pc'[u] # "own" => creator'[at'[u]] \in Users
  <2>1. NULL \notin Ids
    BY DEF NULL, Ids
  <2> QED BY <2>1 DEF Plain, Sellers, HasSeller
<1> QED BY <1>3, <1>4, <1>5, <1>6, <1>7 DEF Sellers, HasSeller, Plain

LEMMA ListedIds == ASSUME TypeOK, NEW a, Listed(a) PROVE a \in Ids
<1>1. auctionsList \in Seq(Ids)
  BY DEF TypeOK
<1>2. \A i \in 1..Len(auctionsList) : auctionsList[i] \in Ids
  BY <1>1
<1> QED BY <1>2, ListedNow DEF ListMeans

(* The other steps inside closeAuction. *)
Paying(t) == CloseCharge(t) \/ ClosePay(t) \/ CloseRemove(t)

LEMMA ClosePlain ==
  ASSUME TypeOK, NEW t \in Threads, CloseAuction(t) \/ VAuctions(t)
  PROVE  Plain(t) \/ Paying(t)
<1> USE DEF Plain, Paying, TypeOK, Go, Owing, Closing, Fresh, Walking,
       users, auctions, list, sems, work, details, standing, watching
<1>1. CASE ClosePCharge(t) BY <1>1 DEF ClosePCharge, PUsers
<1>2. CASE ClosePPay(t)    BY <1>2 DEF ClosePPay, PUsers
<1>3. CASE CloseNotify(t)  BY <1>3 DEF CloseNotify
<1>4. CASE CloseAbsent(t)  BY <1>4 DEF CloseAbsent, Crash
<1>5. CASE VAuctions(t)    BY <1>5 DEF VAuctions
<1> QED BY <1>1, <1>2, <1>3, <1>4, <1>5 DEF CloseAuction

LEMMA JobPlain ==
  ASSUME TypeOK, NEW t \in JobThreads, TakeRequest(t) \/ ProcessJob(t)
  PROVE  \/ Plain(t) \/ Paying(t)
         \/ CreateOwn(t) \/ CreateList(t) \/ BidRaise(t) \/ BidBuyNow(t)
<1> USE DEF Plain, TypeOK, Go, Owing, Closing, Fresh, Walking, Handling,
       users, auctions, list, sems, work, details, standing, watching
<1>1. t \in Threads /\ t # Tick
  BY AuctionServerAssumption DEF Threads
<1>2. CASE TakeRequest(t)      BY <1>1, <1>2 DEF TakeRequest
<1>3. CASE PAuctions(t)        BY <1>1, <1>3 DEF PAuctions
<1>4. CASE ListAuctions(t)     BY <1>1, <1>4 DEF ListAuctions
<1>5. CASE CreateInvalid(t)    BY <1>1, <1>5 DEF CreateInvalid
<1>6. CASE CreateTakeId(t)     BY <1>1, <1>6 DEF CreateTakeId
<1>7. CASE CreateOwnFill(t)    BY <1>1, <1>7 DEF CreateOwnFill
<1>8. CASE CreateListFill(t)   BY <1>1, <1>8 DEF CreateListFill
<1>9. CASE WatchAuction(t)     BY <1>1, <1>9 DEF WatchAuction
<1>10. CASE LeaveAuction(t)     BY <1>1, <1>10 DEF LeaveAuction
<1>11. CASE LeaveNotWatching(t) \/ QueryWild(t)
  BY <1>1, <1>11 DEF LeaveNotWatching, QueryWild, Crash
<1>12. CASE BidNotFound(t)     BY <1>1, <1>12 DEF BidNotFound
<1>13. CASE BidDenied(t)       BY <1>1, <1>13 DEF BidDenied
<1>14. CASE BidLow(t)          BY <1>1, <1>14 DEF BidLow
<1>15. CASE BidUpdate(t)       BY <1>1, <1>15 DEF BidUpdate
<1>16. CASE QueryPUsers(t)     BY <1>1, <1>16 DEF QueryPUsers, PUsers
<1>17. CASE Query(t)           BY <1>1, <1>17 DEF Query
<1>18. CASE QueryVUsers(t)     BY <1>1, <1>18 DEF QueryVUsers
<1>19. CASE CloseAuction(t) \/ VAuctions(t)
  BY <1>1, <1>19, ClosePlain
<1> QED BY <1>2, <1>3, <1>4, <1>5, <1>6, <1>7, <1>8, <1>9, <1>10, <1>11, <1>12, <1>13, <1>14,
           <1>15, <1>16, <1>17, <1>18, <1>19
        DEF ProcessJob, Create, Bid, UsersRequest

(* The tick thread only ever reaches auctions that have been listed. *)
LEMMA TickPlain ==
  ASSUME TypeOK, InHand, OrderInv, Sellers, RunTick
  PROVE  Plain(Tick) \/ Paying(Tick) \/ TickPAuctions
<1> USE DEF Plain, TypeOK, Go, Owing, Closing, Fresh, Walking,
       users, auctions, list, sems, work, details, standing, watching
<1>1. Tick \in Threads
  BY DEF Threads
<1>2. CASE TickStart
  <2>1. Listed(Head(auctionsList)) /\ Head(auctionsList) \in Ids
    BY <1>2, ListedKnown DEF TickStart
  <2> QED BY <1>1, <1>2, <2>1 DEF TickStart, Sellers
<1>3. CASE TickVisit     BY <1>1, <1>3 DEF TickVisit
<1>4. CASE TickAdvance
  <2> DEFINE a == at[Tick]
             next == IF Listed(a) THEN NextNode(a) ELSE freedNext[a]
  <2>1. a \in Ids
    BY <1>1, <1>4 DEF TickAdvance, InHand
  <2>2. at' = [at EXCEPT ![Tick] = next] /\ at'[Tick] = next
    BY <1>1, <1>4 DEF TickAdvance
  <2>3. next = NULL \/ HasSeller(next)
    <3>1. CASE Listed(a)
      <4>1. NextNode(a) = NULL \/ Listed(NextNode(a))
        BY <3>1, ListedKnown
      <4>2. Listed(NextNode(a)) => NextNode(a) \in Ids
        BY ListedIds
      <4> QED BY <3>1, <4>1, <4>2 DEF Sellers
    <3>2. CASE ~Listed(a)
      BY <2>1, <3>2 DEF Sellers
    <3> QED BY <3>1, <3>2
  <2>4. /\ pc[Tick] = "advance" /\ pc'[Tick] \in {"idle", "visit"}
        /\ pc'[Tick] = "visit" => next # NULL
    BY <1>1, <1>4 DEF TickAdvance
  <2>5. next = NULL \/ Listed(next) \/ ~Listed(a)
    BY ListedKnown
  <2> HIDE DEF next
  <2> QED BY <1>1, <1>4, <2>2, <2>3, <2>4, <2>5 DEF TickAdvance
<1>5. CASE TickWild      BY <1>1, <1>5 DEF TickWild, Crash
<1>6. CASE TickCutShort  BY <1>1, <1>6 DEF TickCutShort
<1>7. CASE CloseAuction(Tick) \/ VAuctions(Tick)
  BY <1>1, <1>7, ClosePlain
<1> QED BY <1>2, <1>3, <1>4, <1>5, <1>6, <1>7 DEF RunTick
-------------------------------------------------------------------------------
LEMMA Sums ==
  ASSUME TypeOK
  PROVE  /\ IsFiniteSet(Users) /\ \A u \in Users : balance[u] \in Int
         /\ Total(balance, Users) \in Int
         /\ \A a \in Ids : bid[a] \in Int
<1>1. /\ IsFiniteSet(Users) /\ \A u \in Users : balance[u] \in Int
      /\ \A a \in Ids : bid[a] \in Int
  BY AuctionServerAssumption DEF TypeOK
<1> QED BY <1>1, TotalTyped

(* A payment or a charge changes the sum of the balances by as much. *)
LEMMA Transfer ==
  ASSUME TypeOK, NEW u \in Users, NEW n \in Int, balance' = [balance EXCEPT ![u] = @ + n]
  PROVE  Total(balance', Users) = Total(balance, Users) + n
<1>1. /\ balance'[u] = balance[u] + n /\ \A x \in Users : balance'[x] \in Int
      /\ \A x \in Users : x # u => balance'[x] = balance[x]
  BY DEF TypeOK
<1>2. Total(balance', Users) = Total(balance, Users) + (balance'[u] - balance[u])
  <2> DEFINE g == balance'
  <2>1. \A x \in Users : balance[x] \in Int /\ g[x] \in Int
    BY <1>1, Sums
  <2>2. \A x \in Users : x # u => g[x] = balance[x]
    BY <1>1
  <2> HIDE DEF g
  <2>3. Total(g, Users) = Total(balance, Users) + (g[u] - balance[u])
    BY <2>1, <2>2, Sums, TotalChanged
  <2> QED BY <2>3 DEF g
<1> QED BY <1>1, <1>2, Sums

LEMMA ChargeMoves ==
  ASSUME TypeOK, TypeOK', InHand, LocksExclusive, Sellers, MoneyInv,
         NEW t \in Threads, CloseCharge(t), Others(t)
  PROVE  Sellers' /\ MoneyInv'
<1> DEFINE a == at[t]
           winner == currentWinner[a]
<1>1. /\ pc[t] = "charge" /\ pc'[t] = "P_pay" /\ at' = at
      /\ balance' = [balance EXCEPT ![winner] = @ - bid[a]]
      /\ UNCHANGED <<auctions, list>>
  BY DEF CloseCharge, Go, TypeOK, work
<1>2. winner \in Users /\ a \in Ids
  BY <1>1 DEF Sellers, InHand, Closing
<1>3. \A u \in Threads \ {t} : pc[u] \notin Owing /\ pc[u] \notin {"P_charge", "charge", "own"}
  BY <1>1, HoldsAlone DEF Owing, Closing, Fresh, HoldsAuctions
<1>4. /\ Total(balance, Users) = 0 /\ -bid[a] \in Int /\ bid[a] \in Int
      /\ \A x \in Users : balance[x] - bid[a] = balance[x] + (-bid[a])
  BY <1>1, <1>2, <1>3, Sums DEF MoneyInv, Owing
<1>5. Total(balance', Users) = Total(balance, Users) + (-bid[a])
  BY <1>1, <1>2, <1>4, Transfer DEF TypeOK
<1>6. \A u \in Threads : pc'[u] \in Owing => u = t
  BY <1>3 DEF Others
<1>7. bid' = bid /\ at'[t] = a
  BY <1>1 DEF auctions, standing
<1>8. MoneyInv'
  BY <1>1, <1>4, <1>5, <1>6, <1>7 DEF MoneyInv, Owing
<1>9. Sellers'
  BY <1>1, <1>3 DEF Sellers, HasSeller, Others, auctions, details, standing, list, Listed
<1> QED BY <1>8, <1>9

LEMMA PayMoves ==
  ASSUME TypeOK, TypeOK', InHand, LocksExclusive, Sellers, MoneyInv,
         NEW t \in Threads, ClosePay(t), Others(t)
  PROVE  Sellers' /\ MoneyInv'
<1> DEFINE a == at[t]
<1>1. /\ pc[t] = "pay" /\ pc'[t] = "notify" /\ at' = at
      /\ balance' = [balance EXCEPT ![creator[a]] = @ + bid[a]]
      /\ UNCHANGED <<auctions, list>>
  BY DEF ClosePay, Go, TypeOK, work
<1>2. creator[a] \in Users /\ a \in Ids
  BY <1>1 DEF Sellers, HasSeller, InHand, Closing
<1>3. \A u \in Threads \ {t} : pc[u] \notin Owing /\ pc[u] \notin {"P_charge", "charge", "own"}
  BY <1>1, HoldsAlone DEF Owing, Closing, Fresh, HoldsAuctions
<1>4. Total(balance, Users) + bid[a] = 0 /\ bid[a] \in Int
  BY <1>1, <1>2, Sums DEF MoneyInv, Owing
<1>5. Total(balance', Users) = Total(balance, Users) + bid[a]
  BY <1>1, <1>2, <1>4, Transfer
<1>6. \A u \in Threads : pc'[u] \notin Owing
  BY <1>1, <1>3 DEF Others, Owing
<1>7. MoneyInv'
  BY <1>4, <1>5, <1>6 DEF MoneyInv
<1>8. Sellers'
  BY <1>1, <1>3 DEF Sellers, HasSeller, Others, auctions, details, standing, list, Listed
<1> QED BY <1>7, <1>8

(* The other steps leave the balances alone. *)
LEMMA MoneyKeeps ==
  ASSUME MoneyInv, UNCHANGED balance,
         \A u \in Threads : pc'[u] \in Owing <=> pc[u] \in Owing,
         \A u \in Threads : pc[u] \in Owing => at'[u] = at[u] /\ bid'[at[u]] = bid[at[u]]
  PROVE  MoneyInv'
BY DEF MoneyInv

LEMMA CreateOwnMoves ==
  ASSUME TypeOK, TypeOK', InHand, LocksExclusive, Sellers, MoneyInv,
         NEW t \in JobThreads, CreateOwn(t), Others(t)
  PROVE  Sellers' /\ MoneyInv'
<1> DEFINE a == at[t]
           u == req[t].user
<1>1. /\ t \in Threads /\ pc[t] = "own" /\ pc'[t] \in {"list", "ownFill"} /\ at' = at
      /\ creator' = [creator EXCEPT ![a] = u]
      /\ UNCHANGED <<balance, standing, list>>
  BY DEF CreateOwn, Go, TypeOK, work, Threads
<1>2. a \in Ids /\ u \in Users
  BY <1>1, RequestFields DEF InHand, Creation
<1>3. \A b : HasSeller(b) /\ b \in Ids => HasSeller(b)'
  BY <1>1, <1>2 DEF HasSeller, TypeOK
<1>4. HasSeller(a)'
  BY <1>1, <1>2 DEF HasSeller, TypeOK
<1>5. Sellers'
  <2>1. \A x \in Threads : at'[x] \in Ids /\ pc'[x] # "own" => HasSeller(at[x])'
    BY <1>1, <1>3, <1>4 DEF Sellers, Others
  <2>2. \A b \in Ids : Listed(b)' => HasSeller(b)'
    BY <1>1, <1>3 DEF Sellers, list, Listed
  <2>3. \A b \in Ids : freedNext'[b] \in Ids => HasSeller(freedNext[b])'
    BY <1>1, <1>3 DEF Sellers, list
  <2>4. \A x \in Threads : pc'[x] \in {"P_charge", "charge"} => currentWinner'[at'[x]] \in Users
    BY <1>1 DEF Sellers, Others, standing
  <2> QED BY <1>1, <2>1, <2>2, <2>3, <2>4 DEF Sellers, HasSeller, standing, list
<1>6. MoneyInv'
  BY <1>1, MoneyKeeps DEF Others, Owing, standing
<1> QED BY <1>5, <1>6

LEMMA CreateListMoves ==
  ASSUME TypeOK, TypeOK', InHand, LocksExclusive, Sellers, MoneyInv,
         NEW t \in JobThreads, CreateList(t), Others(t)
  PROVE  Sellers' /\ MoneyInv'
<1>1. /\ t \in Threads /\ pc[t] = "list" /\ pc'[t] \in {"V_auctions", "listFill"} /\ at' = at
      /\ auctionsList' = Append(auctionsList, at[t])
      /\ UNCHANGED <<balance, creator, standing, freedNext>>
  BY DEF CreateList, Go, TypeOK, Threads, users, auctions, details
<1>2. at[t] \in Ids /\ HasSeller(at[t])
  BY <1>1 DEF Sellers, InHand, Creation
<1>3. \A b : Listed(b)' => Listed(b) \/ b = at[t]
  <2>1. auctionsList \in Seq(Ids)
    BY DEF TypeOK
  <2>2. \A i \in 1..Len(auctionsList') :
          auctionsList'[i] = at[t] \/ \E j \in 1..Len(auctionsList) : auctionsList'[i] = auctionsList[j]
    BY <1>1, <2>1
  <2> QED BY <2>2, ListedNow, ListedNext DEF ListMeans
<1>4. Sellers'
  BY <1>1, <1>2, <1>3 DEF Sellers, HasSeller, Others, standing
<1>5. MoneyInv'
  BY <1>1, MoneyKeeps DEF Others, Owing, standing
<1> QED BY <1>4, <1>5

LEMMA BidMoves ==
  ASSUME TypeOK, TypeOK', InHand, LocksExclusive, Sellers, MoneyInv,
         NEW t \in JobThreads, BidRaise(t) \/ BidBuyNow(t), Others(t)
  PROVE  Sellers' /\ MoneyInv'
<1> DEFINE a == req[t].id
           u == req[t].user
<1>1. /\ t \in Threads /\ pc[t] = "handle" /\ pc'[t] \in {"update", "P_charge"}
      /\ at' = [at EXCEPT ![t] = a] /\ at'[t] = a
      /\ bid' = [bid EXCEPT ![a] = req[t].bid]
      /\ currentWinner' = [currentWinner EXCEPT ![a] = u]
      /\ Listed(a) /\ UNCHANGED <<balance, creator, list>>
  BY DEF BidRaise, BidBuyNow, TakeBid, MayBid, Go, TypeOK, Threads, users, details
<1>2. a \in Ids /\ u \in Users /\ u # NoUser
  <2>1. req[t].kind = "ANBID" /\ req[t] \in Requests
    BY <1>1 DEF BidRaise, BidBuyNow, InHand
  <2> QED BY <2>1, RequestFields, AuctionServerAssumption
<1>3. \A x \in Threads \ {t} : pc[x] \notin Owing /\ pc[x] \notin {"P_charge", "charge", "own"}
  BY <1>1, HoldsAlone DEF Owing, Closing, Fresh, HoldsAuctions
<1>4. Sellers'
  <2>1. HasSeller(a)
    BY <1>1, <1>2 DEF Sellers
  <2>2. \A x \in Threads : at'[x] \in Ids /\ pc'[x] # "own" => HasSeller(at'[x])
    BY <1>1, <1>3, <2>1 DEF Sellers, Others
  <2>3. \A b \in Ids : currentWinner'[b] = NoUser => bid'[b] = 0
    BY <1>1, <1>2 DEF Sellers, TypeOK
  <2>4. currentWinner'[at'[t]] \in Users
    BY <1>1, <1>2 DEF TypeOK
  <2>5. \A x \in Threads : pc'[x] \in {"P_charge", "charge"} => currentWinner'[at'[x]] \in Users
    BY <1>3, <2>4 DEF Others
  <2> QED BY <1>1, <2>2, <2>3, <2>5 DEF Sellers, HasSeller, list, Listed
<1>5. MoneyInv'
  BY <1>1, <1>3, MoneyKeeps DEF Others, Owing
<1> QED BY <1>4, <1>5

LEMMA RemoveMoves ==
  ASSUME TypeOK, TypeOK', InHand, OrderInv, LocksExclusive, Sellers, MoneyInv,
         NEW t \in Threads, CloseRemove(t), Others(t)
  PROVE  Sellers' /\ MoneyInv'
<1> DEFINE a == at[t]
<1>1. /\ pc[t] = "remove" /\ pc'[t] = "V_auctions" /\ at' = at /\ Listed(a)
      /\ freedNext' = [freedNext EXCEPT ![a] = NextNode(a)]
      /\ auctionsList' = RemoveAt(auctionsList, IndexOf(auctionsList, a))
      /\ UNCHANGED <<balance, creator, standing>>
  BY DEF CloseRemove, Go, TypeOK, work, users, auctions, details
<1>2. NextNode(a) \in Ids => HasSeller(NextNode(a))
  <2>1. NULL \notin Ids
    BY DEF NULL, Ids
  <2> QED BY <1>1, <2>1, ListedKnown DEF Sellers
<1>3. \A b : Listed(b)' => Listed(b)
  BY RemoveKeepsOrder
<1>4. Sellers'
  <2>1. \A b \in Ids : freedNext'[b] \in Ids => HasSeller(freedNext'[b])
    BY <1>1, <1>2 DEF Sellers, TypeOK
  <2> QED BY <1>1, <1>3, <2>1 DEF Sellers, HasSeller, Others, standing
<1>5. MoneyInv'
  BY <1>1, MoneyKeeps DEF Others, Owing, standing
<1> QED BY <1>4, <1>5

LEMMA TickLockMoves ==
  ASSUME TypeOK, TypeOK', InHand, LocksExclusive, LocksExclusive', Sellers, MoneyInv,
         TickPAuctions, Others(Tick)
  PROVE  Sellers' /\ MoneyInv'
<1> DEFINE a == at[Tick]
<1>1. /\ Tick \in Threads /\ pc[Tick] = "P_auctions" /\ at' = at
      /\ pc'[Tick] = IF currentWinner[a] = NoUser THEN "P_pay" ELSE "P_charge"
      /\ UNCHANGED <<balance, creator, standing, list>>
  BY DEF TickPAuctions, Go, TypeOK, work, users, auctions, details, Threads
<1>2. a \in Ids /\ currentWinner[a] \in Users \cup {NoUser}
  BY <1>1 DEF InHand, TypeOK
<1>3. \A u \in Threads : pc[u] \notin Owing
  <2>1. \A u \in Threads \ {Tick} : pc'[u] \notin Owing
    BY <1>1 DEF LocksExclusive, Guards, At, HoldsAuctions, Closing, Owing
  <2> QED BY <1>1, <2>1 DEF Others, Owing
<1>4. Sellers'
  BY <1>1, <1>2 DEF Sellers, HasSeller, Others, standing, list, Listed
<1>5. MoneyInv'
  <2>1. Total(balance', Users) = 0
    BY <1>1, <1>3 DEF MoneyInv
  <2>2. pc'[Tick] \in Owing => bid'[a] = 0
    BY <1>1, <1>2 DEF Sellers, Owing, standing
  <2>3. \A u \in Threads : pc'[u] \in Owing => u = Tick
    BY <1>3 DEF Others
  <2> QED BY <1>1, <2>1, <2>2, <2>3 DEF MoneyInv
<1> QED BY <1>4, <1>5

LEMMA StepMoney ==
  ASSUME TypeOK, TypeOK', InHand, OrderInv, LocksExclusive, LocksExclusive', Sellers,
         MoneyInv, [Next]_vars
  PROVE  Sellers' /\ MoneyInv'
<1>1. CASE UNCHANGED vars
  BY <1>1 DEF vars, users, auctions, details, standing, list, work, Sellers, HasSeller,
     MoneyInv, Listed
<1>2. ASSUME NEW t \in JobThreads, TakeRequest(t) \/ ProcessJob(t), Others(t)
      PROVE  Sellers' /\ MoneyInv'
  <2>1. t \in Threads /\ t # Tick
    BY AuctionServerAssumption DEF Threads
  <2>2. CASE CreateOwn(t)   BY <1>2, <2>2, CreateOwnMoves
  <2>3. CASE CreateList(t)  BY <1>2, <2>3, CreateListMoves
  <2>4. CASE BidRaise(t) \/ BidBuyNow(t) BY <1>2, <2>4, BidMoves
  <2>5. CASE Paying(t)      BY <1>2, <2>1, <2>5, ChargeMoves, PayMoves, RemoveMoves DEF Paying
  <2> QED BY <1>2, <2>1, <2>2, <2>3, <2>4, <2>5, JobPlain, PlainKeeps
<1>3. CASE RunTick /\ Others(Tick)
  <2>1. Tick \in Threads
    BY DEF Threads
  <2>2. CASE Paying(Tick)   BY <1>3, <2>1, <2>2, ChargeMoves, PayMoves, RemoveMoves DEF Paying
  <2>3. CASE TickPAuctions  BY <1>3, <2>3, TickLockMoves
  <2> QED BY <1>3, <2>1, <2>2, <2>3, TickPlain, PlainKeeps
<1> QED BY <1>1, <1>2, <1>3, StepOthers

LEMMA InitMoney == Init => Sellers /\ MoneyInv
<1> SUFFICES ASSUME Init PROVE Sellers /\ MoneyInv
  OBVIOUS
<1>1. TypeOK
  BY InitTyped
<1>2. \A a : ~Listed(a)
  BY <1>1, ListedNow DEF ListMeans, Init
<1>3. Sellers
  BY <1>2 DEF Init, Sellers, NULL, Ids
<1>4. Total(balance, Users) = 0
  BY AuctionServerAssumption, TotalOfZeros DEF Init
<1>5. MoneyInv
  BY <1>4 DEF Init, MoneyInv, Owing
<1> QED BY <1>3, <1>5

LEMMA SellersHold == Spec => [](Sellers /\ MoneyInv)
<1>1. /\ TypeOK /\ TypeOK' /\ InHand /\ OrderInv /\ LocksExclusive /\ LocksExclusive'
      /\ Sellers /\ MoneyInv /\ [Next]_vars
      => Sellers' /\ MoneyInv'
  BY StepMoney
<1> QED BY <1>1, InitMoney, TypedInHand, MutualExclusion, OrderHolds, PTL DEF Spec

(* The sums of MoneyConserved: one thread at most has money to hand on. *)
LEMMA MoneyAdds ==
  ASSUME TypeOK, InHand, LocksExclusive, MoneyInv
  PROVE  MoneyConserved
<1> DEFINE InFlight == {t \in Threads : pc[t] \in {"P_pay", "pay"}}
<1>1. Sum(LAMBDA u : balance[u], Users) = Total(balance, Users)
  BY DEF Sum, Total
<1>2. Sum(LAMBDA t : bid[at[t]], InFlight) = TotalOver(bid, at, InFlight)
  BY DEF Sum, TotalOver
<1>3. Total(balance, Users) + TotalOver(bid, at, InFlight) = 0
  <2> DEFINE owed == [t \in InFlight |-> bid[at[t]]]
  <2>1. CASE InFlight = {}
    <3>1. TotalOver(bid, at, InFlight) = 0
      BY <2>1, TotalOverIs, TotalOfNone, FS_EmptySet
    <3>2. Total(balance, Users) = 0
      BY <2>1 DEF MoneyInv, Owing
    <3> QED BY <3>1, <3>2
  <2>2. ASSUME NEW t \in InFlight PROVE Total(balance, Users) + TotalOver(bid, at, InFlight) = 0
    <3>1. InFlight = {t}
      BY <2>2 DEF LocksExclusive, Guards, At, HoldsAuctions, Closing
    <3>2. at[t] \in Ids /\ bid[at[t]] \in Int
      BY Sums DEF InHand, Closing
    <3>3. owed[t] = bid[at[t]] /\ IsFiniteSet({t})
      BY <2>2, FS_Singleton
    <3> HIDE DEF owed
    <3>4. Total(owed, {t}) = bid[at[t]]
      <4>1. Total(owed, {t}) = owed[t] + Total(owed, {t} \ {t})
        BY <3>2, <3>3, TotalWithout
      <4> QED BY <3>2, <3>3, <4>1, TotalOfNone
    <3>5. TotalOver(bid, at, InFlight) = bid[at[t]]
      BY <3>1, <3>3, <3>4, TotalOverIs DEF owed
    <3>6. Total(balance, Users) + bid[at[t]] = 0
      BY DEF MoneyInv, Owing
    <3> QED BY <3>5, <3>6
  <2> QED BY <2>1, <2>2
<1> QED BY <1>1, <1>2, <1>3 DEF MoneyConserved

(* Money is neither made nor lost: over any number of users, what the      *)
(* winners have been charged is what the creators have been paid, up to    *)
(* the bid that the one thread inside closeAuction still has to pay out.   *)
THEOREM MoneyStays == Spec => []MoneyConserved
<1>1. TypeOK /\ InHand /\ LocksExclusive /\ MoneyInv => MoneyConserved
  BY MoneyAdds
<1> QED BY <1>1, SellersHold, TypedInHand, MutualExclusion, PTL
-------------------------------------------------------------------------------
(* Without buy-now prices (and createAuction refuses those below 0) the    *)
(* tick thread alone closes auctions, and what it has in hand does not     *)
(* leave the list before it has closed it.  With them the promise of       *)
(* AuctionHouse is broken: two threads may close one auction.              *)
NoBuyNow == \A p \in Prices : p <= 0

OneCloser ==
  /\ \A a \in Ids : bin_price[a] = 0
  /\ \A t \in JobThreads : pc[t] \notin Closing
  /\ pc[Tick] \in Walking => Listed(at[Tick])

LEMMA PlainOneCloser ==
  ASSUME NoBuyNow, TypeOK, TypeOK', InHand, OneCloser, NEW t \in Threads, Plain(t)
  PROVE  OneCloser'
<1>1. \A a : Listed(a)' <=> Listed(a)
  BY DEF Listed, Plain
<1>2. \A a \in Ids : bin_price'[a] = 0
  <2>1. CASE UNCHANGED bin_price
    BY <2>1 DEF OneCloser
  <2>2. CASE t \in JobThreads /\ CreateTakeId(t)
    <3>1. /\ pc[t] = "handle" /\ req[t].kind = "ANCREATE" /\ ~InvalidArgs(req[t])
          /\ bin_price' = [bin_price EXCEPT ![auctionID + 1] = req[t].price]
      BY <2>2 DEF CreateTakeId, Go
    <3>2. req[t].price \in Prices
      BY <2>2, <3>1, RequestFields DEF InHand
    <3>3. req[t].price = 0
      <4>1. req[t].price \in Int /\ req[t].price <= 0
        BY <3>2, AuctionServerAssumption DEF NoBuyNow
      <4>2. ~(req[t].price < 0)
        BY <3>1 DEF InvalidArgs
      <4> QED BY <4>1, <4>2
    <3> QED BY <3>1, <3>3 DEF OneCloser, TypeOK
  <2> QED BY <2>1, <2>2 DEF Plain
<1>3. \A u \in JobThreads : pc'[u] \notin Closing
  BY DEF Plain, OneCloser, Threads
<1>4. ASSUME pc'[Tick] \in Walking PROVE Listed(at'[Tick])
  <2>1. CASE t = Tick
    BY <1>4, <2>1 DEF Plain, OneCloser
  <2>2. CASE t # Tick
    BY <1>4, <2>2 DEF Plain, OneCloser, Threads
  <2> QED BY <2>1, <2>2
<1> QED BY <1>1, <1>2, <1>3, <1>4 DEF OneCloser

(* All steps but the plain ones. *)
Telling(t) ==
  \/ t \in JobThreads /\ (CreateOwn(t) \/ CreateList(t) \/ BidRaise(t))
  \/ t = Tick /\ (TickPAuctions \/ CloseCharge(t) \/ ClosePay(t) \/ CloseRemove(t))

LEMMA PlainOrTelling ==
  ASSUME TypeOK, InHand, OrderInv, Sellers, OneCloser, [Next]_vars
  PROVE  \/ UNCHANGED vars
         \/ \E t \in Threads : Others(t) /\ (Plain(t) \/ Telling(t))
<1>1. ASSUME NEW t \in JobThreads, TakeRequest(t) \/ ProcessJob(t) PROVE Plain(t) \/ Telling(t)
  <2>1. ~Paying(t)
    BY DEF Paying, CloseCharge, ClosePay, CloseRemove, Go, OneCloser, Closing
  <2>2. ~BidBuyNow(t)
    <3> SUFFICES ASSUME BidBuyNow(t) PROVE FALSE
      OBVIOUS
    <3>1. Listed(req[t].id) /\ bin_price[req[t].id] # 0
      BY DEF BidBuyNow, MayBid, BuysNow, BinFlag
    <3> QED BY <3>1, ListedIds DEF OneCloser
  <2> QED BY <1>1, <2>1, <2>2, JobPlain DEF Telling
<1>2. RunTick => Plain(Tick) \/ Telling(Tick)
  BY TickPlain DEF Telling, Paying
<1> QED BY <1>1, <1>2, StepOthers DEF Threads

LEMMA TellingOneCloser ==
  ASSUME TypeOK, TypeOK', OrderInv, OneCloser, NEW t \in Threads, Telling(t), Others(t)
  PROVE  OneCloser'
<1>1. bin_price' = bin_price
  BY DEF Telling, CreateOwn, CreateList, BidRaise, TakeBid, TickPAuctions, CloseCharge, ClosePay,
     CloseRemove, auctions, details
<1>2. CASE t \in JobThreads
  <2>1. t # Tick /\ pc'[t] \notin Closing /\ pc'[Tick] = pc[Tick] /\ at'[Tick] = at[Tick]
    <3>1. t # Tick /\ Tick \in Threads
      BY <1>2, AuctionServerAssumption DEF Threads
    <3>2. pc'[Tick] = pc[Tick] /\ at'[Tick] = at[Tick]
      BY <3>1 DEF Others
    <3>3. CreateOwn(t) \/ CreateList(t) \/ BidRaise(t)
      BY <3>1 DEF Telling
    <3>4. \E to \in {"list", "ownFill", "V_auctions", "listFill", "update"} :
            pc' = [pc EXCEPT ![t] = to]
      BY <3>3 DEF CreateOwn, CreateList, BidRaise, Go
    <3>5. pc'[t] \notin Closing
      BY <3>4 DEF TypeOK, Closing
    <3> QED BY <3>1, <3>2, <3>5
  <2>2. \A u \in JobThreads : pc'[u] \notin Closing
    BY <2>1 DEF OneCloser, Others, Threads
  <2>3. CASE UNCHANGED auctionsList
    BY <1>1, <2>1, <2>2, <2>3 DEF OneCloser, Listed
  <2>4. CASE CreateList(t)
    <3>1. auctionsList \in Seq(Ids) /\ at[t] \in Ids \cup {NULL}
          /\ auctionsList' = Append(auctionsList, at[t])
      BY <2>4 DEF CreateList, TypeOK
    <3>2. \A i \in 1..Len(auctionsList) : i \in 1..Len(auctionsList')
            /\ auctionsList'[i] = auctionsList[i]
      BY <3>1
    <3>3. \A b : Listed(b) => Listed(b)'
      BY <3>2, ListedNow, ListedNext DEF ListMeans
    <3> QED BY <1>1, <2>1, <2>2, <3>3 DEF OneCloser
  <2> QED BY <1>2, <2>1, <2>3, <2>4 DEF Telling, CreateOwn, BidRaise, TakeBid, list
<1>3. CASE t = Tick
  <2>1. \A u \in JobThreads : pc'[u] = pc[u]
    BY <1>3, AuctionServerAssumption DEF Others, Threads
  <2>2. CASE CloseRemove(t)
    <3>1. pc'[Tick] = "V_auctions"
      BY <1>3, <2>2 DEF CloseRemove, Go, TypeOK, Threads
    <3> QED BY <1>1, <2>1, <3>1 DEF OneCloser, Walking, Closing
  <2>3. CASE ~CloseRemove(t)
    <3>1. pc[Tick] \in Walking /\ at'[Tick] = at[Tick] /\ auctionsList' = auctionsList
      <4>1. TickPAuctions \/ CloseCharge(t) \/ ClosePay(t)
        BY <1>3, <2>3, AuctionServerAssumption DEF Telling
      <4> QED BY <1>3, <4>1
              DEF TickPAuctions, CloseCharge, ClosePay, Go, Walking, Closing, list, work
    <3> QED BY <1>1, <2>1, <3>1 DEF OneCloser, Listed
  <2> QED BY <2>2, <2>3
<1> QED BY <1>2, <1>3 DEF Threads

LEMMA InitOneCloser == Init => OneCloser
<1> SUFFICES ASSUME Init PROVE OneCloser
  OBVIOUS
<1> QED BY DEF Init, OneCloser, Closing, Walking, Threads

LEMMA StepOneCloser ==
  ASSUME NoBuyNow, TypeOK, TypeOK', InHand, OrderInv, Sellers, OneCloser, [Next]_vars
  PROVE  OneCloser'
<1>1. CASE UNCHANGED vars
  BY <1>1 DEF vars, auctions, details, list, work, OneCloser, Listed
<1> QED BY <1>1, PlainOrTelling, PlainOneCloser, TellingOneCloser
-------------------------------------------------------------------------------
(* What the phases of the auctions are, as nobody but the tick thread is   *)
(* ever between the charge of a winner and the removal.                    *)
Stage(a) ==
  IF ~Inserted(a) THEN "none"
  ELSE IF pc[Tick] \in Owing /\ at[Tick] = a THEN "charged"
  ELSE IF ~Listed(a) \/ (pc[Tick] \in {"notify", "remove"} /\ at[Tick] = a) THEN "settled"
  ELSE "open"

LEMMA ListedInserted ==
  ASSUME TypeOK, OrderInv, NEW a, Listed(a)
  PROVE  Inserted(a)
<1>1. a <= auctionID
  BY ListedKnown
<1>2. ASSUME NEW t \in JobThreads, pc[t] \in Fresh PROVE at[t] # a
  <2>1. PICK i \in 1..Len(auctionsList) : auctionsList[i] = a
    BY ListedNow DEF ListMeans
  <2>2. auctionsList[i] < auctionID /\ at[t] = auctionID /\ auctionID \in Nat
    BY <1>2 DEF OrderInv, NewestLast, TypeOK
  <2> QED BY <2>1, <2>2
<1> QED BY <1>1, <1>2 DEF Inserted, Fresh

LEMMA PhaseIs ==
  ASSUME TypeOK, OrderInv, OneCloser, NEW a \in Ids
  PROVE  /\ Phase(a) = Stage(a)
         /\ Paid(a) <=> Stage(a) = "settled"
<1>1. \A S : (\E t \in Threads : at[t] = a /\ pc[t] \in S) /\ S \subseteq Closing
               => pc[Tick] \in S /\ at[Tick] = a
  BY DEF Threads, OneCloser
<1>2. Owing \subseteq Closing /\ {"notify", "remove"} \subseteq Closing /\ Tick \in Threads
  BY DEF Owing, Closing, Threads
<1>3. /\ (\E t \in Threads : at[t] = a /\ pc[t] \in Owing) <=> pc[Tick] \in Owing /\ at[Tick] = a
      /\ (\E t \in Threads : at[t] = a /\ pc[t] \in {"notify", "remove"})
           <=> pc[Tick] \in {"notify", "remove"} /\ at[Tick] = a
  BY <1>1, <1>2
<1>4. pc[Tick] \in Closing /\ at[Tick] = a => Listed(a) /\ Inserted(a)
  BY ListedInserted DEF OneCloser, Walking
<1>5. Paid(a) <=> Inserted(a) /\ (~Listed(a) \/ (pc[Tick] \in {"notify", "remove"} /\ at[Tick] = a))
  BY <1>3 DEF Paid
<1>6. pc[Tick] \in Owing => pc[Tick] \notin {"notify", "remove"} /\ pc[Tick] \in Closing
  BY DEF Owing, Closing
<1>7. Paid(a) <=> Stage(a) = "settled"
  BY <1>4, <1>5, <1>6 DEF Stage
<1>8. Phase(a) = Stage(a)
  <2>1. CASE ~Inserted(a)
    BY <1>3, <1>4, <1>5, <1>6, <2>1 DEF Phase, Stage, Owing
  <2>2. CASE Inserted(a) /\ pc[Tick] \in Owing /\ at[Tick] = a
    BY <1>3, <1>4, <1>5, <1>6, <2>2 DEF Phase, Stage, Owing
  <2>3. CASE Inserted(a) /\ ~(pc[Tick] \in Owing /\ at[Tick] = a) /\ Paid(a)
    BY <1>3, <1>4, <1>5, <1>6, <2>3 DEF Phase, Stage, Owing
  <2>4. CASE Inserted(a) /\ ~(pc[Tick] \in Owing /\ at[Tick] = a) /\ ~Paid(a)
    BY <1>3, <1>4, <1>5, <1>6, <2>4 DEF Phase, Stage, Owing
  <2> QED BY <2>1, <2>2, <2>3, <2>4
<1> QED BY <1>7, <1>8

Stages == \A a \in Ids : Phase(a) = Stage(a) /\ (Paid(a) <=> Stage(a) = "settled")
LEMMA StagesNow == ASSUME TypeOK, OrderInv, OneCloser PROVE Stages
  BY PhaseIs DEF Stages

LEMMA StagesNext == ASSUME TypeOK', OrderInv', OneCloser' PROVE Stages'
<1>1. (TypeOK /\ OrderInv /\ OneCloser => Stages)'
  BY StagesNow, PTL
<1> QED BY <1>1
-------------------------------------------------------------------------------
(* Nothing happens to auction a; or it moves on, and nothing happens to    *)
(* the others.                                                             *)
Steady(a) ==
  /\ Stage(a)' = Stage(a) /\ (Inserted(a)' <=> Inserted(a))
  /\ Inserted(a) => creator'[a] = creator[a]
MovesOn(a, from, to) ==
  /\ Stage(a) = from /\ Stage(a)' = to /\ Inserted(a)'
  /\ \A b \in Ids \ {a} : Steady(b)

LEMMA PlainInserted ==
  ASSUME TypeOK, TypeOK', NEW t \in Threads, Plain(t), NEW a \in Ids
  PROVE  Inserted(a)' <=> Inserted(a)
<1>1. CASE UNCHANGED auctionID /\ (pc'[t] \in Fresh <=> pc[t] \in Fresh)
  BY <1>1 DEF Plain, Inserted, Fresh, Threads
<1>2. CASE t \in JobThreads /\ CreateTakeId(t)
  <2>1. /\ auctionID \in Nat /\ a \in Nat
        /\ pc[t] = "handle" /\ pc'[t] \in Fresh /\ auctionID' = auctionID + 1
        /\ at'[t] = auctionID + 1
    BY <1>2 DEF CreateTakeId, Go, TypeOK, Fresh, Ids
  <2>2. \A u \in JobThreads \ {t} : pc'[u] = pc[u] /\ at'[u] = at[u]
    BY DEF Plain, Threads
  <2>3. CASE a = auctionID + 1
    BY <1>2, <2>1, <2>3 DEF Inserted, Fresh
  <2>4. CASE a # auctionID + 1
    <3>1. a <= auctionID <=> a <= auctionID'
      BY <2>1, <2>4
    <3>2. \A u \in JobThreads :
            (at'[u] = a /\ pc'[u] \in Fresh) <=> (at[u] = a /\ pc[u] \in Fresh)
      BY <2>1, <2>2, <2>4 DEF Fresh
    <3> QED BY <3>1, <3>2 DEF Inserted, Fresh
  <2> QED BY <2>3, <2>4
<1> QED BY <1>1, <1>2 DEF Plain

LEMMA PlainSteady ==
  ASSUME TypeOK, TypeOK', NEW t \in Threads, Plain(t), NEW a \in Ids
  PROVE  Steady(a)
<1>1. Inserted(a)' <=> Inserted(a)
  BY PlainInserted
<1>2. Listed(a)' <=> Listed(a)
  BY DEF Listed, Plain
<1>3. \A S \in {Owing, {"notify", "remove"}} :
        (pc'[Tick] \in S /\ at'[Tick] = a) <=> (pc[Tick] \in S /\ at[Tick] = a)
  <2>1. CASE t = Tick
    <3>1. pc[Tick] \in Closing => at'[Tick] = at[Tick]
      BY <2>1 DEF Plain
    <3> QED BY <2>1, <3>1 DEF Plain, Owing, Closing
  <2>2. CASE t # Tick
    BY <2>2 DEF Plain, Threads
  <2> QED BY <2>1, <2>2
<1> QED BY <1>1, <1>2, <1>3 DEF Steady, Stage, Plain

Inserts == \A a : Listed(a) => Inserted(a)
LEMMA InsertedNow == ASSUME TypeOK, OrderInv PROVE Inserts
  BY ListedInserted DEF Inserts

LEMMA InsertedNext == ASSUME TypeOK', OrderInv' PROVE Inserts'
<1>1. (TypeOK /\ OrderInv => Inserts)'
  BY InsertedNow, PTL
<1> QED BY <1>1

(* What a step of a job thread on the list or on the bids leaves alone. *)
LEMMA JobSteady ==
  ASSUME TypeOK, NEW t \in JobThreads, Others(t), NEW a \in Ids,
         UNCHANGED auctionID, Listed(a)' <=> Listed(a),
         (at'[t] = a /\ pc'[t] \in Fresh) <=> (at[t] = a /\ pc[t] \in Fresh),
         Inserted(a) => creator'[a] = creator[a]
  PROVE  Steady(a)
<1>1. \A u \in Threads \ {t} : pc'[u] = pc[u] /\ at'[u] = at[u]
  BY DEF Others
<1>2. Inserted(a)' <=> Inserted(a)
  BY <1>1 DEF Inserted, Fresh, Threads
<1>3. pc'[Tick] = pc[Tick] /\ at'[Tick] = at[Tick]
  BY <1>1, AuctionServerAssumption DEF Threads
<1> QED BY <1>2, <1>3 DEF Steady, Stage

LEMMA OwnSteady ==
  ASSUME TypeOK, NEW t \in JobThreads, Others(t), CreateOwn(t), NEW a \in Ids
  PROVE  Steady(a)
<1>1. /\ pc[t] = "own" /\ pc'[t] \in Fresh /\ at' = at
      /\ creator' = [creator EXCEPT ![at[t]] = req[t].user]
      /\ UNCHANGED <<auctionID, auctionsList>>
  BY DEF CreateOwn, Go, TypeOK, Fresh, work, list, Threads
<1>2. Inserted(a) => a # at[t]
  BY <1>1 DEF Inserted
<1>3. Inserted(a) => creator'[a] = creator[a]
  BY <1>1, <1>2 DEF TypeOK
<1> QED BY <1>1, <1>3, JobSteady DEF Fresh, Listed

LEMMA ListOpens ==
  ASSUME TypeOK, TypeOK', InHand, OrderInv, OrderInv', LocksExclusive, Sellers, OneCloser,
         FinalInv, NEW t \in JobThreads, Others(t), CreateList(t)
  PROVE  /\ at[t] \in Ids /\ creator'[at[t]] \in Users /\ MovesOn(at[t], "none", "open")
         /\ UNCHANGED <<bid, currentWinner, balance, auctionsWon, creator>>
<1> DEFINE a == at[t]
<1>1. /\ t \in Threads /\ t # Tick /\ pc[t] = "list" /\ pc'[t] \in {"V_auctions", "listFill"}
      /\ at' = at /\ auctionsList' = Append(auctionsList, a)
      /\ UNCHANGED <<auctionID, bid, currentWinner, balance, auctionsWon, creator>>
  BY AuctionServerAssumption
     DEF CreateList, Go, TypeOK, Threads, users, auctions, details, standing
<1>2. a \in Ids /\ creator[a] \in Users /\ auctionsList \in Seq(Ids)
  BY <1>1 DEF Sellers, HasSeller, InHand, Creation, TypeOK
<1>3. \A b : Listed(b)' <=> Listed(b) \/ b = a
  <2>1. /\ Len(auctionsList') = Len(auctionsList) + 1 /\ Len(auctionsList) \in Nat
        /\ auctionsList'[Len(auctionsList) + 1] = a
        /\ \A i \in 1..Len(auctionsList) : auctionsList'[i] = auctionsList[i]
    BY <1>1, <1>2
  <2>2. \A b : Listed(b)' <=> \E i \in 1..Len(auctionsList') : auctionsList'[i] = b
    BY ListedNext DEF ListMeans
  <2>3. \A b : Listed(b) <=> \E i \in 1..Len(auctionsList) : auctionsList[i] = b
    BY ListedNow DEF ListMeans
  <2> QED BY <2>1, <2>2, <2>3
<1>4. \A b \in Ids \ {a} : Steady(b)
  BY <1>1, <1>3, JobSteady
<1>5. Stage(a) = "none"
  BY <1>1 DEF Stage, Inserted
<1>6. Inserted(a)'
  <2>1. Listed(a)'
    BY <1>1, <1>3
  <2> QED BY <2>1, InsertedNext DEF Inserts
<1>7. pc'[Tick] \notin Closing
  <2>1. pc[Tick] \notin Closing
    BY <1>1, HoldsAlone DEF HoldsAuctions, Closing, Threads
  <2> QED BY <1>1, <2>1 DEF Others, Threads
<1>8. Stage(a)' = "open"
  BY <1>1, <1>3, <1>6, <1>7 DEF Stage, Owing, Closing
<1> QED BY <1>1, <1>2, <1>4, <1>5, <1>6, <1>8 DEF MovesOn

LEMMA BidSteady ==
  ASSUME TypeOK, TypeOK', InHand, OrderInv, LocksExclusive, OneCloser,
         NEW t \in JobThreads, Others(t), BidRaise(t)
  PROVE  /\ \A a \in Ids : Steady(a)
         /\ req[t].id \in Ids /\ req[t].user \in Users /\ req[t].bid \in Bids
         /\ Stage(req[t].id) = "open" /\ Inserted(req[t].id)
         /\ req[t].user # creator[req[t].id] /\ req[t].bid > bid[req[t].id]
         /\ bid' = [bid EXCEPT ![req[t].id] = req[t].bid]
         /\ currentWinner' = [currentWinner EXCEPT ![req[t].id] = req[t].user]
         /\ UNCHANGED <<balance, auctionsWon, creator>>
<1> DEFINE a == req[t].id
<1>1. /\ t \in Threads /\ t # Tick /\ pc[t] = "handle" /\ pc'[t] = "update"
      /\ Listed(a) /\ creator[a] # req[t].user /\ req[t].kind = "ANBID"
      /\ UNCHANGED <<auctionID, auctionsList>>
  BY AuctionServerAssumption
     DEF BidRaise, TakeBid, MayBid, Go, TypeOK, Threads, list
<1>2. /\ req[t].user # creator[a] /\ req[t].bid > bid[a]
      /\ bid' = [bid EXCEPT ![a] = req[t].bid]
      /\ currentWinner' = [currentWinner EXCEPT ![a] = req[t].user]
      /\ UNCHANGED <<balance, auctionsWon, creator>>
  BY <1>1 DEF BidRaise, TakeBid, users, details
<1>3. a \in Ids /\ req[t].user \in Users /\ req[t].bid \in Bids
  BY <1>1, RequestFields DEF InHand
<1>4. \A b \in Ids : Steady(b)
  BY <1>1, <1>2, JobSteady DEF Fresh, Listed
<1>5. pc[Tick] \notin Closing
  BY <1>1, HoldsAlone DEF HoldsAuctions, Closing, Threads
<1>6. Inserted(a)
  BY <1>1, ListedInserted
<1>7. Stage(a) = "open"
  BY <1>1, <1>5, <1>6 DEF Stage, Owing, Closing
<1> QED BY <1>2, <1>3, <1>4, <1>6, <1>7
-------------------------------------------------------------------------------
(* What a step of the tick thread leaves alone. *)
LEMMA TickInserted ==
  ASSUME Others(Tick), UNCHANGED <<auctionID, creator>>, NEW a
  PROVE  /\ Inserted(a)' <=> Inserted(a)
         /\ Stage(a)' = Stage(a) => Steady(a)
<1>1. \A u \in JobThreads : pc'[u] = pc[u] /\ at'[u] = at[u]
  BY AuctionServerAssumption DEF Others, Threads
<1> QED BY <1>1 DEF Inserted, Steady

LEMMA LockCloses ==
  ASSUME TypeOK, InHand, OrderInv, OneCloser, TickPAuctions, Others(Tick)
  PROVE  /\ UNCHANGED <<bid, currentWinner, balance, auctionsWon, creator>>
         /\ \/ \A a \in Ids : Steady(a)
            \/ /\ at[Tick] \in Ids /\ currentWinner[at[Tick]] = NoUser
               /\ MovesOn(at[Tick], "open", "charged")
<1> DEFINE a == at[Tick]
<1>1. /\ Tick \in Threads /\ pc[Tick] = "P_auctions" /\ at' = at
      /\ pc'[Tick] = IF currentWinner[a] = NoUser THEN "P_pay" ELSE "P_charge"
      /\ UNCHANGED <<auctionID, auctionsList, bid, currentWinner, balance, auctionsWon, creator>>
  BY DEF TickPAuctions, Go, TypeOK, work, users, auctions, details, standing, list, Threads
<1>2. a \in Ids /\ Listed(a) /\ Inserted(a)
  BY <1>1, ListedInserted DEF InHand, OneCloser, Walking
<1>3. \A b : Listed(b)' <=> Listed(b)
  BY <1>1 DEF Listed
<1>4. \A b : Inserted(b)' <=> Inserted(b)
  BY <1>1, TickInserted
<1>5. \A b \in Ids \ {a} : Steady(b)
  <2>1. \A b \in Ids \ {a} : Stage(b)' = Stage(b)
    BY <1>1, <1>3, <1>4 DEF Stage
  <2> QED BY <1>1, <2>1, TickInserted
<1>6. Stage(a) = "open"
  BY <1>1, <1>2 DEF Stage, Owing
<1>7. CASE currentWinner[a] = NoUser
  <2>1. Stage(a)' = "charged"
    BY <1>1, <1>2, <1>4, <1>7 DEF Stage, Owing
  <2> QED BY <1>1, <1>2, <1>4, <1>5, <1>6, <1>7, <2>1 DEF MovesOn
<1>8. CASE currentWinner[a] # NoUser
  <2>1. Stage(a)' = "open"
    BY <1>1, <1>2, <1>3, <1>4, <1>8 DEF Stage, Owing
  <2>2. Steady(a)
    BY <1>1, <1>6, <2>1, TickInserted
  <2> QED BY <1>1, <1>5, <2>2
<1> QED BY <1>7, <1>8

LEMMA ChargeCloses ==
  ASSUME TypeOK, InHand, OrderInv, Sellers, OneCloser, CloseCharge(Tick), Others(Tick)
  PROVE  /\ at[Tick] \in Ids /\ currentWinner[at[Tick]] \in Users
         /\ MovesOn(at[Tick], "open", "charged")
         /\ balance' = [balance EXCEPT ![currentWinner[at[Tick]]] = @ - bid[at[Tick]]]
         /\ auctionsWon' = [auctionsWon EXCEPT ![currentWinner[at[Tick]]] = Append(@, at[Tick])]
         /\ UNCHANGED <<bid, currentWinner, creator>>
<1> DEFINE a == at[Tick]
<1>1. /\ Tick \in Threads /\ pc[Tick] = "charge" /\ at' = at /\ pc'[Tick] = "P_pay"
      /\ balance' = [balance EXCEPT ![currentWinner[a]] = @ - bid[a]]
      /\ auctionsWon' = [auctionsWon EXCEPT ![currentWinner[a]] = Append(@, a)]
      /\ UNCHANGED <<auctionID, auctionsList, bid, currentWinner, creator>>
  BY DEF CloseCharge, Go, TypeOK, work, auctions, details, standing, list, Threads
<1>2. a \in Ids /\ Listed(a) /\ Inserted(a) /\ currentWinner[a] \in Users
  BY <1>1, ListedInserted DEF InHand, OneCloser, Walking, Closing, Sellers
<1>3. \A b : Listed(b)' <=> Listed(b)
  BY <1>1 DEF Listed
<1>4. \A b : Inserted(b)' <=> Inserted(b)
  BY <1>1, TickInserted
<1>5. \A b \in Ids \ {a} : Steady(b)
  <2>1. \A b \in Ids \ {a} : Stage(b)' = Stage(b)
    BY <1>1, <1>3, <1>4 DEF Stage
  <2> QED BY <1>1, <2>1, TickInserted
<1>6. Stage(a) = "open"
  BY <1>1, <1>2 DEF Stage, Owing
<1>7. Stage(a)' = "charged"
  BY <1>1, <1>2, <1>4 DEF Stage, Owing
<1> QED BY <1>1, <1>2, <1>4, <1>5, <1>6, <1>7 DEF MovesOn

LEMMA PayCloses ==
  ASSUME TypeOK, InHand, OrderInv, Sellers, OneCloser, ClosePay(Tick), Others(Tick)
  PROVE  /\ at[Tick] \in Ids /\ creator[at[Tick]] \in Users
         /\ MovesOn(at[Tick], "charged", "settled")
         /\ balance' = [balance EXCEPT ![creator[at[Tick]]] = @ + bid[at[Tick]]]
         /\ UNCHANGED <<bid, currentWinner, auctionsWon, creator>>
<1> DEFINE a == at[Tick]
<1>1. /\ Tick \in Threads /\ pc[Tick] = "pay" /\ at' = at /\ pc'[Tick] = "notify"
      /\ balance' = [balance EXCEPT ![creator[a]] = @ + bid[a]]
      /\ UNCHANGED <<auctionID, auctionsList, bid, currentWinner, auctionsWon, creator>>
  BY DEF ClosePay, Go, TypeOK, work, auctions, details, standing, list, Threads
<1>2. a \in Ids /\ Listed(a) /\ Inserted(a) /\ creator[a] \in Users
  BY <1>1, ListedInserted DEF InHand, OneCloser, Walking, Closing, Sellers, HasSeller
<1>3. \A b : Listed(b)' <=> Listed(b)
  BY <1>1 DEF Listed
<1>4. \A b : Inserted(b)' <=> Inserted(b)
  BY <1>1, TickInserted
<1>5. \A b \in Ids \ {a} : Steady(b)
  <2>1. \A b \in Ids \ {a} : Stage(b)' = Stage(b)
    BY <1>1, <1>3, <1>4 DEF Stage
  <2> QED BY <1>1, <2>1, TickInserted
<1>6. Stage(a) = "charged"
  BY <1>1, <1>2 DEF Stage, Owing
<1>7. Stage(a)' = "settled"
  BY <1>1, <1>2, <1>4 DEF Stage, Owing
<1> QED BY <1>1, <1>2, <1>4, <1>5, <1>6, <1>7 DEF MovesOn

LEMMA RemoveCloses ==
  ASSUME TypeOK, TypeOK', InHand, OrderInv, OneCloser, CloseRemove(Tick), Others(Tick)
  PROVE  /\ UNCHANGED <<bid, currentWinner, balance, auctionsWon, creator>>
         /\ \A a \in Ids : Steady(a)
<1> DEFINE a == at[Tick]
<1>1. /\ Tick \in Threads /\ pc[Tick] = "remove" /\ at' = at /\ pc'[Tick] = "V_auctions"
      /\ UNCHANGED <<auctionID, bid, currentWinner, balance, auctionsWon, creator>>
  BY DEF CloseRemove, Go, TypeOK, work, users, auctions, details, standing, Threads
<1>2. \A b : Listed(b)' <=> Listed(b) /\ b # a
  BY <1>1, RemoveKeepsOrder
<1>3. \A b : Inserted(b)' <=> Inserted(b)
  BY <1>1, TickInserted
<1>4. \A b \in Ids : Stage(b)' = Stage(b)
  BY <1>1, <1>2, <1>3 DEF Stage, Owing
<1> QED BY <1>1, <1>4, TickInserted
-------------------------------------------------------------------------------
(* The moves of the house, with what they do to the accounts and the wins. *)
SameMoney == UNCHANGED <<bid, currentWinner, balance, auctionsWon>>
Idles == SameMoney /\ \A a \in Ids : Steady(a)
Opens(a) == SameMoney /\ MovesOn(a, "none", "open") /\ creator'[a] \in Users
Raises(a, u, b) ==
  /\ \A c \in Ids : Steady(c)
  /\ Stage(a) = "open" /\ Inserted(a) /\ u # creator[a] /\ b > bid[a]
  /\ bid' = [bid EXCEPT ![a] = b] /\ currentWinner' = [currentWinner EXCEPT ![a] = u]
  /\ UNCHANGED <<balance, auctionsWon>>
ClosesUnsold(a) ==
  SameMoney /\ MovesOn(a, "open", "charged") /\ creator' = creator /\ currentWinner[a] = NoUser
Charges(a, w) ==
  /\ MovesOn(a, "open", "charged") /\ w = currentWinner[a]
  /\ balance' = [balance EXCEPT ![w] = @ - bid[a]]
  /\ auctionsWon' = [auctionsWon EXCEPT ![w] = Append(@, a)]
  /\ UNCHANGED <<bid, currentWinner, creator>>
Pays(a, w) ==
  /\ MovesOn(a, "charged", "settled") /\ w = creator[a]
  /\ balance' = [balance EXCEPT ![w] = @ + bid[a]]
  /\ UNCHANGED <<bid, currentWinner, auctionsWon, creator>>
Move ==
  \/ Idles
  \/ \E a \in Ids : Opens(a) \/ ClosesUnsold(a)
  \/ \E a \in Ids, u \in Users : Charges(a, u) \/ Pays(a, u)
  \/ \E a \in Ids, u \in Users, b \in Bids : Raises(a, u, b)

LEMMA StepMoves ==
  ASSUME TypeOK, TypeOK', InHand, OrderInv, OrderInv', LocksExclusive, Sellers, FinalInv,
         OneCloser, [Next]_vars
  PROVE  Move
<1>1. CASE UNCHANGED vars
  <2>1. \A a \in Ids : Steady(a)
    BY <1>1 DEF vars, auctions, details, list, work, Steady, Stage, Inserted, Listed
  <2> QED BY <1>1, <2>1 DEF Move, Idles, SameMoney, vars, users, auctions, standing
<1>2. ASSUME NEW t \in Threads, Others(t), Plain(t) PROVE Move
  <2>1. \A a \in Ids : Steady(a)
    BY <1>2, PlainSteady
  <2> QED BY <1>2, <2>1 DEF Move, Idles, SameMoney, Plain
<1>3. ASSUME NEW t \in JobThreads, Others(t), CreateOwn(t) PROVE Move
  <2>1. \A a \in Ids : Steady(a)
    BY <1>3, OwnSteady
  <2>2. SameMoney
    BY <1>3 DEF CreateOwn, SameMoney, standing
  <2> QED BY <2>1, <2>2 DEF Move, Idles
<1>4. ASSUME NEW t \in JobThreads, Others(t), CreateList(t) PROVE Move
  <2>1. at[t] \in Ids /\ Opens(at[t])
    BY <1>4, ListOpens DEF Opens, SameMoney
  <2> QED BY <2>1 DEF Move
<1>5. ASSUME NEW t \in JobThreads, Others(t), BidRaise(t) PROVE Move
  <2>1. /\ req[t].id \in Ids /\ req[t].user \in Users /\ req[t].bid \in Bids
        /\ Raises(req[t].id, req[t].user, req[t].bid)
    BY <1>5, BidSteady DEF Raises
  <2> QED BY <2>1 DEF Move
<1>6. CASE Others(Tick) /\ TickPAuctions
  <2>1. UNCHANGED creator /\ SameMoney
    BY <1>6, LockCloses DEF SameMoney
  <2>2. Idles \/ (at[Tick] \in Ids /\ ClosesUnsold(at[Tick]))
    BY <1>6, <2>1, LockCloses DEF Idles, ClosesUnsold
  <2> QED BY <2>2 DEF Move
<1>7. CASE Others(Tick) /\ CloseCharge(Tick)
  <2>1. /\ at[Tick] \in Ids /\ currentWinner[at[Tick]] \in Users
        /\ Charges(at[Tick], currentWinner[at[Tick]])
    BY <1>7, ChargeCloses DEF Charges
  <2> QED BY <2>1 DEF Move
<1>8. CASE Others(Tick) /\ ClosePay(Tick)
  <2>1. /\ at[Tick] \in Ids /\ creator[at[Tick]] \in Users
        /\ Pays(at[Tick], creator[at[Tick]])
    BY <1>8, PayCloses DEF Pays
  <2> QED BY <2>1 DEF Move
<1>9. CASE Others(Tick) /\ CloseRemove(Tick)
  BY <1>9, RemoveCloses DEF Move, Idles, SameMoney
<1> QED BY <1>1, <1>2, <1>3, <1>4, <1>5, <1>6, <1>7, <1>8, <1>9, PlainOrTelling DEF Telling
-------------------------------------------------------------------------------
(* The moves are those of AuctionHouse. *)
PhaseMap == [a \in Ids |-> Phase(a)]
SellerMap == [a \in Ids |-> IF Inserted(a) THEN creator[a] ELSE NoUser]

LEMMA MapsSteady ==
  ASSUME Stages, Stages', \A a \in Ids : Steady(a)
  PROVE  PhaseMap' = PhaseMap /\ SellerMap' = SellerMap
<1>1. \A a \in Ids : Phase(a)' = Phase(a)
  BY DEF Stages, Steady
<1>2. \A a \in Ids : (Inserted(a)' <=> Inserted(a)) /\ (Inserted(a) => creator'[a] = creator[a])
  BY DEF Steady
<1> QED BY <1>1, <1>2 DEF PhaseMap, SellerMap

LEMMA MapsMove ==
  ASSUME Stages, Stages', NEW a \in Ids, NEW from, NEW to, MovesOn(a, from, to)
  PROVE  /\ PhaseMap[a] = from /\ PhaseMap' = [PhaseMap EXCEPT ![a] = to]
         /\ SellerMap' = [SellerMap EXCEPT ![a] = creator'[a]]
         /\ from # "none" => SellerMap[a] = creator[a]
         /\ from # "none" /\ creator' = creator => SellerMap' = SellerMap
<1>1. Phase(a) = from /\ Phase(a)' = to /\ Inserted(a)' /\ (from # "none" => Inserted(a))
  BY DEF Stages, MovesOn, Stage
<1>2. \A b \in Ids \ {a} : Phase(b)' = Phase(b)
  BY DEF Stages, MovesOn, Steady
<1>3. \A b \in Ids \ {a} :
        (Inserted(b)' <=> Inserted(b)) /\ (Inserted(b) => creator'[b] = creator[b])
  BY DEF MovesOn, Steady
<1>4. PhaseMap' = [PhaseMap EXCEPT ![a] = to]
  BY <1>1, <1>2 DEF PhaseMap
<1>5. SellerMap' = [SellerMap EXCEPT ![a] = creator'[a]]
  BY <1>1, <1>3 DEF SellerMap
<1>6. from # "none" /\ creator' = creator => SellerMap' = SellerMap
  BY <1>1, <1>3 DEF SellerMap
<1> QED BY <1>1, <1>4, <1>5, <1>6 DEF PhaseMap, SellerMap

LEMMA MoveRefines ==
  ASSUME TypeOK, Stages, Stages', Move
  PROVE  [House!Next]_(House!vars)
<1>1. CASE Idles
  BY <1>1, MapsSteady DEF Idles, SameMoney, House!vars, PhaseMap, SellerMap
<1>2. ASSUME NEW a \in Ids, Opens(a) PROVE House!Next
  <2>1. PICK u \in Users : u = creator'[a]
    BY <1>2 DEF Opens
  <2>2. House!Open(a, u)
    BY <1>2, <2>1, MapsMove DEF Opens, SameMoney, House!Open, House!Advance, PhaseMap, SellerMap
  <2> QED BY <2>2 DEF House!Next
<1>3. ASSUME NEW a \in Ids, ClosesUnsold(a) PROVE House!Next
  <2>1. SellerMap' = SellerMap
    BY <1>3, MapsMove DEF ClosesUnsold
  <2>2. House!Charge(a)
    BY <1>3, <2>1, MapsMove DEF ClosesUnsold, SameMoney, House!Charge, House!Advance, PhaseMap,
       SellerMap
  <2> QED BY <2>2 DEF House!Next
<1>4. ASSUME NEW a \in Ids, NEW w \in Users, Charges(a, w) PROVE House!Next
  <2>1. SellerMap' = SellerMap /\ w # NoUser
    BY <1>4, MapsMove, AuctionServerAssumption DEF Charges
  <2>2. House!Charge(a)
    BY <1>4, <2>1, MapsMove DEF Charges, House!Charge, House!Advance, PhaseMap, SellerMap
  <2> QED BY <2>2 DEF House!Next
<1>5. ASSUME NEW a \in Ids, NEW w \in Users, Pays(a, w) PROVE House!Next
  <2>1. SellerMap' = SellerMap /\ SellerMap[a] = w
    BY <1>5, MapsMove DEF Pays
  <2>2. House!Settle(a)
    BY <1>5, <2>1, MapsMove DEF Pays, House!Settle, House!Advance, PhaseMap, SellerMap
  <2> QED BY <2>2 DEF House!Next
<1>6. ASSUME NEW a \in Ids, NEW u \in Users, NEW b \in Bids, Raises(a, u, b)
      PROVE  House!Next
  <2>1. PhaseMap' = PhaseMap /\ SellerMap' = SellerMap
    BY <1>6, MapsSteady DEF Raises
  <2>2. PhaseMap[a] = "open" /\ SellerMap[a] = creator[a]
    BY <1>6 DEF Raises, PhaseMap, SellerMap, Stages
  <2>3. House!Bid(a, u, b)
    BY <1>6, <2>1, <2>2 DEF Raises, House!Bid, PhaseMap, SellerMap
  <2> QED BY <2>3 DEF House!Next
<1> QED BY <1>1, <1>2, <1>3, <1>4, <1>5, <1>6 DEF Move

LEMMA InitRefines ==
  ASSUME Init
  PROVE  House!Init
<1>1. \A a \in Ids : ~Inserted(a)
  BY DEF Init, Inserted, Ids
<1>2. \A a \in Ids : Phase(a) = "none"
  BY <1>1 DEF Phase, Paid, Init
<1> QED BY <1>1, <1>2 DEF House!Init, Init

(* What the lemmas about the moves need, in one conjunction. *)
Behaved ==
  /\ TypeOK /\ InHand /\ OrderInv /\ LocksExclusive /\ Sellers /\ FinalInv /\ OneCloser

LEMMA BehavedHolds == ASSUME NoBuyNow PROVE Spec => []Behaved
<1>1. /\ TypeOK /\ TypeOK' /\ InHand /\ OrderInv /\ Sellers /\ OneCloser /\ [Next]_vars
      => OneCloser'
  BY StepOneCloser
<1> QED BY <1>1, SellersHold, FinalHolds, InitOneCloser, TypedInHand, MutualExclusion, OrderHolds, PTL
        DEF Spec, Behaved

(* Threads, locks, lists and the unlocked walk keep the promise of         *)
(* AuctionHouse: every auction opens, is bid up, and is closed, charged    *)
(* and paid exactly once, as long as no client names a buy-now price.      *)
THEOREM KeepsTheHouse == ASSUME NoBuyNow PROVE Spec => ImplementsHouse
<1>1. Behaved /\ Behaved' /\ [Next]_vars => [House!Next]_(House!vars)
  BY StepMoves, StagesNow, StagesNext, MoveRefines DEF Behaved
<1>2. Init => House!Init
  BY InitRefines
<1> QED BY <1>1, <1>2, BehavedHolds, PTL DEF Spec, ImplementsHouse, House!Spec
-------------------------------------------------------------------------------
(* The books: what each user has earned, less what the user has spent.     *)
Earned(u) == {a \in Ids : Stage(a) = "settled" /\ creator[a] = u}
Spent(u) == TotalOver(bid, auctionsWon[u], 1..Len(auctionsWon[u]))
Books == \A u \in Users : balance[u] = Total(bid, Earned(u)) - Spent(u)

LEMMA BooksTyped ==
  ASSUME TypeOK, NEW u \in Users
  PROVE  /\ IsFiniteSet(Earned(u)) /\ Earned(u) \subseteq Ids
         /\ \A a \in Ids : bid[a] \in Int
         /\ Total(bid, Earned(u)) \in Int /\ Spent(u) \in Int
<1>1. MaxAuctions \in Int /\ 1 \in Int
  BY AuctionServerAssumption
<1>2. IsFiniteSet(Ids) /\ Earned(u) \subseteq Ids
  BY <1>1, FS_Interval DEF Ids, Earned
<1>3. IsFiniteSet(Earned(u))
  BY <1>2, FS_Subset
<1>4. \A a \in Ids : bid[a] \in Int
  BY DEF TypeOK
<1>5. Total(bid, Earned(u)) \in Int
  BY <1>2, <1>3, <1>4, TotalTyped
<1>6. Spent(u) \in Int
  <2> DEFINE s == auctionsWon[u]
             n == Len(s)
             g == [i \in 1..n |-> bid[s[i]]]
  <2>1. s \in Seq(Ids)
    BY DEF TypeOK
  <2>2. n \in Nat /\ \A i \in 1..n : g[i] \in Int
    BY <1>4, <2>1
  <2> HIDE DEF s, n
  <2>3. IsFiniteSet(1..n)
    BY <2>2, FS_Interval
  <2>4. TotalOver(bid, s, 1..n) = Total(g, 1..n)
    BY <2>3, TotalOverIs
  <2> HIDE DEF g
  <2>5. Total(g, 1..n) \in Int
    BY <2>2, <2>3, TotalTyped
  <2> QED BY <2>4, <2>5 DEF Spent, s, n
<1> QED BY <1>2, <1>3, <1>4, <1>5, <1>6

(* Nobody's bids change any more on what somebody has won. *)
LEMMA SpentKept ==
  ASSUME TypeOK, Frozen, NEW u \in Users, auctionsWon'[u] = auctionsWon[u]
  PROVE  Spent(u)' = Spent(u)
<1> DEFINE s == auctionsWon[u]
           n == Len(s)
<1>1. s \in Seq(Ids)
  BY DEF TypeOK
<1>2. n \in Nat /\ \A i \in 1..n : s[i] \in Ids /\ Contains(s, s[i])
  BY <1>1 DEF Contains
<1>3. \A i \in 1..n : bid'[s[i]] = bid[s[i]]
  BY <1>2 DEF Frozen
<1>4. Spent(u) = TotalOver(bid, s, 1..n) /\ Spent(u)' = TotalOver(bid', s, 1..n)
  BY DEF Spent
<1> HIDE DEF s, n
<1>5. PICK h : h = bid'
  OBVIOUS
<1>6. PICK S : S = 1..n
  OBVIOUS
<1>7. IsFiniteSet(S) /\ \A i \in S : h[s[i]] = bid[s[i]]
  BY <1>2, <1>3, <1>5, <1>6, FS_Interval
<1>8. TotalOver(h, s, S) = TotalOver(bid, s, S)
  BY <1>7, TotalOverCongruent
<1> QED BY <1>4, <1>5, <1>6, <1>8

LEMMA EarnedKept ==
  ASSUME NEW u \in Users,
         \A a \in Ids : Stage(a)' = "settled" <=> Stage(a) = "settled",
         \A a \in Ids : Stage(a) = "settled" => creator'[a] = creator[a]
  PROVE  Earned(u)' = Earned(u)
BY DEF Earned

(* Steps that change neither side. *)
LEMMA BooksKept ==
  ASSUME TypeOK, Frozen, Books, UNCHANGED <<balance, auctionsWon>>,
         \A a \in Ids : Stage(a)' = "settled" <=> Stage(a) = "settled",
         \A a \in Ids : Stage(a) = "settled" => creator'[a] = creator[a] /\ bid'[a] = bid[a]
  PROVE  Books'
<1> SUFFICES ASSUME NEW u \in Users
             PROVE  balance'[u] = Total(bid', Earned(u)') - Spent(u)'
  BY DEF Books
<1>1. Earned(u)' = Earned(u)
  BY EarnedKept
<1>2. Spent(u)' = Spent(u)
  BY SpentKept
<1>3. PICK h : h = bid'
  OBVIOUS
<1>4. \A a \in Earned(u) : h[a] = bid[a]
  BY <1>3 DEF Earned
<1>5. Total(h, Earned(u)) = Total(bid, Earned(u))
  BY <1>4, BooksTyped, TotalCongruent
<1> QED BY <1>1, <1>2, <1>3, <1>5 DEF Books

LEMMA ChargeBooks ==
  ASSUME TypeOK, Frozen, Books, NEW a \in Ids, NEW w \in Users, Charges(a, w)
  PROVE  Books'
<1> SUFFICES ASSUME NEW u \in Users
             PROVE  balance'[u] = Total(bid', Earned(u)') - Spent(u)'
  BY DEF Books
<1>1. Earned(u)' = Earned(u)
  <2>1. \A b \in Ids : Stage(b)' = "settled" <=> Stage(b) = "settled"
    BY DEF Charges, MovesOn, Steady
  <2>2. creator' = creator
    BY DEF Charges
  <2> QED BY <2>1, <2>2, EarnedKept
<1>2. bid' = bid /\ balance[u] = Total(bid, Earned(u)) - Spent(u)
  BY DEF Charges, Books
<1>3. /\ balance[u] \in Int /\ bid[a] \in Int /\ Spent(u) \in Int
      /\ Total(bid, Earned(u)) \in Int
  BY BooksTyped DEF TypeOK
<1>4. CASE u = w
  <2>1. balance'[u] = balance[u] - bid[a] /\ auctionsWon'[u] = Append(auctionsWon[u], a)
    BY <1>4 DEF Charges, TypeOK
  <2>2. PICK s \in Seq(Ids) : s = auctionsWon[u]
    BY DEF TypeOK
  <2>3. /\ TotalOver(bid, Append(s, a), 1..Len(Append(s, a)))
           = TotalOver(bid, s, 1..Len(s)) + bid[a]
    BY BooksTyped, TotalOverAppend
  <2>4. Spent(u)' = Spent(u) + bid[a]
    BY <1>2, <2>1, <2>2, <2>3 DEF Spent
  <2> QED BY <1>1, <1>2, <1>3, <2>1, <2>4
<1>5. CASE u # w
  <2>1. balance'[u] = balance[u] /\ auctionsWon'[u] = auctionsWon[u]
    BY <1>5 DEF Charges, TypeOK
  <2> QED BY <1>1, <1>2, <2>1, SpentKept
<1> QED BY <1>4, <1>5

LEMMA PayBooks ==
  ASSUME TypeOK, Frozen, Books, NEW a \in Ids, NEW w \in Users, Pays(a, w)
  PROVE  Books'
<1> SUFFICES ASSUME NEW u \in Users
             PROVE  balance'[u] = Total(bid', Earned(u)') - Spent(u)'
  BY DEF Books
<1>1. Spent(u)' = Spent(u)
  BY SpentKept DEF Pays
<1>2. bid' = bid /\ balance[u] = Total(bid, Earned(u)) - Spent(u)
  BY DEF Pays, Books
<1>3. /\ balance[u] \in Int /\ bid[a] \in Int /\ Spent(u) \in Int
      /\ Total(bid, Earned(u)) \in Int
  BY BooksTyped DEF TypeOK
<1>4. /\ Stage(a) = "charged" /\ Stage(a)' = "settled" /\ creator' = creator /\ w = creator[a]
      /\ \A b \in Ids \ {a} : Stage(b)' = Stage(b)
  BY DEF Pays, MovesOn, Steady
<1>5. CASE u = w
  <2>1. Earned(u)' = Earned(u) \cup {a} /\ a \notin Earned(u)
    BY <1>4, <1>5 DEF Earned
  <2>2. Total(bid, Earned(u) \cup {a}) = Total(bid, Earned(u)) + bid[a]
    BY <2>1, BooksTyped, TotalWith
  <2>3. balance'[u] = balance[u] + bid[a]
    BY <1>5 DEF Pays, TypeOK
  <2> QED BY <1>1, <1>2, <1>3, <2>1, <2>2, <2>3
<1>6. CASE u # w
  <2>1. Earned(u)' = Earned(u)
    BY <1>4, <1>6 DEF Earned
  <2>2. balance'[u] = balance[u]
    BY <1>6 DEF Pays, TypeOK
  <2> QED BY <1>1, <1>2, <2>1, <2>2
<1> QED BY <1>5, <1>6

LEMMA StepBooks ==
  ASSUME TypeOK, Frozen, Books, Move
  PROVE  Books'
<1>1. \A a \in Ids : Stage(a) = "settled" => Inserted(a)
  BY DEF Stage
<1>2. CASE Idles
  <2>1. /\ \A a \in Ids : Stage(a)' = "settled" <=> Stage(a) = "settled"
        /\ \A a \in Ids : Stage(a) = "settled" => creator'[a] = creator[a] /\ bid'[a] = bid[a]
        /\ UNCHANGED <<balance, auctionsWon>>
    BY <1>1, <1>2 DEF Idles, SameMoney, Steady
  <2> QED BY <2>1, BooksKept
<1>3. ASSUME NEW a \in Ids, Opens(a) \/ ClosesUnsold(a) PROVE Books'
  <2>1. /\ Stage(a) # "settled" /\ Stage(a)' # "settled"
        /\ UNCHANGED <<balance, auctionsWon, bid>>
        /\ \A b \in Ids \ {a} : Steady(b)
    BY <1>3 DEF Opens, ClosesUnsold, SameMoney, MovesOn
  <2>2. /\ \A b \in Ids : Stage(b)' = "settled" <=> Stage(b) = "settled"
        /\ \A b \in Ids : Stage(b) = "settled" => creator'[b] = creator[b] /\ bid'[b] = bid[b]
    BY <1>1, <2>1 DEF Steady
  <2> QED BY <2>1, <2>2, BooksKept
<1>4. ASSUME NEW a \in Ids, NEW u \in Users, NEW b \in Bids, Raises(a, u, b) PROVE Books'
  <2>1. /\ Stage(a) = "open" /\ \A c \in Ids : Steady(c)
        /\ bid' = [bid EXCEPT ![a] = b] /\ UNCHANGED <<balance, auctionsWon>>
    BY <1>4 DEF Raises
  <2>2. /\ \A c \in Ids : Stage(c)' = "settled" <=> Stage(c) = "settled"
        /\ \A c \in Ids : Stage(c) = "settled" => creator'[c] = creator[c] /\ bid'[c] = bid[c]
    BY <1>1, <2>1 DEF Steady, TypeOK
  <2> QED BY <2>1, <2>2, BooksKept
<1> QED BY <1>2, <1>3, <1>4, ChargeBooks, PayBooks DEF Move

LEMMA InitBooks == Init => Books
<1> SUFFICES ASSUME Init, NEW u \in Users PROVE balance[u] = Total(bid, Earned(u)) - Spent(u)
  BY DEF Books
<1>1. Earned(u) = {}
  BY DEF Init, Earned, Stage, Inserted, Ids
<1>2. Spent(u) = 0
  <2>1. auctionsWon[u] = <<>> /\ Len(auctionsWon[u]) = 0 /\ 1..0 = {}
    BY DEF Init
  <2>2. TotalOver(bid, <<>>, {}) = 0
    BY TotalOverIs, TotalOfNone, FS_EmptySet
  <2> QED BY <2>1, <2>2 DEF Spent
<1> QED BY <1>1, <1>2, TotalOfNone DEF Init

LEMMA BooksMatch ==
  ASSUME TypeOK, Stages, Books
  PROVE  BalancesMatchHistory
<1> SUFFICES ASSUME NEW u \in Users
             PROVE  balance[u] = Sum(LAMBDA a : bid[a], {a \in Ids : Paid(a) /\ creator[a] = u})
                      - Sum(LAMBDA i : bid[auctionsWon[u][i]], 1..Len(auctionsWon[u]))
  BY DEF BalancesMatchHistory
<1>1. Earned(u) = {a \in Ids : Paid(a) /\ creator[a] = u}
  BY DEF Stages, Earned
<1>2. Sum(LAMBDA a : bid[a], Earned(u)) = Total(bid, Earned(u))
  BY DEF Sum, Total
<1>3. Sum(LAMBDA i : bid[auctionsWon[u][i]], 1..Len(auctionsWon[u])) = Spent(u)
  BY DEF Sum, Spent, TotalOver
<1> QED BY <1>1, <1>2, <1>3 DEF Books

(* The balance that USRBLNC reports is what USRWINS and USRSALES add up    *)
(* to, whatever the threads are doing, as long as no client names a        *)
(* buy-now price.                                                          *)
THEOREM BalancesAdd == ASSUME NoBuyNow PROVE Spec => []BalancesMatchHistory
<1>1. Behaved /\ Behaved' /\ Books /\ [Next]_vars => Books'
  BY StepMoves, StepFinal, StepBooks DEF Behaved
<1>2. Behaved /\ Books => BalancesMatchHistory
  BY StagesNow, BooksMatch DEF Behaved
<1> QED BY <1>1, <1>2, InitBooks, BehavedHolds, PTL DEF Spec
-------------------------------------------------------------------------------
(* An auction may have missed a tick for each auction before it that is    *)
(* out of the list.                                                        *)
Gone(a) == {b \in 1..(a - 1) : ~Listed(b)}
Late(a) == Cardinality(Gone(a))

(* The auctions that the walk of the tick thread has still to visit, if it *)
(* gets there.                                                             *)
Leaving == {"P_auctions"} \cup Closing
Ahead(a) ==
  \/ pc[Tick] = "visit" /\ a >= at[Tick]
  \/ pc[Tick] \in {"advance"} \cup Leaving /\ a > at[Tick]

(* The nodes in R have been in the list since the walk began; the auctions *)
(* up to m were in the list, with their data, when it did.  From a node    *)
(* that was freed under its feet the walk goes on to all of them that are  *)
(* still there.                                                            *)
LeadsOn(x, R, m) ==
  \/ freedNext[x] = NULL /\ \A a \in Ids : Listed(a) /\ a > x => a > m
  \/ freedNext[x] \in R /\ \A a \in Ids : Listed(a) /\ a > x => a >= freedNext[x]
Walk(R, m) ==
  /\ m <= auctionID /\ \A x \in R : x <= auctionID
  /\ \A t \in JobThreads : pc[t] \in Creation => at[t] > m
  /\ \A t \in JobThreads : pc[t] \in Fresh => at[t] \notin R
  /\ pc[Tick] \in {"visit", "advance"} => at[Tick] \in R
  /\ \A a \in Ids : Listed(a) => a \in R
  /\ \A x \in R : ~Listed(x) => LeadsOn(x, R, m)
  /\ \A a \in Ids : Listed(a) =>
       due[a] >= duration[a] - Late(a) - (IF Ahead(a) /\ a <= m THEN 1 ELSE 0)

NewestInHand == \A t \in JobThreads : pc[t] \in Creation => at[t] = auctionID
Timed ==
  /\ \A t \in JobThreads : pc[t] \in Fresh =>
       duration[at[t]] >= 1 /\ due[at[t]] >= duration[at[t]]
  /\ \A a \in Ids : Listed(a) =>
       duration[a] >= 1 \/ (pc[Tick] \in Leaving /\ at[Tick] = a)
TickInv == NewestInHand /\ Timed /\ \E R \in SUBSET Ids, m \in Nat : Walk(R, m)

LEMMA LateTyped ==
  ASSUME NEW a \in Ids
  PROVE  /\ IsFiniteSet(Gone(a)) /\ Late(a) \in Nat /\ Late(a) <= a - 1
<1>1. a \in Nat /\ a - 1 \in Nat /\ 1 \in Int /\ a - 1 \in Int
  BY DEF Ids
<1>2. IsFiniteSet(1..(a - 1)) /\ Cardinality(1..(a - 1)) = a - 1
  BY <1>1, FS_Interval
<1>3. Gone(a) \subseteq 1..(a - 1)
  BY DEF Gone
<1> QED BY <1>1, <1>2, <1>3, FS_Subset, FS_CardinalityType DEF Late

LEMMA Ages ==
  ASSUME TypeOK, NEW a \in Ids
  PROVE  /\ due[a] \in Int /\ duration[a] \in Int /\ a \in Nat
         /\ Late(a) \in Nat /\ Late(a) <= a - 1
<1>1. a \in Nat
  BY DEF Ids
<1>2. due[a] \in Int /\ duration[a] \in Int
  BY DEF TypeOK
<1> QED BY <1>1, <1>2, LateTyped

(* The steps that leave the list, the durations and the walk alone. *)
Aside(t) ==
  /\ UNCHANGED <<duration, due, auctionsList, freedNext, auctionID>>
  /\ \A u \in Threads \ {t} : pc'[u] = pc[u] /\ at'[u] = at[u]
  /\ pc'[t] \in Creation => pc[t] \in Creation /\ at'[t] = at[t]
  /\ pc'[t] \in Fresh => pc[t] \in Fresh
  /\ t = Tick =>
       \/ pc'[t] = pc[t] /\ at'[t] = at[t]
       \/ pc[t] \in Leaving /\ pc'[t] \in Leaving /\ at'[t] = at[t]
       \/ pc[t] \notin {"visit", "advance"} \cup Leaving
            /\ pc'[t] \notin {"visit", "advance"} \cup Leaving

LEMMA AsideKeeps ==
  ASSUME TypeOK, TypeOK', TickInv, NEW t \in Threads, Aside(t)
  PROVE  TickInv'
<1>1. \A a : (Listed(a)' <=> Listed(a)) /\ Late(a)' = Late(a)
  BY DEF Aside, Listed, Late, Gone
<1>2. \A u \in JobThreads : pc'[u] \in Creation => pc[u] \in Creation /\ at'[u] = at[u]
  BY DEF Aside, Threads
<1>3. \A u \in JobThreads : pc'[u] \in Fresh => pc[u] \in Fresh /\ pc'[u] \in Creation
  BY DEF Aside, Threads, Fresh, Creation
<1>4. Tick \in Threads
  BY DEF Threads
<1>5. \A a : Ahead(a)' <=> Ahead(a)
  BY <1>4 DEF Ahead, Aside, Leaving, Closing
<1>6. NewestInHand'
  BY <1>2 DEF TickInv, NewestInHand, Aside
<1>7. Timed'
  <2>1. pc[Tick] \in Leaving => pc'[Tick] \in Leaving /\ at'[Tick] = at[Tick]
    BY <1>4 DEF Aside
  <2> QED BY <1>1, <1>2, <1>3, <2>1 DEF TickInv, Timed, Aside
<1>8. ASSUME NEW R \in SUBSET Ids, NEW m \in Nat, Walk(R, m) PROVE Walk(R, m)'
  <2>1. \A x : LeadsOn(x, R, m)' <=> LeadsOn(x, R, m)
    BY <1>1 DEF LeadsOn, Aside
  <2>2. pc'[Tick] \in {"visit", "advance"} => pc[Tick] \in {"visit", "advance"} /\ at'[Tick] = at[Tick]
    BY <1>4 DEF Aside, Leaving, Closing
  <2>3. \A a \in Ids : Listed(a)' =>
          due'[a] >= duration'[a] - Late(a)' - (IF Ahead(a)' /\ a <= m THEN 1 ELSE 0)
    BY <1>1, <1>5, <1>8 DEF Walk, Aside
  <2>4. m <= auctionID' /\ \A x \in R : x <= auctionID'
    BY <1>8 DEF Walk, Aside
  <2> QED BY <1>1, <1>2, <1>3, <1>8, <2>1, <2>2, <2>3, <2>4 DEF Walk
<1> QED BY <1>6, <1>7, <1>8 DEF TickInv

LEMMA CloseAside ==
  ASSUME TypeOK, NEW t \in Threads, CloseAuction(t) \/ VAuctions(t)
  PROVE  Aside(t) \/ CloseRemove(t)
<1> USE DEF Aside, TypeOK, Go, Creation, Fresh, Leaving, Closing,
       users, auctions, list, sems, work, details, standing, watching
<1>1. CASE ClosePCharge(t) BY <1>1 DEF ClosePCharge, PUsers
<1>2. CASE CloseCharge(t)  BY <1>2 DEF CloseCharge
<1>3. CASE ClosePPay(t)    BY <1>3 DEF ClosePPay, PUsers
<1>4. CASE ClosePay(t)     BY <1>4 DEF ClosePay
<1>5. CASE CloseNotify(t)  BY <1>5 DEF CloseNotify
<1>6. CASE CloseAbsent(t)  BY <1>6 DEF CloseAbsent, Crash
<1>7. CASE VAuctions(t)    BY <1>7 DEF VAuctions
<1> QED BY <1>1, <1>2, <1>3, <1>4, <1>5, <1>6, <1>7 DEF CloseAuction

LEMMA JobAside ==
  ASSUME TypeOK, NEW t \in JobThreads, TakeRequest(t) \/ ProcessJob(t)
  PROVE  Aside(t) \/ CreateTakeId(t) \/ CreateList(t) \/ CloseRemove(t)
<1> USE DEF Aside, TypeOK, Go, Handling, Creation, Fresh, Leaving, Closing,
       users, auctions, list, sems, work, details, standing, watching
<1>1. t \in Threads /\ t # Tick
  BY AuctionServerAssumption DEF Threads
<1>2. CASE TakeRequest(t)      BY <1>1, <1>2 DEF TakeRequest
<1>3. CASE PAuctions(t)        BY <1>1, <1>3 DEF PAuctions
<1>4. CASE ListAuctions(t)     BY <1>1, <1>4 DEF ListAuctions
<1>5. CASE CreateInvalid(t)    BY <1>1, <1>5 DEF CreateInvalid
<1>6. CASE CreateOwn(t)        BY <1>1, <1>6 DEF CreateOwn
<1>7. CASE CreateOwnFill(t)    BY <1>1, <1>7 DEF CreateOwnFill
<1>8. CASE CreateListFill(t)   BY <1>1, <1>8 DEF CreateListFill
<1>9. CASE WatchAuction(t)     BY <1>1, <1>9 DEF WatchAuction
<1>10. CASE LeaveAuction(t)     BY <1>1, <1>10 DEF LeaveAuction
<1>11. CASE LeaveNotWatching(t) \/ QueryWild(t)
  BY <1>1, <1>11 DEF LeaveNotWatching, QueryWild, Crash
<1>12. CASE BidNotFound(t)     BY <1>1, <1>12 DEF BidNotFound
<1>13. CASE BidDenied(t)       BY <1>1, <1>13 DEF BidDenied
<1>14. CASE BidLow(t)          BY <1>1, <1>14 DEF BidLow
<1>15. CASE BidRaise(t)        BY <1>1, <1>15 DEF BidRaise, TakeBid
<1>16. CASE BidUpdate(t)       BY <1>1, <1>16 DEF BidUpdate
<1>17. CASE BidBuyNow(t)       BY <1>1, <1>17 DEF BidBuyNow, TakeBid
<1>18. CASE QueryPUsers(t)     BY <1>1, <1>18 DEF QueryPUsers, PUsers
<1>19. CASE Query(t)           BY <1>1, <1>19 DEF Query
<1>20. CASE QueryVUsers(t)     BY <1>1, <1>20 DEF QueryVUsers
<1>21. CASE CloseAuction(t) \/ VAuctions(t)
  BY <1>1, <1>21, CloseAside
<1> QED BY <1>2, <1>3, <1>4, <1>5, <1>6, <1>7, <1>8, <1>9, <1>10, <1>11, <1>12, <1>13, <1>14,
           <1>15, <1>16, <1>17, <1>18, <1>19, <1>20, <1>21
        DEF ProcessJob, Create, Bid, UsersRequest

LEMMA TickAside ==
  ASSUME TypeOK, RunTick
  PROVE  \/ Aside(Tick) \/ CloseRemove(Tick)
         \/ TickStart \/ TickVisit \/ TickAdvance \/ TickCutShort
<1> USE DEF Aside, TypeOK, Go, Creation, Fresh, Leaving, Closing,
       users, auctions, list, sems, work, details, standing, watching
<1>1. Tick \in Threads
  BY DEF Threads
<1>2. CASE TickPAuctions  BY <1>1, <1>2 DEF TickPAuctions
<1>3. CASE TickWild       BY <1>1, <1>3 DEF TickWild, Crash
<1>4. CASE CloseAuction(Tick) \/ VAuctions(Tick)
  BY <1>1, <1>4, CloseAside
<1> QED BY <1>2, <1>3, <1>4 DEF RunTick

LEMMA TakeIdTimed ==
  ASSUME TypeOK, TypeOK', InHand, IdsLeft, LocksExclusive, OrderInv, TickInv,
         NEW t \in JobThreads, CreateTakeId(t), Others(t)
  PROVE  TickInv'
<1> DEFINE a == auctionID + 1
<1>1. /\ t \in Threads /\ t # Tick /\ pc[t] = "handle" /\ pc'[t] = "own" /\ at'[t] = a
      /\ auctionID' = a
      /\ duration' = [duration EXCEPT ![a] = req[t].duration]
      /\ due' = [due EXCEPT ![a] = req[t].duration]
      /\ ~InvalidArgs(req[t]) /\ UNCHANGED <<auctionsList, freedNext>>
  BY AuctionServerAssumption DEF CreateTakeId, Go, TypeOK, list, Threads
<1>2. /\ auctionID \in Nat /\ a \in Ids /\ req[t].duration \in Int /\ req[t].duration >= 1
  <2>1. a \in Ids
    BY IdLeft DEF CreateTakeId, Go, Ids
  <2>2. req[t] \in Requests /\ req[t].kind = "ANCREATE"
    BY <1>1 DEF CreateTakeId, InHand
  <2>3. req[t].duration \in Int
    BY <2>2, RequestFields, AuctionServerAssumption
  <2> QED BY <1>1, <2>1, <2>3 DEF InvalidArgs, TypeOK
<1>3. \A u \in JobThreads : pc'[u] \in Creation => u = t
  BY <1>1 DEF LocksExclusive, Guards, At, HoldsAuctions, Creation, Others, Threads
<1>4. \A b : (Listed(b)' <=> Listed(b)) /\ Late(b)' = Late(b)
  BY <1>1 DEF Listed, Late, Gone
<1>5. \A b : Listed(b) => b # a
  BY <1>2, ListedKnown
<1>6. \A b \in Ids : Listed(b) => duration'[b] = duration[b] /\ due'[b] = due[b]
  BY <1>1, <1>5 DEF TypeOK
<1>7. pc'[Tick] = pc[Tick] /\ at'[Tick] = at[Tick]
  BY <1>1 DEF Others, Threads
<1>8. NewestInHand'
  BY <1>1, <1>3 DEF NewestInHand
<1>9. Timed'
  <2>1. \A u \in JobThreads : pc'[u] \in Fresh => u = t
    BY <1>3 DEF Fresh, Creation
  <2>2. duration'[a] = req[t].duration /\ due'[a] = req[t].duration
    BY <1>1, <1>2 DEF TypeOK
  <2> QED BY <1>1, <1>2, <1>4, <1>6, <1>7, <2>1, <2>2 DEF TickInv, Timed
<1>10. ASSUME NEW R \in SUBSET Ids, NEW m \in Nat, Walk(R, m) PROVE Walk(R, m)'
  <2>1. m <= auctionID' /\ \A x \in R : x <= auctionID' /\ x # a
    <3>1. R \subseteq Nat
      BY DEF Ids
    <3> QED BY <1>1, <1>2, <1>10, <3>1 DEF Walk
  <2>2. \A u \in JobThreads : pc'[u] \in Creation => at'[u] > m
    BY <1>1, <1>2, <1>3, <1>10 DEF Walk
  <2>3. \A u \in JobThreads : pc'[u] \in Fresh => at'[u] \notin R
    BY <1>1, <1>3, <2>1 DEF Fresh, Creation
  <2>4. \A x : LeadsOn(x, R, m)' <=> LeadsOn(x, R, m)
    BY <1>1, <1>4 DEF LeadsOn
  <2>5. \A b \in Ids : Listed(b)' =>
          due'[b] >= duration'[b] - Late(b)' - (IF Ahead(b)' /\ b <= m THEN 1 ELSE 0)
    BY <1>4, <1>6, <1>7, <1>10 DEF Walk, Ahead
  <2> QED BY <1>4, <1>7, <1>10, <2>1, <2>2, <2>3, <2>4, <2>5 DEF Walk
<1> QED BY <1>8, <1>9, <1>10 DEF TickInv

LEMMA ListTimed ==
  ASSUME TypeOK, TypeOK', InHand, LocksExclusive, OrderInv, TickInv,
         NEW t \in JobThreads, CreateList(t), Others(t)
  PROVE  TickInv'
<1> DEFINE a == at[t]
<1>1. /\ t \in Threads /\ t # Tick /\ pc[t] = "list" /\ pc'[t] \in {"listFill", "V_auctions"}
      /\ at' = at /\ auctionsList' = Append(auctionsList, a)
      /\ UNCHANGED <<auctionID, duration, due, freedNext>>
  BY AuctionServerAssumption DEF CreateList, Go, TypeOK, auctions, Threads
<1>2. a \in Ids /\ a = auctionID /\ auctionID \in Nat
  BY <1>1 DEF InHand, Creation, TickInv, NewestInHand, TypeOK
<1>3. \A u \in JobThreads : pc'[u] \in Creation => u = t
  BY <1>1 DEF LocksExclusive, Guards, At, HoldsAuctions, Creation, Others, Threads
<1>4. \A b : Listed(b)' <=> Listed(b) \/ b = a
  <2>1. auctionsList \in Seq(Ids)
    BY DEF TypeOK
  <2>2. /\ Len(auctionsList') = Len(auctionsList) + 1 /\ Len(auctionsList) \in Nat
        /\ auctionsList'[Len(auctionsList) + 1] = a
        /\ \A i \in 1..Len(auctionsList) : auctionsList'[i] = auctionsList[i]
    BY <1>1, <2>1
  <2>3. \A b : Listed(b)' <=> \E i \in 1..Len(auctionsList') : auctionsList'[i] = b
    BY ListedNext DEF ListMeans
  <2>4. \A b : Listed(b) <=> \E i \in 1..Len(auctionsList) : auctionsList[i] = b
    BY ListedNow DEF ListMeans
  <2> QED BY <2>2, <2>3, <2>4
<1>5. \A b : Listed(b) => b \in Ids /\ b < a
  <2>1. \A i \in 1..Len(auctionsList) : auctionsList[i] < a
    BY <1>1, <1>2 DEF OrderInv, NewestLast, Fresh
  <2> QED BY <2>1, ListedIds, ListedNow DEF ListMeans
<1>6. \A b \in Ids : Listed(b)' => Late(b)' = Late(b)
  <2>1. ASSUME NEW b \in Ids, Listed(b)' PROVE Gone(b)' = Gone(b)
    <3>1. \A c \in 1..(b - 1) : c # a
      <4>1. b <= a /\ b \in Nat
        BY <1>2, <1>4, <1>5, <2>1 DEF Ids
      <4> QED BY <1>2, <4>1
    <3> QED BY <1>4, <3>1 DEF Gone
  <2> QED BY <2>1 DEF Late
<1>7. pc'[Tick] = pc[Tick] /\ at'[Tick] = at[Tick]
  BY <1>1 DEF Others, Threads
<1>8. NewestInHand'
  BY <1>1, <1>2, <1>3 DEF NewestInHand
<1>9. duration[a] >= 1 /\ due[a] >= duration[a]
  BY <1>1 DEF TickInv, Timed, Fresh
<1>10. \A u \in JobThreads : pc'[u] \notin Fresh
  BY <1>1, <1>3 DEF Fresh, Creation
<1>11. Timed'
  BY <1>1, <1>4, <1>7, <1>9, <1>10 DEF TickInv, Timed
<1>12. ASSUME NEW R \in SUBSET Ids, NEW m \in Nat, Walk(R, m)
       PROVE  \E S \in SUBSET Ids : Walk(S, m)'
  <2>0. PICK S \in SUBSET Ids : S = R \cup {a}
    BY <1>2
  <2>1. a > m /\ a \notin R /\ R \subseteq Nat
    BY <1>1, <1>12 DEF Walk, Fresh, Creation, Ids
  <2>2. \A x \in S : x <= auctionID
    BY <1>2, <1>12, <2>0 DEF Walk
  <2>3. \A u \in JobThreads : pc'[u] \in Creation => at'[u] > m
    BY <1>1, <1>3, <2>1
  <2>4. ASSUME NEW x \in S, ~Listed(x)' PROVE LeadsOn(x, S, m)'
    <3>1. x \in R /\ ~Listed(x) /\ LeadsOn(x, R, m)
      BY <1>4, <1>12, <2>0, <2>4 DEF Walk
    <3>2. CASE freedNext[x] = NULL /\ \A b \in Ids : Listed(b) /\ b > x => b > m
      BY <1>1, <1>4, <2>1, <3>2 DEF LeadsOn
    <3>3. CASE freedNext[x] \in R /\ \A b \in Ids : Listed(b) /\ b > x => b >= freedNext[x]
      <4>1. a >= freedNext[x]
        BY <1>2, <1>12, <2>1, <3>3 DEF Walk
      <4> QED BY <1>1, <1>4, <2>0, <3>3, <4>1 DEF LeadsOn
    <3> QED BY <3>1, <3>2, <3>3 DEF LeadsOn
  <2>5. \A b \in Ids : Listed(b)' =>
          due'[b] >= duration'[b] - Late(b)' - (IF Ahead(b)' /\ b <= m THEN 1 ELSE 0)
    <3>1. Late(a) \in Nat /\ duration[a] \in Int /\ due[a] \in Int
      BY <1>2, LateTyped DEF TypeOK
    <3>2. due[a] >= duration[a] - Late(a) - (IF Ahead(a)' /\ a <= m THEN 1 ELSE 0)
      BY <1>9, <3>1
    <3>3. \A b : Ahead(b)' <=> Ahead(b)
      BY <1>7 DEF Ahead
    <3> QED BY <1>1, <1>4, <1>6, <1>12, <3>2, <3>3 DEF Walk
  <2>6. \A b \in Ids : Listed(b)' => b \in S
    BY <1>4, <1>12, <2>0 DEF Walk
  <2>7. \A u \in JobThreads : pc'[u] \in Fresh => at'[u] \notin S
    BY <1>10
  <2>8. pc'[Tick] \in {"visit", "advance"} => at'[Tick] \in S
    BY <1>7, <1>12, <2>0 DEF Walk
  <2>9. Walk(S, m)'
    BY <1>1, <1>12, <2>2, <2>3, <2>4, <2>5, <2>6, <2>7, <2>8 DEF Walk
  <2> QED BY <2>9
<1>13. PICK R \in SUBSET Ids, m \in Nat : Walk(R, m)
  BY DEF TickInv
<1>14. \E S \in SUBSET Ids : Walk(S, m)'
  BY <1>12, <1>13
<1> QED BY <1>8, <1>11, <1>14 DEF TickInv

(* What is gone stays gone. *)
LEMMA LaterOn ==
  ASSUME NEW a \in Ids, \A b \in 1..(a - 1) : Listed(b)' => Listed(b)
  PROVE  /\ Late(a)' \in Nat /\ Late(a) <= Late(a)'
         /\ \A b \in 1..(a - 1) : Listed(b) /\ ~Listed(b)' => Late(a)' >= Late(a) + 1
<1> DEFINE G == Gone(a)
           H == {b \in 1..(a - 1) : ~Listed(b)'}
<1>1. IsFiniteSet(G) /\ Cardinality(G) = Late(a) /\ Late(a) \in Nat
  BY LateTyped DEF Late
<1>2. H = Gone(a)' /\ Cardinality(H) = Late(a)'
  BY DEF Late, Gone
<1>3. IsFiniteSet(H)
  <2>1. a - 1 \in Int /\ 1 \in Int
    BY DEF Ids
  <2>2. H \subseteq 1..(a - 1)
    OBVIOUS
  <2> HIDE DEF H
  <2> QED BY <2>1, <2>2, FS_Interval, FS_Subset
<1>4. G \subseteq H
  BY DEF Gone
<1>5. ASSUME NEW b \in 1..(a - 1), Listed(b), ~Listed(b)' PROVE b \notin G /\ b \in H
  BY <1>5 DEF Gone
<1> HIDE DEF G, H
<1>6. Cardinality(G) <= Cardinality(H) /\ Cardinality(H) \in Nat
  BY <1>3, <1>4, FS_Subset, FS_CardinalityType
<1>7. ASSUME NEW b, b \notin G, b \in H PROVE Cardinality(H) >= Cardinality(G) + 1
  <2>1. Cardinality(G \cup {b}) = Cardinality(G) + 1 /\ G \cup {b} \subseteq H
    BY <1>1, <1>4, <1>7, FS_AddElement
  <2>2. Cardinality(G \cup {b}) <= Cardinality(H)
    BY <1>3, <2>1, FS_Subset
  <2> QED BY <2>1, <2>2
<1> QED BY <1>1, <1>2, <1>5, <1>6, <1>7

(* The next pointer leads to the next auction of the list, by id. *)
LEMMA NextIs ==
  ASSUME TypeOK, OrderInv, NEW a, Listed(a), NEW b, Listed(b), b > a
  PROVE  NextNode(a) # NULL /\ b >= NextNode(a)
<1> DEFINE n == Len(auctionsList)
           i == IndexOf(auctionsList, a)
<1>1. auctionsList \in Seq(Ids) /\ n \in Nat
  BY DEF TypeOK
<1>2. i \in 1..n /\ auctionsList[i] = a
  BY <1>1, IndexOfFinds DEF Listed
<1>3. PICK j \in 1..n : auctionsList[j] = b
  BY ListedNow DEF ListMeans
<1>4. NextNode(a) = IF i = n THEN NULL ELSE auctionsList[i + 1]
  BY DEF NextNode
<1>5. /\ \A k, l \in 1..n : k < l => auctionsList[k] < auctionsList[l]
      /\ \A k \in 1..n : auctionsList[k] \in Nat
  BY ListOfIds DEF OrderInv, ListInIdOrder
<1>6. \A k \in 1..n : auctionsList[k] # NULL
  <2>1. NULL \notin Ids
    BY DEF NULL, Ids
  <2>2. \A k \in 1..n : auctionsList[k] \in Ids
    BY <1>1
  <2> QED BY <2>1, <2>2
<1> HIDE DEF n, i
<1>7. i < j
  <2>1. ~(j < i) /\ j # i
    BY <1>2, <1>3, <1>5
  <2> QED BY <1>1, <1>2, <1>3, <2>1
<1>8. i # n /\ i + 1 \in 1..n /\ (i + 1 = j \/ i + 1 < j)
  BY <1>1, <1>2, <1>3, <1>7
<1> QED BY <1>3, <1>4, <1>5, <1>6, <1>8

LEMMA RemoveTimed ==
  ASSUME TypeOK, TypeOK', InHand, LocksExclusive, OrderInv, TickInv,
         NEW t \in Threads, CloseRemove(t), Others(t)
  PROVE  TickInv'
<1> DEFINE y == at[t]
<1>1. /\ pc[t] = "remove" /\ pc'[t] = "V_auctions" /\ at' = at /\ Listed(y)
      /\ freedNext' = [freedNext EXCEPT ![y] = NextNode(y)]
      /\ UNCHANGED <<auctionID, duration, due>>
  BY DEF CloseRemove, Go, TypeOK, auctions, work
<1>2. y \in Ids
  BY <1>1 DEF InHand, Closing
<1>3. \A b : Listed(b)' <=> Listed(b) /\ b # y
  BY RemoveKeepsOrder
<1>4. \A u \in Threads : pc'[u] \in Creation \cup Closing => pc'[u] = pc[u] /\ u # t
  BY <1>1 DEF Others, Creation, Closing
<1>5. \A u \in JobThreads : pc'[u] \notin Creation
  BY <1>1, <1>4 DEF LocksExclusive, Guards, At, HoldsAuctions, Closing, Creation, Threads
<1>6. Fresh \subseteq Creation
  BY DEF Fresh, Creation
<1>7. Tick \in Threads
  BY DEF Threads
<1>8. NewestInHand'
  BY <1>5 DEF NewestInHand
<1>9. Timed'
  <2>1. ASSUME NEW b \in Ids, Listed(b), b # y, pc[Tick] \in Leaving, at[Tick] = b
        PROVE  pc'[Tick] \in Leaving
    BY <1>7, <2>1 DEF Others
  <2> QED BY <1>1, <1>3, <1>5, <1>6, <2>1 DEF TickInv, Timed
<1>10. \A b \in Ids : Listed(b)' => due[b] \in Int /\ duration[b] \in Int /\ Late(b) \in Nat
          /\ Late(b)' \in Nat /\ Late(b) <= Late(b)' /\ (y < b => Late(b)' >= Late(b) + 1)
  <2> SUFFICES ASSUME NEW b \in Ids, Listed(b)'
               PROVE  due[b] \in Int /\ duration[b] \in Int /\ Late(b) \in Nat
                        /\ Late(b)' \in Nat /\ Late(b) <= Late(b)'
                        /\ (y < b => Late(b)' >= Late(b) + 1)
    OBVIOUS
  <2>1. due[b] \in Int /\ duration[b] \in Int /\ Late(b) \in Nat
    BY LateTyped DEF TypeOK
  <2>2. y < b => y \in 1..(b - 1)
    BY <1>2 DEF Ids
  <2> QED BY <1>1, <1>3, <2>1, <2>2, LaterOn
<1>11. ASSUME NEW R \in SUBSET Ids, NEW m \in Nat, Walk(R, m) PROVE Walk(R, m)'
  <2>1. pc'[Tick] \in {"visit", "advance"} => at'[Tick] \in R
    BY <1>1, <1>7, <1>11 DEF Walk, Others
  <2>2. ASSUME NEW x \in R, ~Listed(x)' PROVE LeadsOn(x, R, m)'
    <3>1. CASE x = y
      <4>1. freedNext'[y] = NextNode(y)
        BY <1>1, <1>2 DEF TypeOK
      <4>2. NextNode(y) # NULL => NextNode(y) \in R
        BY <1>1, <1>11, ListedIds, ListedKnown DEF Walk
      <4>3. \A b \in Ids : Listed(b)' /\ b > y => NextNode(y) # NULL /\ b >= NextNode(y)
        BY <1>1, <1>3, NextIs
      <4> QED BY <1>1, <3>1, <4>1, <4>2, <4>3 DEF LeadsOn
    <3>2. CASE x # y
      <4>1. x \in Ids /\ freedNext'[x] = freedNext[x]
        BY <1>1, <3>2 DEF TypeOK
      <4>2. ~Listed(x)
        BY <1>3, <2>2, <3>2
      <4>3. LeadsOn(x, R, m)
        BY <1>11, <4>2 DEF Walk
      <4> QED BY <1>3, <4>1, <4>3 DEF LeadsOn
    <3> QED BY <3>1, <3>2
  <2>3. \A b \in Ids : Listed(b)' =>
          due'[b] >= duration'[b] - Late(b)' - (IF Ahead(b)' /\ b <= m THEN 1 ELSE 0)
    <3> SUFFICES ASSUME NEW b \in Ids, Listed(b)'
                 PROVE  due[b] >= duration[b] - Late(b)' - (IF Ahead(b)' /\ b <= m THEN 1 ELSE 0)
      BY <1>1
    <3>1. due[b] >= duration[b] - Late(b) - (IF Ahead(b) /\ b <= m THEN 1 ELSE 0)
      BY <1>3, <1>11 DEF Walk
    <3>2. CASE t = Tick
      <4>1. Ahead(b) => y < b
        BY <1>1, <3>2 DEF Ahead
      <4> QED BY <1>10, <3>1, <4>1
    <3>3. CASE t # Tick
      <4>1. Ahead(b)' <=> Ahead(b)
        BY <1>1, <1>7, <3>3 DEF Ahead, Others
      <4> QED BY <1>10, <3>1, <4>1
    <3> QED BY <3>2, <3>3
  <2> QED BY <1>1, <1>3, <1>5, <1>6, <1>11, <2>1, <2>2, <2>3 DEF Walk
<1> QED BY <1>8, <1>9, <1>11 DEF TickInv

(* The steps of the tick thread on its walk. *)
LEMMA TickStartTimed ==
  ASSUME TypeOK, TypeOK', InHand, OrderInv, TickInv, TickStart, Others(Tick)
  PROVE  TickInv'
<1> DEFINE h == Head(auctionsList)
<1>1. /\ pc[Tick] = "idle" /\ pc'[Tick] = "visit" /\ at'[Tick] = h
      /\ auctionsList # <<>> /\ UNCHANGED <<auctionID, duration, auctionsList, freedNext>>
  BY DEF TickStart, Go, TypeOK, auctions, list, Threads
<1>2. \A a \in Ids : \/ due'[a] = due[a]
                     \/ due'[a] = due[a] - 1 /\ Listed(a) /\ ~NodeUnfilled(a)
  BY DEF TickStart
<1>3. \A u \in JobThreads : pc'[u] = pc[u] /\ at'[u] = at[u]
  BY AuctionServerAssumption DEF Others, Threads
<1>4. \A a : (Listed(a)' <=> Listed(a)) /\ Late(a)' = Late(a)
  BY <1>1 DEF Listed, Late, Gone
<1>5. Listed(h) /\ \A a : Listed(a) => a \in Ids /\ a <= auctionID
  BY <1>1, ListedIds, ListedKnown
<1>6. NewestInHand'
  BY <1>1, <1>3 DEF TickInv, NewestInHand
<1>7. Timed'
  <2>1. \A a \in Ids : Listed(a) => duration[a] >= 1
    BY <1>1 DEF TickInv, Timed, Leaving, Closing
  <2>2. \A u \in JobThreads : pc[u] \in Fresh => due'[at[u]] = due[at[u]]
    <3>1. ASSUME NEW u \in JobThreads, pc[u] \in Fresh PROVE at[u] \in Ids /\ ~Listed(at[u])
      <4>1. at[u] \in Ids /\ at[u] = auctionID /\ auctionID \in Nat
        BY <3>1 DEF InHand, Creation, Fresh, TickInv, NewestInHand, Threads, TypeOK
      <4>2. \A i \in 1..Len(auctionsList) : auctionsList[i] # auctionID
        BY <3>1, <4>1, ListOfIds DEF OrderInv, NewestLast
      <4> QED BY <4>1, <4>2, ListedNow DEF ListMeans
    <3> QED BY <1>2, <3>1
  <2> QED BY <1>1, <1>3, <1>4, <2>1, <2>2 DEF TickInv, Timed
<1>8. PICK R \in SUBSET Ids : R = {a \in Ids : Listed(a)}
  OBVIOUS
<1>9. PICK m \in Nat : /\ m <= auctionID
                       /\ \A u \in JobThreads : pc[u] \in Creation => auctionID > m
                       /\ \A a \in Ids : Listed(a) /\ a > m =>
                            \E u \in JobThreads : pc[u] \in Creation /\ a = auctionID
  <2>1. auctionID \in Nat
    BY DEF TypeOK
  <2>2. CASE \E u \in JobThreads : pc[u] \in Creation
    <3>1. auctionID \in Ids
      BY <2>2 DEF TickInv, NewestInHand, InHand, Threads
    <3>2. auctionID - 1 \in Nat /\ auctionID > auctionID - 1 /\ auctionID - 1 <= auctionID
          /\ \A a \in Ids : Listed(a) /\ a > auctionID - 1 => a = auctionID
      BY <1>5, <2>1, <3>1 DEF Ids
    <3> QED BY <2>2, <3>2
  <2>3. CASE ~\E u \in JobThreads : pc[u] \in Creation
    BY <1>5, <2>1, <2>3 DEF Ids
  <2> QED BY <2>2, <2>3
<1>10. \A u \in JobThreads : pc'[u] \in Fresh => at'[u] \notin R
  <2> SUFFICES ASSUME NEW u \in JobThreads, pc[u] \in Fresh PROVE ~Listed(at[u])
    BY <1>3, <1>8
  <2>1. at[u] = auctionID /\ auctionID \in Nat
    BY DEF Creation, Fresh, TickInv, NewestInHand, TypeOK
  <2>2. \A i \in 1..Len(auctionsList) : auctionsList[i] # auctionID
    BY <2>1, ListOfIds DEF OrderInv, NewestLast
  <2> QED BY <2>1, <2>2, ListedNow DEF ListMeans
<1>11. \A a \in Ids : Listed(a) =>
         due'[a] >= duration[a] - Late(a) - (IF Ahead(a)' /\ a <= m THEN 1 ELSE 0)
  <2> SUFFICES ASSUME NEW a \in Ids, Listed(a)
               PROVE  due'[a] >= duration[a] - Late(a) - (IF Ahead(a)' /\ a <= m THEN 1 ELSE 0)
    OBVIOUS
  <2>1. due[a] \in Int /\ duration[a] \in Int /\ Late(a) \in Nat /\ a \in Nat
    BY Ages
  <2>2. due[a] >= duration[a] - Late(a)
    <3>1. ~Ahead(a)
      BY <1>1 DEF Ahead, Leaving, Closing
    <3> QED BY <2>1, <3>1 DEF TickInv, Walk
  <2>3. CASE a <= m
    <3>1. a >= h
      <4>1. auctionsList \in Seq(Ids) /\ Len(auctionsList) \in Nat
        BY DEF TypeOK
      <4>2. PICK i \in 1..Len(auctionsList) : auctionsList[i] = a
        BY ListedNow DEF ListMeans
      <4>3. h = auctionsList[1] /\ 1 \in 1..Len(auctionsList) /\ (i = 1 \/ 1 < i)
        BY <1>1, <4>1, <4>2
      <4>4. h \in Nat
        BY <4>3, ListOfIds
      <4> QED BY <2>1, <4>2, <4>3, <4>4 DEF OrderInv, ListInIdOrder
    <3>2. Ahead(a)'
      BY <1>1, <3>1 DEF Ahead
    <3> QED BY <1>2, <2>1, <2>2, <2>3, <3>2
  <2>4. CASE a > m
    <3>1. PICK u \in JobThreads : pc[u] \in Creation /\ a = auctionID
      BY <1>9, <2>4
    <3>2. at[u] = a
      BY <3>1 DEF TickInv, NewestInHand
    <3>3. pc[u] = "listFill"
      BY <1>3, <1>8, <1>10, <3>1, <3>2 DEF Creation, Fresh
    <3>4. NodeUnfilled(a)
      BY <3>2, <3>3 DEF NodeUnfilled
    <3> QED BY <1>2, <2>1, <2>2, <2>4, <3>4
  <2> QED BY <1>9, <2>1, <2>3, <2>4
<1>12. Walk(R, m)'
  BY <1>1, <1>3, <1>4, <1>5, <1>8, <1>9, <1>10, <1>11 DEF Walk, TickInv, NewestInHand
<1> QED BY <1>6, <1>7, <1>12 DEF TickInv

LEMMA TickVisitTimed ==
  ASSUME TypeOK, TypeOK', InHand, TickInv, TickVisit, Others(Tick)
  PROVE  TickInv'
<1> DEFINE b == at[Tick]
<1>1. /\ pc[Tick] = "visit" /\ pc'[Tick] = IF duration[b] = 1 THEN "P_auctions" ELSE "advance"
      /\ at' = at /\ duration' = [duration EXCEPT ![b] = @ - 1]
      /\ UNCHANGED <<auctionID, due, auctionsList, freedNext>>
  BY DEF TickVisit, Go, TypeOK, list, work, Threads
<1>2. b \in Ids /\ duration[b] \in Int /\ duration'[b] = duration[b] - 1
      /\ \A a \in Ids : a # b => duration'[a] = duration[a]
  BY <1>1 DEF InHand, Threads, TypeOK
<1>3. \A u \in JobThreads : pc'[u] = pc[u] /\ at'[u] = at[u]
  BY AuctionServerAssumption DEF Others, Threads
<1>4. \A a : (Listed(a)' <=> Listed(a)) /\ Late(a)' = Late(a)
  BY <1>1 DEF Listed, Late, Gone
<1>5. NewestInHand'
  BY <1>1, <1>3 DEF TickInv, NewestInHand
<1>6. PICK R \in SUBSET Ids, m \in Nat : Walk(R, m)
  BY DEF TickInv
<1>7. Timed'
  <2>1. \A u \in JobThreads : pc[u] \in Fresh => at[u] # b /\ at[u] \in Ids
    BY <1>1, <1>6 DEF Walk, InHand, Fresh, Creation, Threads
  <2>2. \A u \in JobThreads : pc'[u] \in Fresh =>
          duration'[at'[u]] >= 1 /\ due'[at'[u]] >= duration'[at'[u]]
    BY <1>1, <1>2, <1>3, <2>1 DEF TickInv, Timed
  <2>3. \A a \in Ids : Listed(a)' => duration[a] >= 1
    BY <1>1, <1>4 DEF TickInv, Timed, Leaving, Closing
  <2>4. \A a \in Ids : Listed(a)' => duration'[a] >= 1 \/ (pc'[Tick] \in Leaving /\ at'[Tick] = a)
    BY <1>1, <1>2, <2>3 DEF Leaving
  <2> QED BY <2>2, <2>4 DEF Timed
<1>8. Walk(R, m)'
  <2>1. ASSUME NEW a \in Ids, Listed(a)
        PROVE  due[a] >= duration'[a] - Late(a) - (IF Ahead(a)' /\ a <= m THEN 1 ELSE 0)
    <3>1. /\ due[a] \in Int /\ duration[a] \in Int /\ Late(a) \in Nat /\ a \in Nat /\ b \in Nat
          /\ due[a] >= duration[a] - Late(a) - (IF Ahead(a) /\ a <= m THEN 1 ELSE 0)
      BY <1>2, <1>6, <2>1, Ages DEF Walk
    <3>2. a # b => (Ahead(a)' <=> Ahead(a))
      BY <1>1, <3>1 DEF Ahead, Leaving, Closing
    <3> QED BY <1>2, <3>1, <3>2
  <2>2. \A x : LeadsOn(x, R, m)' <=> LeadsOn(x, R, m)
    BY <1>1, <1>4 DEF LeadsOn
  <2>3. pc'[Tick] \in {"visit", "advance"} => at'[Tick] \in R
    BY <1>1, <1>6 DEF Walk
  <2> QED BY <1>1, <1>3, <1>4, <1>6, <2>1, <2>2, <2>3 DEF Walk
<1> QED BY <1>5, <1>7, <1>8 DEF TickInv

(* The walk goes on, or it ends and leaves nothing behind. *)
LEMMA TickGoesOnTimed ==
  ASSUME TypeOK, TypeOK', InHand, OrderInv, TickInv, TickAdvance \/ TickCutShort, Others(Tick)
  PROVE  TickInv'
<1> DEFINE b == at[Tick]
<1>1. /\ pc[Tick] \in {"visit", "advance"} /\ pc'[Tick] \in {"visit", "idle"}
      /\ UNCHANGED <<auctionID, due, duration, auctionsList, freedNext>>
  BY DEF TickAdvance, TickCutShort, Go, TypeOK, auctions, list, Threads
<1>2. b \in Ids /\ b \in Nat
  BY <1>1 DEF InHand, Threads, Ids
<1>3. \A u \in JobThreads : pc'[u] = pc[u] /\ at'[u] = at[u]
  BY AuctionServerAssumption DEF Others, Threads
<1>4. \A a : (Listed(a)' <=> Listed(a)) /\ Late(a)' = Late(a)
  BY <1>1 DEF Listed, Late, Gone
<1>5. NewestInHand'
  BY <1>1, <1>3 DEF TickInv, NewestInHand
<1>6. Timed'
  BY <1>1, <1>3, <1>4 DEF TickInv, Timed, Leaving, Closing
<1>7. PICK R \in SUBSET Ids, m \in Nat : Walk(R, m)
  BY DEF TickInv
<1>8. /\ pc'[Tick] = "visit" => at'[Tick] \in R
      /\ \A a \in Ids : Listed(a) /\ Ahead(a) /\ a <= m => Ahead(a)'
  <2>1. CASE TickCutShort
    <3>1. PICK u \in JobThreads : pc[u] = "listFill" /\ at[u] = b
      BY <2>1 DEF TickCutShort, NodeUnfilled
    <3>2. b > m
      BY <1>7, <3>1 DEF Walk, Creation
    <3>3. \A a \in Ids : Ahead(a) => a > m
      BY <1>1, <1>2, <3>2 DEF Ahead, Leaving, Closing, Ids
    <3>4. pc'[Tick] = "idle"
      BY <2>1 DEF TickCutShort, Go, TypeOK, Threads
    <3> QED BY <3>3, <3>4 DEF Ids
  <2>2. CASE TickAdvance
    <3> DEFINE next == IF Listed(b) THEN NextNode(b) ELSE freedNext[b]
    <3>1. /\ pc[Tick] = "advance" /\ at'[Tick] = next
          /\ pc'[Tick] = IF next = NULL THEN "idle" ELSE "visit"
      BY <2>2 DEF TickAdvance, Go, TypeOK, Threads
    <3>2. next = NULL \/ next \in R
      BY <1>7, ListedKnown, ListedIds, <1>1 DEF Walk, LeadsOn
    <3>3. \A a \in Ids : Listed(a) /\ a > b /\ a <= m => next # NULL /\ a >= next
      <4>1. CASE Listed(b)
        BY <4>1, NextIs
      <4>2. CASE ~Listed(b)
        <5>1. LeadsOn(b, R, m)
          BY <1>1, <1>7, <4>2 DEF Walk
        <5>2. NULL \notin R /\ \A a \in Ids : a \in Nat
          BY DEF NULL, Ids
        <5> QED BY <4>2, <5>1, <5>2 DEF LeadsOn
      <4> QED BY <4>1, <4>2
    <3> HIDE DEF next
    <3>4. \A a : Ahead(a) => a > b
      BY <3>1 DEF Ahead
    <3> QED BY <3>1, <3>2, <3>3, <3>4 DEF Ahead
  <2> QED BY <2>1, <2>2
<1>9. Walk(R, m)'
  <2>1. ASSUME NEW a \in Ids, Listed(a)
        PROVE  due[a] >= duration[a] - Late(a) - (IF Ahead(a)' /\ a <= m THEN 1 ELSE 0)
    <3>1. /\ due[a] \in Int /\ duration[a] \in Int /\ Late(a) \in Nat
          /\ due[a] >= duration[a] - Late(a) - (IF Ahead(a) /\ a <= m THEN 1 ELSE 0)
      BY <1>7, <2>1, LateTyped DEF TypeOK, Walk
    <3> QED BY <1>8, <2>1, <3>1
  <2>2. \A x : LeadsOn(x, R, m)' <=> LeadsOn(x, R, m)
    BY <1>1, <1>4 DEF LeadsOn
  <2>3. pc'[Tick] \in {"visit", "advance"} => at'[Tick] \in R
    BY <1>1, <1>8
  <2> QED BY <1>1, <1>3, <1>4, <1>7, <2>1, <2>2, <2>3 DEF Walk
<1> QED BY <1>5, <1>6, <1>9 DEF TickInv

LEMMA StepTimed ==
  ASSUME TypeOK, TypeOK', InHand, IdsLeft, LocksExclusive, OrderInv, TickInv, [Next]_vars
  PROVE  TickInv'
<1>1. CASE UNCHANGED vars
  BY <1>1 DEF vars, auctions, list, work, TickInv, NewestInHand, Timed, Walk, LeadsOn, Ahead,
     Late, Gone, Listed
<1>2. ASSUME NEW t \in JobThreads, TakeRequest(t) \/ ProcessJob(t), Others(t)
      PROVE  TickInv'
  BY <1>2, JobAside, AsideKeeps, TakeIdTimed, ListTimed, RemoveTimed DEF Threads
<1>3. CASE RunTick /\ Others(Tick)
  BY <1>3, TickAside, AsideKeeps, RemoveTimed, TickStartTimed, TickVisitTimed, TickGoesOnTimed
     DEF Threads
<1> QED BY <1>1, <1>2, <1>3, StepOthers

(* However the walk of the tick thread is cut short, and whatever is       *)
(* created, bought and freed under its feet, an auction outlives its       *)
(* duration by no more ticks than there are auctions created before it.    *)
THEOREM OutlivesBounded == Spec => []OutlivesByEarlierAuctions
<1>1. Init => TickInv
  <2> SUFFICES ASSUME Init PROVE TickInv
    OBVIOUS
  <2>1. \A a : ~Listed(a)
    BY InitTyped, ListedNow DEF ListMeans, Init
  <2>2. NewestInHand /\ Timed
    BY <2>1 DEF Init, NewestInHand, Timed, Threads, Creation, Fresh
  <2>3. Walk({}, 0)
    BY <2>1 DEF Init, Walk, Threads, Creation, Fresh
  <2> QED BY <2>2, <2>3 DEF TickInv
<1>2. /\ TypeOK /\ TypeOK' /\ InHand /\ IdsLeft /\ LocksExclusive /\ OrderInv
      /\ TickInv /\ [Next]_vars
      => TickInv'
  BY StepTimed
<1>3. TypeOK /\ TickInv => OutlivesByEarlierAuctions
  <2> SUFFICES ASSUME TypeOK, TickInv, NEW a \in Ids, pc[Tick] = "idle", Listed(a)
               PROVE  due[a] > 1 - a
    BY DEF OutlivesByEarlierAuctions
  <2>1. /\ due[a] \in Int /\ duration[a] \in Int /\ Late(a) \in Nat /\ Late(a) <= a - 1
        /\ a \in Nat
    BY Ages
  <2>2. ~Ahead(a) /\ duration[a] >= 1
    BY DEF Ahead, Leaving, Closing, TickInv, Timed
  <2>3. due[a] >= duration[a] - Late(a)
    BY <2>1, <2>2 DEF TickInv, Walk
  <2> QED BY <2>1, <2>2, <2>3
<1> QED BY <1>1, <1>2, <1>3, TypedInHand, MutualExclusion, OrderHolds, PTL DEF Spec
===============================================================================
