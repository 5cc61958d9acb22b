--------------------------- MODULE AuctionOrderProofs ---------------------------
(***************************************************************************)
(* Proofs about the order of auctionsList and the bids of AuctionServer,   *)
(* for any number of users, job threads, auctions and requests:            *)
(*   - ListOrdered: ListInIdOrder;                                         *)
(*   - BuyNowCloses: BuyNowEndsAuction;                                    *)
(*   - BidsRise: BidsOnlyRise, which needs BuyNowEndsAuction, because a    *)
(*     buy-now bid is taken without a look at the bid that stands;         *)
(*   - ChargedStays: ChargedIsFinal.                                       *)
(***************************************************************************)
EXTENDS AuctionServerProofs

(* The threads between an id and its place in the list. *)
Fresh == {"own", "ownFill", "list"}

NewestLast ==
  \A t \in JobThreads : pc[t] \in Fresh =>
    at[t] = auctionID /\ \A i \in 1..Len(auctionsList) : auctionsList[i] < auctionID

(* Nobody has bid on an auction that is not in the list yet. *)
NoEarlyBids ==
  /\ \A a \in Ids : a > auctionID => bid[a] = 0
  /\ \A t \in JobThreads : pc[t] \in Fresh => bid[at[t]] = 0 /\ bin_price[at[t]] >= 0

OrderInv == ListInIdOrder /\ NewestLast /\ NoEarlyBids /\ BuyNowEndsAuction

(* The steps that leave the list and the bids alone. *)
Quiet ==
  /\ UNCHANGED <<auctionsList, auctionID, bid, currentWinner, bin_price>>
  /\ \A t \in JobThreads : pc'[t] \in Fresh => pc[t] \in Fresh /\ at'[t] = at[t]
  /\ \A t \in Threads : pc[t] \in Closing => pc'[t] \in Closing /\ at'[t] = at[t]
-------------------------------------------------------------------------------
(* The places of the list hold the auctions that are listed. *)
LEMMA ListedMeans ==
  TypeOK => \A a : Listed(a) <=> \E i \in 1..Len(auctionsList) : auctionsList[i] = a
<1> SUFFICES ASSUME TypeOK, NEW a
             PROVE  Listed(a) <=> \E i \in 1..Len(auctionsList) : auctionsList[i] = a
  OBVIOUS
<1>1. auctionsList \in Seq(Ids)
  BY DEF TypeOK
<1> QED BY <1>1, IndexOfFinds DEF Listed

ListMeans == \A a : Listed(a) <=> \E i \in 1..Len(auctionsList) : auctionsList[i] = a
LEMMA ListedNow == ASSUME TypeOK PROVE ListMeans
  BY ListedMeans DEF ListMeans

LEMMA ListedNext == ASSUME TypeOK' PROVE ListMeans'
<1>1. (TypeOK => ListMeans)'
  BY ListedNow, PTL
<1> QED BY <1>1

LEMMA ListOfIds ==
  ASSUME TypeOK
  PROVE  \A i \in 1..Len(auctionsList) : auctionsList[i] \in Nat
<1>1. auctionsList \in Seq(Ids)
  BY DEF TypeOK
<1>2. Ids \subseteq Nat
  BY DEF Ids
<1>3. \A i \in 1..Len(auctionsList) : auctionsList[i] \in Ids
  BY <1>1
<1> QED BY <1>2, <1>3

LEMMA QuietKeeps ==
  ASSUME TypeOK, TypeOK', OrderInv, Quiet
  PROVE  OrderInv'
<1>1. ListInIdOrder'
  BY DEF OrderInv, ListInIdOrder, Quiet
<1>2. NewestLast' /\ NoEarlyBids'
  BY DEF OrderInv, NewestLast, NoEarlyBids, Quiet
<1>3. \A a : Listed(a)' <=> Listed(a)
  BY ListedNow, ListedNext DEF ListMeans, Quiet
<1>4. \A a : IsClosing(a) => IsClosing(a)'
  BY DEF IsClosing, Quiet
<1>5. BuyNowEndsAuction'
  BY <1>3, <1>4 DEF OrderInv, BuyNowEndsAuction, BinFlag, Quiet
<1> QED BY <1>1, <1>2, <1>5 DEF OrderInv

(* Most steps are quiet: they move a thread elsewhere than into Fresh or   *)
(* out of Closing, with what it has in hand.                               *)
LEMMA MovesQuietly ==
  ASSUME TypeOK, NEW t \in Threads, NEW from, NEW to, Go(t, from, to),
         UNCHANGED <<auctionsList, auctionID, bid, currentWinner, bin_price>>,
         \A u \in Threads : u # t => at'[u] = at[u],
         to \in Fresh => from \in Fresh /\ at'[t] = at[t],
         from \in Closing => to \in Closing /\ at'[t] = at[t]
  PROVE  Quiet
<1>1. pc[t] = from /\ pc'[t] = to /\ \A u \in Threads : u # t => pc'[u] = pc[u]
  BY DEF Go, TypeOK
<1> QED BY <1>1 DEF Quiet, Threads

(* The steps of a job thread or the tick thread on the list or the bids. *)
Loud ==
  \/ \E t \in JobThreads : CreateTakeId(t) \/ CreateList(t) \/ BidRaise(t) \/ BidBuyNow(t)
  \/ \E t \in Threads : CloseRemove(t)

LEMMA ClosesQuietly ==
  ASSUME TypeOK, NEW t \in Threads, CloseAuction(t) \/ VAuctions(t)
  PROVE  Quiet \/ Loud
<1> USE DEF Fresh, Closing, users, auctions, list, sems, work, details, standing, watching
<1>1. CASE ClosePCharge(t) BY <1>1, MovesQuietly DEF ClosePCharge, PUsers
<1>2. CASE CloseCharge(t)  BY <1>2, MovesQuietly DEF CloseCharge
<1>3. CASE ClosePPay(t)    BY <1>3, MovesQuietly DEF ClosePPay, PUsers
<1>4. CASE ClosePay(t)     BY <1>4, MovesQuietly DEF ClosePay
<1>5. CASE CloseNotify(t)  BY <1>5, MovesQuietly DEF CloseNotify
<1>6. CASE CloseRemove(t)  BY <1>6 DEF Loud
<1>7. CASE CloseAbsent(t)  BY <1>7 DEF CloseAbsent, Crash, Quiet
<1>8. CASE VAuctions(t)    BY <1>8, MovesQuietly DEF VAuctions, TypeOK
<1> QED BY <1>1, <1>2, <1>3, <1>4, <1>5, <1>6, <1>7, <1>8 DEF CloseAuction

LEMMA QuietOrLoud ==
  ASSUME TypeOK, InHand, [Next]_vars
  PROVE  Quiet \/ Loud
<1> USE DEF Fresh, Closing, users, auctions, list, sems, work, details, standing, watching
<1>1. CASE UNCHANGED <<auctions, list, pc, at>>
  BY <1>1 DEF Quiet
<1>2. ASSUME NEW t \in JobThreads, TakeRequest(t) PROVE Quiet
  <2>1. PICK to \in {"P_users", "P_auctions"} : Go(t, "idle", to)
    BY <1>2 DEF TakeRequest
  <2> QED BY <1>2, <2>1, MovesQuietly DEF TakeRequest, Threads
<1>3. ASSUME NEW t \in JobThreads, ProcessJob(t) PROVE Quiet \/ Loud
  <2>1. t \in Threads
    BY DEF Threads
  <2>2. CASE PAuctions(t)      BY <2>1, <2>2, MovesQuietly DEF PAuctions
  <2>3. CASE ListAuctions(t)   BY <2>1, <2>3, MovesQuietly DEF ListAuctions, Handling
  <2>4. CASE CreateInvalid(t)  BY <2>1, <2>4, MovesQuietly DEF CreateInvalid, Handling
  <2>5. CASE CreateOwn(t)      BY <2>1, <2>5, MovesQuietly DEF CreateOwn
  <2>6. CASE CreateOwnFill(t)  BY <2>1, <2>6, MovesQuietly DEF CreateOwnFill
  <2>7. CASE CreateListFill(t) BY <2>1, <2>7, MovesQuietly DEF CreateListFill
  <2>8. CASE WatchAuction(t)   BY <2>1, <2>8, MovesQuietly DEF WatchAuction, Handling
  <2>9. CASE LeaveAuction(t)   BY <2>1, <2>9, MovesQuietly DEF LeaveAuction, Handling
  <2>10. CASE LeaveNotWatching(t) BY <1>1, <2>10 DEF LeaveNotWatching, Crash
  <2>11. CASE BidNotFound(t)   BY <2>1, <2>11, MovesQuietly DEF BidNotFound, Handling
  <2>12. CASE BidDenied(t)     BY <2>1, <2>12, MovesQuietly DEF BidDenied, Handling
  <2>13. CASE BidLow(t)        BY <2>1, <2>13, MovesQuietly DEF BidLow, Handling
  <2>14. CASE BidUpdate(t)     BY <2>1, <2>14, MovesQuietly DEF BidUpdate
  <2>15. CASE QueryPUsers(t)   BY <2>1, <2>15, MovesQuietly DEF QueryPUsers, PUsers
  <2>16. CASE Query(t)         BY <2>1, <2>16, MovesQuietly DEF Query
  <2>17. CASE QueryWild(t)     BY <1>1, <2>17 DEF QueryWild, Crash
  <2>18. CASE QueryVUsers(t)   BY <2>1, <2>18, MovesQuietly DEF QueryVUsers
  <2>19. CASE CloseAuction(t) \/ VAuctions(t) BY <2>1, <2>19, ClosesQuietly
  <2>20. CASE CreateTakeId(t) \/ CreateList(t) \/ BidRaise(t) \/ BidBuyNow(t)
    BY <2>20 DEF Loud
  <2> QED BY <1>3, <2>2, <2>3, <2>4, <2>5, <2>6, <2>7, <2>8, <2>9, <2>10, <2>11, <2>12,
             <2>13, <2>14, <2>15, <2>16, <2>17, <2>18, <2>19, <2>20
          DEF ProcessJob, Create, Bid, UsersRequest
<1>4. CASE RunTick
  <2>1. Tick \in Threads
    BY DEF Threads
  <2>2. CASE TickStart     BY <2>1, <2>2, MovesQuietly DEF TickStart, TypeOK
  <2>3. CASE TickVisit     BY <2>1, <2>3, MovesQuietly DEF TickVisit
  <2>4. CASE TickPAuctions BY <2>1, <2>4, MovesQuietly DEF TickPAuctions
  <2>5. CASE TickAdvance   BY <2>1, <2>5, MovesQuietly DEF TickAdvance, TypeOK
  <2>6. CASE TickWild      BY <1>1, <2>6 DEF TickWild, Crash
  <2>7. CASE TickCutShort  BY <2>1, <2>7, MovesQuietly DEF TickCutShort, TypeOK
  <2>8. CASE CloseAuction(Tick) \/ VAuctions(Tick) BY <2>1, <2>8, ClosesQuietly
  <2> QED BY <1>4, <2>2, <2>3, <2>4, <2>5, <2>6, <2>7, <2>8 DEF RunTick
<1>5. CASE UNCHANGED vars
  BY <1>1, <1>5 DEF vars
<1> QED BY <1>2, <1>3, <1>4, <1>5 DEF Next, Quiescent
-------------------------------------------------------------------------------
(* The thread that holds auctionsMutex is alone between an id and its      *)
(* place, and in closeAuction.                                             *)
LEMMA HoldsAlone ==
  ASSUME LocksExclusive, NEW t \in Threads, pc[t] \in HoldsAuctions
  PROVE  \A u \in Threads : u # t => pc[u] \notin Fresh \cup Closing
<1>1. \A u \in Threads : pc[u] \in HoldsAuctions => u = t
  BY DEF LocksExclusive, Guards, At
<1>2. Fresh \cup Closing \subseteq HoldsAuctions
  BY DEF Fresh, HoldsAuctions
<1> QED BY <1>1, <1>2

LEMMA NobodyClosing ==
  ASSUME LocksExclusive, NEW t \in Threads, pc[t] \in HoldsAuctions, pc[t] \notin Closing
  PROVE  \A a : ~IsClosing(a)
  BY HoldsAlone DEF IsClosing

LEMMA CreateTakeIdKeeps ==
  ASSUME TypeOK, TypeOK', IdsLeft, LocksExclusive, OrderInv,
         NEW t \in JobThreads, CreateTakeId(t)
  PROVE  OrderInv'
<1> DEFINE a == auctionID + 1
<1>1. t \in Threads /\ pc[t] = "handle" /\ a \in Ids /\ auctionID \in Nat
  BY IdLeft DEF CreateTakeId, Go, Threads, Ids, TypeOK
<1>2. \A u \in Threads : u # t => pc[u] \notin Fresh \cup Closing
  BY <1>1, HoldsAlone DEF HoldsAuctions
<1>3. \A b : ~IsClosing(b)
  BY <1>1, NobodyClosing DEF HoldsAuctions, Closing
<1>4. /\ pc'[t] = "own" /\ \A u \in Threads : u # t => pc'[u] = pc[u]
      /\ at'[t] = a /\ auctionID' = a /\ UNCHANGED <<auctionsList, bid>>
      /\ bin_price' = [bin_price EXCEPT ![a] = req[t].price] /\ ~(req[t].price < 0)
  BY <1>1 DEF CreateTakeId, Go, TypeOK, InvalidArgs, list, standing
<1>5. \A u \in JobThreads : pc'[u] \in Fresh => u = t
  BY <1>2, <1>4 DEF Threads
<1>6. /\ bin_price'[a] = req[t].price /\ \A b \in Ids : b # a => bin_price'[b] = bin_price[b]
      /\ bin_price'[a] \in Int
  BY <1>1, <1>4 DEF TypeOK
<1>7. \A i \in 1..Len(auctionsList) : auctionsList[i] \in Nat /\ auctionsList[i] < a
  <2>1. \A i \in 1..Len(auctionsList) : auctionsList[i] \in Nat /\ auctionsList[i] <= auctionID
    BY ListOfIds DEF OrderInv, ListInIdOrder
  <2> QED BY <1>1, <2>1
<1> HIDE DEF a
<1>8. ListInIdOrder'
  <2>1. \A i \in 1..Len(auctionsList) : auctionsList[i] <= a
    BY <1>1, <1>7 DEF Ids
  <2> QED BY <1>4, <2>1 DEF OrderInv, ListInIdOrder
<1>9. NewestLast'
  BY <1>4, <1>5, <1>7 DEF NewestLast
<1>10. NoEarlyBids'
  <2>1. \A b \in Ids : b >= a => bid[b] = 0
    BY <1>1 DEF OrderInv, NoEarlyBids, a, Ids
  <2>2. \A b \in Ids : b > auctionID' => bid'[b] = 0
    BY <1>1, <1>4, <2>1 DEF Ids
  <2>3. bid'[a] = 0 /\ bin_price'[a] >= 0
    BY <1>1, <1>4, <1>6, <2>1 DEF Ids
  <2> QED BY <1>4, <1>5, <2>2, <2>3 DEF NoEarlyBids
<1>11. BuyNowEndsAuction'
  <2>1. \A b : Listed(b)' <=> Listed(b)
    BY <1>4, ListedNow, ListedNext DEF ListMeans
  <2>2. ~Listed(a)
    BY <1>1, <1>7, ListedNow DEF ListMeans, Ids
  <2> QED BY <1>3, <1>4, <1>6, <2>1, <2>2 DEF OrderInv, BuyNowEndsAuction, BinFlag
<1> QED BY <1>8, <1>9, <1>10, <1>11 DEF OrderInv

LEMMA CreateListKeeps ==
  ASSUME TypeOK, TypeOK', InHand, LocksExclusive, OrderInv, NEW t \in JobThreads, CreateList(t)
  PROVE  OrderInv'
<1> DEFINE n == Len(auctionsList)
<1>1. t \in Threads /\ pc[t] = "list" /\ auctionID \in Nat
  BY DEF CreateList, Go, Threads, TypeOK
<1>2. /\ \A u \in Threads : u # t => pc[u] \notin Fresh \cup Closing
      /\ \A b : ~IsClosing(b)
  BY <1>1, HoldsAlone, NobodyClosing DEF HoldsAuctions, Closing
<1>3. /\ at[t] = auctionID /\ at[t] \in Ids /\ bid[at[t]] = 0 /\ bin_price[at[t]] >= 0
      /\ \A i \in 1..n : auctionsList[i] < auctionID
  BY <1>1 DEF OrderInv, NewestLast, NoEarlyBids, Fresh, InHand, Creation
<1>4. /\ auctionsList' = Append(auctionsList, at[t]) /\ UNCHANGED <<bid, bin_price, auctionID>>
      /\ pc'[t] \in {"V_auctions", "listFill"} /\ \A u \in Threads : u # t => pc'[u] = pc[u]
  BY <1>1 DEF CreateList, Go, TypeOK, auctions, details, standing
<1>5. \A u \in JobThreads : pc'[u] \notin Fresh
  BY <1>2, <1>4 DEF Threads, Fresh
<1>6. /\ n \in Nat /\ Len(auctionsList') = n + 1 /\ auctionsList'[n + 1] = auctionID
      /\ \A i \in 1..n : auctionsList'[i] = auctionsList[i] /\ auctionsList[i] \in Nat
  <2>1. auctionsList \in Seq(Ids) /\ n \in Nat
    BY DEF TypeOK
  <2>2. /\ Len(auctionsList') = n + 1 /\ auctionsList'[n + 1] = at[t]
        /\ \A i \in 1..n : auctionsList'[i] = auctionsList[i]
    BY <1>3, <1>4, <2>1
  <2> QED BY <1>3, <2>1, <2>2, ListOfIds
<1> HIDE DEF n
<1>7. \A i \in 1..(n + 1) : i \in 1..n \/ i = n + 1
  BY <1>6
<1>8. ListInIdOrder'
  <2>1. \A i, j \in 1..n : i < j => auctionsList[i] < auctionsList[j]
    BY DEF OrderInv, ListInIdOrder, n
  <2>2. \A i, j \in 1..(n + 1) : i < j => auctionsList'[i] < auctionsList'[j]
    <3> SUFFICES ASSUME NEW i \in 1..(n + 1), NEW j \in 1..(n + 1), i < j
                 PROVE  auctionsList'[i] < auctionsList'[j]
      OBVIOUS
    <3>1. i \in 1..n
      BY <1>6
    <3>2. CASE j \in 1..n
      BY <1>6, <2>1, <3>1, <3>2
    <3>3. CASE j = n + 1
      BY <1>3, <1>6, <3>1, <3>3 DEF n
    <3> QED BY <1>7, <3>2, <3>3
  <2>3. \A i \in 1..(n + 1) : auctionsList'[i] <= auctionID'
    BY <1>1, <1>3, <1>4, <1>6, <1>7 DEF n
  <2> QED BY <1>6, <2>2, <2>3 DEF ListInIdOrder
<1>9. NewestLast' /\ NoEarlyBids'
  BY <1>4, <1>5 DEF OrderInv, NewestLast, NoEarlyBids
<1>10. BuyNowEndsAuction'
  <2>1. \A b : Listed(b)' => Listed(b) \/ b = at[t]
    BY <1>3, <1>6, <1>7, ListedNow, ListedNext DEF ListMeans, n
  <2>2. bid[at[t]] \in Int /\ bin_price[at[t]] \in Int
    BY <1>3 DEF TypeOK
  <2> QED BY <1>2, <1>3, <1>4, <2>1, <2>2 DEF OrderInv, BuyNowEndsAuction, BinFlag
<1> QED BY <1>8, <1>9, <1>10 DEF OrderInv

(* A bid is on an auction of the list, which nobody is closing. *)
LEMMA BidKeeps ==
  ASSUME TypeOK, TypeOK', InHand, LocksExclusive, OrderInv,
         NEW t \in JobThreads, BidRaise(t) \/ BidBuyNow(t)
  PROVE  OrderInv'
<1> DEFINE a == req[t].id
<1>1. /\ t \in Threads /\ pc[t] = "handle" /\ req[t] \in Requests /\ Listed(a)
      /\ a \in Ids /\ req[t].bid \in Int
  <2>1. t \in Threads /\ pc[t] = "handle" /\ req[t].kind = "ANBID" /\ Listed(a)
    BY DEF BidRaise, BidBuyNow, Go, Threads, MayBid
  <2>2. req[t] \in Requests
    BY <2>1 DEF InHand
  <2> QED BY <2>1, <2>2, RequestFields, AuctionServerAssumption
<1>2. /\ \A u \in Threads : u # t => pc[u] \notin Fresh \cup Closing
      /\ \A b : ~IsClosing(b)
  BY <1>1, HoldsAlone, NobodyClosing DEF HoldsAuctions, Closing
<1>3. /\ bid' = [bid EXCEPT ![a] = req[t].bid] /\ at'[t] = a
      /\ UNCHANGED <<auctionsList, auctionID, bin_price>>
      /\ pc'[t] \in {"update", "P_charge"} /\ \A u \in Threads : u # t => pc'[u] = pc[u]
  BY <1>1 DEF BidRaise, BidBuyNow, TakeBid, Go, TypeOK, list, details
<1>4. \A u \in JobThreads : pc'[u] \notin Fresh
  BY <1>2, <1>3 DEF Threads, Fresh
<1>5. a <= auctionID
  BY <1>1, ListedNow DEF ListMeans, OrderInv, ListInIdOrder
<1>6. bid'[a] = req[t].bid /\ \A b \in Ids : b # a => bid'[b] = bid[b]
  BY <1>1, <1>3 DEF TypeOK
<1>7. \A b : Listed(b)' <=> Listed(b)
  BY <1>3, ListedNow, ListedNext DEF ListMeans
<1>8. BinFlag(a) /\ req[t].bid > bin_price[a] => pc'[t] \in Closing
  <2>1. CASE BidRaise(t)
    BY <1>1, <2>1 DEF BidRaise, BuysNow
  <2>2. CASE BidBuyNow(t)
    <3>1. pc'[t] = "P_charge"
      BY <1>1, <2>2 DEF BidBuyNow, Go, TypeOK
    <3> QED BY <3>1 DEF Closing
  <2> QED BY <2>1, <2>2
<1> HIDE DEF a
<1>9. ListInIdOrder' /\ NewestLast'
  BY <1>3, <1>4 DEF OrderInv, ListInIdOrder, NewestLast
<1>10. NoEarlyBids'
  <2>1. \A b \in Ids : b > auctionID => b # a
    BY <1>1, <1>5 DEF TypeOK, Ids
  <2> QED BY <1>3, <1>4, <1>6, <2>1 DEF OrderInv, NoEarlyBids
<1>11. BuyNowEndsAuction'
  <2> SUFFICES ASSUME NEW b \in Ids, BinFlag(b)', bid'[b] > bin_price'[b]
               PROVE  ~Listed(b)' \/ IsClosing(b)'
    BY DEF BuyNowEndsAuction
  <2>1. CASE b = a
    BY <1>1, <1>3, <1>6, <1>8, <2>1 DEF BinFlag, IsClosing
  <2>2. CASE b # a
    BY <1>2, <1>3, <1>6, <1>7, <2>2 DEF OrderInv, BuyNowEndsAuction, BinFlag
  <2> QED BY <2>1, <2>2
<1> QED BY <1>9, <1>10, <1>11 DEF OrderInv

(* The list holds every auction once, so that a closed one is gone. *)
LEMMA RemoveKeepsOrder ==
  ASSUME TypeOK, TypeOK', OrderInv, NEW t \in Threads, CloseRemove(t)
  PROVE  /\ ListInIdOrder'
         /\ \A b : Listed(b)' <=> Listed(b) /\ b # at[t]
<1> DEFINE n == Len(auctionsList)
           k == IndexOf(auctionsList, at[t])
<1>1. /\ Listed(at[t]) /\ auctionsList \in Seq(Ids) /\ n \in Nat
      /\ auctionID' = auctionID /\ auctionsList' = RemoveAt(auctionsList, k)
  BY DEF CloseRemove, TypeOK, auctions
<1>2. k \in 1..n /\ auctionsList[k] = at[t]
  BY <1>1, IndexOfFinds DEF Listed
<1>3. /\ Len(auctionsList') = n - 1
      /\ \A j \in 1..(n - 1) :
           auctionsList'[j] = IF j < k THEN auctionsList[j] ELSE auctionsList[j + 1]
  BY <1>1, <1>2, RemoveAtDrops
<1>4. /\ \A i, j \in 1..n : i < j => auctionsList[i] < auctionsList[j]
      /\ \A i \in 1..n : auctionsList[i] <= auctionID /\ auctionsList[i] \in Nat
  BY ListOfIds DEF OrderInv, ListInIdOrder
<1> HIDE DEF n, k
<1>5. ListInIdOrder'
  <2>1. \A i, j \in 1..(n - 1) : i < j => auctionsList'[i] < auctionsList'[j]
    BY <1>1, <1>2, <1>3, <1>4
  <2>2. \A i \in 1..(n - 1) : auctionsList'[i] <= auctionID'
    BY <1>1, <1>2, <1>3, <1>4
  <2> QED BY <1>3, <2>1, <2>2 DEF ListInIdOrder
<1>6. ASSUME NEW b, Listed(b)' PROVE Listed(b) /\ b # at[t]
  <2>1. PICK j \in 1..(n - 1) : auctionsList'[j] = b
    BY <1>3, <1>6, ListedNext DEF ListMeans
  <2>2. CASE j < k
    <3>1. j \in 1..n /\ auctionsList[j] = b /\ auctionsList[j] < auctionsList[k]
      BY <1>1, <1>2, <1>3, <1>4, <2>1, <2>2
    <3> QED BY <1>2, <1>4, <3>1, ListedNow DEF ListMeans, n
  <2>3. CASE ~(j < k)
    <3>1. j + 1 \in 1..n /\ auctionsList[j + 1] = b /\ auctionsList[k] < auctionsList[j + 1]
      BY <1>1, <1>2, <1>3, <1>4, <2>1, <2>3
    <3> QED BY <1>2, <1>4, <3>1, ListedNow DEF ListMeans, n
  <2> QED BY <2>2, <2>3
<1>7. ASSUME NEW b, Listed(b), b # at[t] PROVE Listed(b)'
  <2>1. PICK j \in 1..n : auctionsList[j] = b
    BY <1>7, ListedNow DEF ListMeans, n
  <2>2. j # k
    BY <1>2, <1>7, <2>1
  <2>3. PICK l \in 1..(n - 1) : auctionsList'[l] = b
    <3>1. CASE j < k
      BY <1>1, <1>2, <1>3, <2>1, <3>1
    <3>2. CASE k < j
      <4>1. j - 1 \in 1..(n - 1) /\ ~(j - 1 < k) /\ (j - 1) + 1 = j
        BY <1>1, <1>2, <2>1, <3>2
      <4> QED BY <1>3, <2>1, <4>1
    <3> QED BY <1>1, <1>2, <2>1, <2>2, <3>1, <3>2
  <2> QED BY <1>3, <2>3, ListedNext DEF ListMeans
<1> QED BY <1>5, <1>6, <1>7

LEMMA CloseRemoveKeeps ==
  ASSUME TypeOK, TypeOK', LocksExclusive, OrderInv, NEW t \in Threads, CloseRemove(t)
  PROVE  OrderInv'
<1>1. /\ pc[t] = "remove" /\ pc'[t] = "V_auctions" /\ UNCHANGED <<bid, bin_price, auctionID, at>>
      /\ \A u \in Threads : u # t => pc'[u] = pc[u]
  BY DEF CloseRemove, Go, TypeOK, auctions, details, standing, work
<1>2. \A u \in Threads : u # t => pc[u] \notin Fresh \cup Closing
  BY <1>1, HoldsAlone DEF HoldsAuctions, Closing
<1>3. \A u \in JobThreads : pc'[u] \notin Fresh
  BY <1>1, <1>2 DEF Threads, Fresh
<1>4. NewestLast' /\ NoEarlyBids'
  BY <1>1, <1>3 DEF OrderInv, NewestLast, NoEarlyBids
<1>5. BuyNowEndsAuction'
  <2>1. \A b : IsClosing(b) => b = at[t]
    BY <1>2 DEF IsClosing
  <2> QED BY <1>1, <2>1, RemoveKeepsOrder DEF OrderInv, BuyNowEndsAuction, BinFlag
<1> QED BY <1>4, <1>5, RemoveKeepsOrder DEF OrderInv

LEMMA StepOrder ==
  ASSUME TypeOK, TypeOK', InHand, IdsLeft, LocksExclusive, OrderInv, [Next]_vars
  PROVE  OrderInv'
<1>1. CASE Quiet
  BY <1>1, QuietKeeps
<1>2. ASSUME NEW t \in JobThreads,
             CreateTakeId(t) \/ CreateList(t) \/ BidRaise(t) \/ BidBuyNow(t)
      PROVE  OrderInv'
  BY <1>2, CreateTakeIdKeeps, CreateListKeeps, BidKeeps
<1>3. ASSUME NEW t \in Threads, CloseRemove(t) PROVE OrderInv'
  BY <1>3, CloseRemoveKeeps
<1> QED BY <1>1, <1>2, <1>3, QuietOrLoud DEF Loud

LEMMA InitOrder == Init => OrderInv
<1> SUFFICES ASSUME Init PROVE OrderInv
  OBVIOUS
<1>1. auctionsList = <<>> /\ \A t \in Threads : pc[t] = "idle"
  BY DEF Init
<1>2. \A t \in JobThreads : pc[t] \notin Fresh
  BY <1>1 DEF Fresh, Threads
<1>3. \A a \in Ids : bid[a] = 0 /\ bin_price[a] = 0
  BY DEF Init
<1> QED BY <1>1, <1>2, <1>3
        DEF OrderInv, ListInIdOrder, NewestLast, NoEarlyBids, BuyNowEndsAuction, BinFlag
-------------------------------------------------------------------------------
(* A step that is not quiet and takes a bid raises it: a bid that does not *)
(* buy is above the one that stands, one that buys is above the buy-now    *)
(* price, and the one that stands is not, for nobody is closing.           *)
BidsUp ==
  \A a \in Ids : /\ bid'[a] >= bid[a]
                 /\ currentWinner'[a] # currentWinner[a] => bid'[a] > bid[a]

LEMMA TakeBidRaises ==
  ASSUME TypeOK, InHand, LocksExclusive, OrderInv,
         NEW t \in JobThreads, BidRaise(t) \/ BidBuyNow(t)
  PROVE  BidsUp
<1> DEFINE r == req[t]
<1>1. t \in Threads /\ pc[t] = "handle" /\ r.kind = "ANBID" /\ Listed(r.id) /\ TakeBid(t)
  BY DEF BidRaise, BidBuyNow, Go, Threads, MayBid
<1>2. r \in Requests
  BY <1>1 DEF InHand
<1>3. r.id \in Ids /\ r.bid \in Int
  BY <1>1, <1>2, RequestFields, AuctionServerAssumption
<1>4. r.bid > bid[r.id]
  <2>1. CASE BidRaise(t)
    BY <2>1 DEF BidRaise
  <2>2. CASE BidBuyNow(t)
    <3>1. BinFlag(r.id) /\ r.bid > bin_price[r.id]
      BY <2>2 DEF BidBuyNow, BuysNow
    <3>2. ~IsClosing(r.id)
      BY <1>1, NobodyClosing DEF HoldsAuctions, Closing
    <3>3. ~(bid[r.id] > bin_price[r.id])
      BY <1>1, <1>3, <3>1, <3>2 DEF OrderInv, BuyNowEndsAuction
    <3>4. bid[r.id] \in Int /\ bin_price[r.id] \in Int
      BY <1>3 DEF TypeOK
    <3> QED BY <1>3, <3>1, <3>3, <3>4
  <2> QED BY <2>1, <2>2
<1>5. /\ bid' = [bid EXCEPT ![r.id] = r.bid]
      /\ currentWinner' = [currentWinner EXCEPT ![r.id] = r.user]
  BY <1>1 DEF TakeBid
<1> HIDE DEF r
<1>6. bid \in [Ids -> Int] /\ currentWinner \in [Ids -> Users \cup {NoUser}]
  BY DEF TypeOK
<1>7. /\ bid'[r.id] = r.bid
      /\ \A a \in Ids : a # r.id => bid'[a] = bid[a] /\ currentWinner'[a] = currentWinner[a]
  BY <1>3, <1>5, <1>6
<1> QED BY <1>3, <1>4, <1>6, <1>7 DEF BidsUp

LEMMA StepBids ==
  ASSUME TypeOK, InHand, LocksExclusive, OrderInv, [Next]_vars
  PROVE  BidsUp
<1>1. ASSUME UNCHANGED <<bid, currentWinner>> PROVE BidsUp
  <2>1. bid \in [Ids -> Int]
    BY DEF TypeOK
  <2> QED BY <1>1, <2>1 DEF BidsUp
<1>2. CASE Quiet
  BY <1>1, <1>2 DEF Quiet
<1>3. ASSUME NEW t \in JobThreads,
             CreateTakeId(t) \/ CreateList(t) \/ BidRaise(t) \/ BidBuyNow(t)
      PROVE  BidsUp
  <2>1. CASE CreateTakeId(t)
    BY <1>1, <2>1 DEF CreateTakeId, standing
  <2>2. CASE CreateList(t)
    BY <1>1, <2>2 DEF CreateList, auctions, standing
  <2> QED BY <1>3, <2>1, <2>2, TakeBidRaises
<1>4. ASSUME NEW t \in Threads, CloseRemove(t) PROVE BidsUp
  BY <1>1, <1>4 DEF CloseRemove, auctions, standing
<1> QED BY <1>2, <1>3, <1>4, QuietOrLoud DEF Loud
-------------------------------------------------------------------------------
LEMMA OrderHolds == Spec => []OrderInv
<1>1. TypeOK /\ TypeOK' /\ InHand /\ IdsLeft /\ LocksExclusive /\ OrderInv /\ [Next]_vars
        => OrderInv'
  BY StepOrder
<1> QED BY <1>1, InitOrder, TypedInHand, MutualExclusion, PTL DEF Spec

(* auctionsList holds each auction once, in the order of the ids: the lock *)
(* that createAuction takes spans the new id and the insertion.            *)
THEOREM ListOrdered == Spec => []ListInIdOrder
<1>1. OrderInv => ListInIdOrder
  BY DEF OrderInv
<1> QED BY <1>1, OrderHolds, PTL

(* A bid above the buy-now price stands only while its auction is being    *)
(* closed for it, or afterwards (bidAuction, closeAuction).                *)
THEOREM BuyNowCloses == Spec => []BuyNowEndsAuction
<1>1. OrderInv => BuyNowEndsAuction
  BY DEF OrderInv
<1> QED BY <1>1, OrderHolds, PTL

(* Bids only rise, and nobody takes the lead without raising, although a   *)
(* buy-now bid is not compared with the bid that stands (bidAuction).      *)
THEOREM BidsRise == Spec => BidsOnlyRise
<1>1. TypeOK /\ InHand /\ LocksExclusive /\ OrderInv /\ [Next]_vars => BidsUp
  BY StepBids
<1>2. BidsUp => [BidsUp]_vars
  OBVIOUS
<1> QED BY <1>1, TypedInHand, MutualExclusion, OrderHolds, PTL DEF Spec, BidsOnlyRise, BidsUp
-------------------------------------------------------------------------------
(* The auctions that threads have in hand, and that freed nodes point to,  *)
(* have been given their ids (NULL is 0).                                  *)
Known ==
  /\ \A t \in Threads : at[t] <= auctionID
  /\ \A a \in Ids : freedNext[a] <= auctionID

(* User u has been charged for auction a: it is out of the list, or the    *)
(* thread that closes it is about to take it out.                          *)
Charged == {"P_pay", "pay", "notify", "remove"}
Sealed(u, a) ==
  /\ currentWinner[a] = u /\ a <= auctionID
  /\ \A t \in JobThreads : pc[t] \in Fresh => at[t] # a
  /\ Listed(a) => \E t \in Threads : at[t] = a /\ pc[t] \in Charged

WonSealed == \A u \in Users, a \in Ids : Contains(auctionsWon[u], a) => Sealed(u, a)
FinalInv == Known /\ WonSealed

(* The steps that neither charge for an auction nor remove one. *)
Calm ==
  /\ UNCHANGED auctionsWon /\ Known'
  /\ \A t \in Threads : pc[t] \in Charged => pc'[t] \in Charged /\ at'[t] = at[t]

LEMMA MovesCalmly ==
  ASSUME TypeOK, TypeOK', Known, NEW t \in Threads, NEW from, NEW to, Go(t, from, to),
         UNCHANGED <<auctionsWon, freedNext>>, auctionID <= auctionID',
         from \in Charged => to \in Charged,
         \/ UNCHANGED at
         \/ from \notin Charged /\ \E a : a <= auctionID' /\ at' = [at EXCEPT ![t] = a]
  PROVE  Calm
<1>1. pc[t] = from /\ pc'[t] = to /\ \A u \in Threads : u # t => pc'[u] = pc[u]
  BY DEF Go, TypeOK
<1>2. \A u \in Threads : u # t => at'[u] = at[u]
  BY DEF TypeOK
<1>3. at'[t] = at[t] \/ (from \notin Charged /\ at'[t] <= auctionID')
  BY DEF TypeOK
<1>4. auctionID \in Nat /\ auctionID' \in Nat /\ \A u \in Threads : at[u] \in Nat
  BY DEF TypeOK, NULL, Ids
<1>5. \A a \in Ids : freedNext[a] \in Nat
  <2>1. \A a \in Ids : freedNext[a] \in Ids \cup {NULL}
    BY DEF TypeOK
  <2> QED BY <2>1 DEF Ids, NULL
<1>6. \A u \in Threads : at'[u] <= auctionID'
  BY <1>2, <1>3, <1>4 DEF Known
<1>7. \A a \in Ids : freedNext'[a] <= auctionID'
  BY <1>4, <1>5 DEF Known
<1> QED BY <1>1, <1>2, <1>3, <1>6, <1>7 DEF Calm, Known

(* The places that read the list find auctions that have their ids. *)
LEMMA ListedKnown ==
  ASSUME TypeOK, OrderInv
  PROVE  /\ \A a : Listed(a) => a <= auctionID /\ (NextNode(a) = NULL \/ Listed(NextNode(a)))
         /\ auctionsList # <<>> => Listed(Head(auctionsList))
<1>1. auctionsList \in Seq(Ids) /\ Len(auctionsList) \in Nat
  BY DEF TypeOK
<1>2. ASSUME auctionsList # <<>> PROVE Listed(Head(auctionsList))
  <2>1. 1 \in 1..Len(auctionsList) /\ Head(auctionsList) = auctionsList[1]
    BY <1>1, <1>2
  <2> QED BY <2>1, ListedNow DEF ListMeans
<1>3. ASSUME NEW a, Listed(a) PROVE NextNode(a) = NULL \/ Listed(NextNode(a))
  <2> DEFINE i == IndexOf(auctionsList, a)
  <2>1. i \in 1..Len(auctionsList)
    BY <1>1, <1>3, IndexOfFinds DEF Listed
  <2>2. NextNode(a) = IF i = Len(auctionsList) THEN NULL ELSE auctionsList[i + 1]
    BY DEF NextNode
  <2> HIDE DEF i
  <2>3. i # Len(auctionsList) => i + 1 \in 1..Len(auctionsList)
    BY <1>1, <2>1
  <2> QED BY <2>2, <2>3, ListedNow DEF ListMeans
<1>4. ASSUME NEW a, Listed(a) PROVE a <= auctionID
  BY <1>4, ListedNow DEF ListMeans, OrderInv, ListInIdOrder
<1> QED BY <1>2, <1>3, <1>4

LEMMA JobThreadCalm ==
  ASSUME TypeOK, TypeOK', OrderInv, Known, NEW t \in JobThreads,
         TakeRequest(t) \/ ProcessJob(t)
  PROVE  Calm \/ CloseCharge(t) \/ CloseRemove(t)
<1> USE DEF Charged, users, auctions, list, sems, work, details, standing, watching
<1>1. t \in Threads /\ auctionID \in Nat /\ NULL <= auctionID /\ auctionID <= auctionID
  BY DEF Threads, TypeOK, NULL
<1>2. CASE TakeRequest(t)
  <2>1. PICK to \in {"P_users", "P_auctions"} : Go(t, "idle", to)
    BY <1>2 DEF TakeRequest
  <2> QED BY <1>1, <1>2, <2>1, MovesCalmly DEF TakeRequest
<1>3. CASE PAuctions(t) BY <1>1, <1>3, MovesCalmly DEF PAuctions
<1>4. CASE VAuctions(t) BY <1>1, <1>4, MovesCalmly DEF VAuctions
<1>5. CASE ListAuctions(t) BY <1>1, <1>5, MovesCalmly DEF ListAuctions, Handling
<1>6. CASE Create(t)
  <2>1. CASE CreateInvalid(t)  BY <1>1, <2>1, MovesCalmly DEF CreateInvalid, Handling
  <2>2. CASE CreateTakeId(t)
    <3>1. /\ Go(t, "handle", "own") /\ UNCHANGED <<auctionsWon, freedNext>>
          /\ at' = [at EXCEPT ![t] = auctionID'] /\ auctionID' = auctionID + 1
      BY <2>2 DEF CreateTakeId
    <3>2. auctionID <= auctionID' /\ auctionID' <= auctionID'
      BY <1>1, <3>1
    <3> QED BY <1>1, <3>1, <3>2, MovesCalmly
  <2>3. CASE CreateOwn(t)      BY <1>1, <2>3, MovesCalmly DEF CreateOwn
  <2>4. CASE CreateOwnFill(t)  BY <1>1, <2>4, MovesCalmly DEF CreateOwnFill
  <2>5. CASE CreateList(t)     BY <1>1, <2>5, MovesCalmly DEF CreateList
  <2>6. CASE CreateListFill(t) BY <1>1, <2>6, MovesCalmly DEF CreateListFill
  <2> QED BY <1>6, <2>1, <2>2, <2>3, <2>4, <2>5, <2>6 DEF Create
<1>7. CASE WatchAuction(t) \/ LeaveAuction(t)
  BY <1>1, <1>7, MovesCalmly DEF WatchAuction, LeaveAuction, Handling
<1>8. CASE LeaveNotWatching(t) \/ QueryWild(t) \/ CloseAbsent(t)
  BY <1>8 DEF LeaveNotWatching, QueryWild, CloseAbsent, Crash, Calm, Known
<1>9. CASE Bid(t)
  <2>1. CASE BidNotFound(t) BY <1>1, <2>1, MovesCalmly DEF BidNotFound, Handling
  <2>2. CASE BidDenied(t)   BY <1>1, <2>2, MovesCalmly DEF BidDenied, Handling
  <2>3. CASE BidLow(t)      BY <1>1, <2>3, MovesCalmly DEF BidLow, Handling
  <2>4. CASE BidRaise(t) \/ BidBuyNow(t)
    <3>1. /\ Go(t, "handle", "update") \/ Go(t, "handle", "P_charge")
          /\ Listed(req[t].id) /\ at' = [at EXCEPT ![t] = req[t].id]
          /\ UNCHANGED <<auctionsWon, freedNext, auctionID>>
      BY <2>4 DEF BidRaise, BidBuyNow, MayBid, TakeBid
    <3>2. req[t].id <= auctionID
      BY <3>1, ListedKnown
    <3> QED BY <1>1, <3>1, <3>2, MovesCalmly
  <2>5. CASE BidUpdate(t)   BY <1>1, <2>5, MovesCalmly DEF BidUpdate
  <2> QED BY <1>9, <2>1, <2>2, <2>3, <2>4, <2>5 DEF Bid
<1>10. CASE QueryPUsers(t) \/ Query(t) \/ QueryVUsers(t)
  BY <1>1, <1>10, MovesCalmly DEF QueryPUsers, Query, QueryVUsers, PUsers
<1>11. CASE ClosePCharge(t) \/ ClosePPay(t)
  BY <1>1, <1>11, MovesCalmly DEF ClosePCharge, ClosePPay, PUsers
<1>12. CASE ClosePay(t) \/ CloseNotify(t)
  BY <1>1, <1>12, MovesCalmly DEF ClosePay, CloseNotify
<1> QED BY <1>2, <1>3, <1>4, <1>5, <1>6, <1>7, <1>8, <1>9, <1>10, <1>11, <1>12
        DEF ProcessJob, UsersRequest, CloseAuction

LEMMA TickCalm ==
  ASSUME TypeOK, TypeOK', InHand, OrderInv, Known, RunTick
  PROVE  Calm \/ CloseCharge(Tick) \/ CloseRemove(Tick)
<1> USE DEF Charged, users, auctions, list, sems, work, details, standing, watching
<1>1. Tick \in Threads /\ auctionID \in Nat /\ NULL <= auctionID /\ auctionID <= auctionID
  BY DEF Threads, TypeOK, NULL
<1>2. CASE TickStart
  <2>1. Head(auctionsList) <= auctionID
    BY <1>2, ListedKnown DEF TickStart
  <2> QED BY <1>1, <1>2, <2>1, MovesCalmly DEF TickStart
<1>3. CASE TickVisit
  <2>1. PICK to \in {"P_auctions", "advance"} : Go(Tick, "visit", to)
    BY <1>3 DEF TickVisit
  <2> QED BY <1>1, <1>3, <2>1, MovesCalmly DEF TickVisit
<1>4. CASE TickPAuctions
  <2>1. PICK to \in {"P_charge", "P_pay"} : Go(Tick, "P_auctions", to)
    BY <1>4 DEF TickPAuctions
  <2> QED BY <1>1, <1>4, <2>1, MovesCalmly DEF TickPAuctions
<1>5. CASE TickAdvance
  <2> DEFINE a == at[Tick]
             next == IF Listed(a) THEN NextNode(a) ELSE freedNext[a]
  <2>1. /\ Go(Tick, "advance", IF next = NULL THEN "idle" ELSE "visit")
        /\ at' = [at EXCEPT ![Tick] = next] /\ UNCHANGED <<auctionsWon, freedNext, auctionID>>
    BY <1>5 DEF TickAdvance
  <2>2. a \in Ids
    BY <1>1, <2>1 DEF Go, InHand
  <2>3. next <= auctionID
    BY <1>1, <2>2, ListedKnown DEF Known
  <2> HIDE DEF next
  <2>4. PICK to : Go(Tick, "advance", to)
    BY <2>1
  <2> QED BY <1>1, <2>1, <2>3, <2>4, MovesCalmly
<1>6. CASE TickWild \/ CloseAbsent(Tick)
  BY <1>6 DEF TickWild, CloseAbsent, Crash, Calm, Known
<1>7. CASE TickCutShort
  <2>1. Go(Tick, pc[Tick], "idle") /\ pc[Tick] \notin Charged
    BY <1>7 DEF TickCutShort
  <2> QED BY <1>1, <1>7, <2>1, MovesCalmly DEF TickCutShort
<1>8. CASE VAuctions(Tick) BY <1>1, <1>8, MovesCalmly DEF VAuctions
<1>9. CASE ClosePCharge(Tick) \/ ClosePPay(Tick)
  BY <1>1, <1>9, MovesCalmly DEF ClosePCharge, ClosePPay, PUsers
<1>10. CASE ClosePay(Tick) \/ CloseNotify(Tick)
  BY <1>1, <1>10, MovesCalmly DEF ClosePay, CloseNotify
<1> QED BY <1>2, <1>3, <1>4, <1>5, <1>6, <1>7, <1>8, <1>9, <1>10 DEF RunTick, CloseAuction
-------------------------------------------------------------------------------
(* Who has been charged for an auction stays its winner, at its price. *)
Frozen ==
  \A u \in Users, a \in Ids :
    Contains(auctionsWon[u], a) =>
      /\ currentWinner[a] = u
      /\ bid'[a] = bid[a] /\ currentWinner'[a] = currentWinner[a]

LEMMA FrozenIf ==
  ASSUME FinalInv,
         \A u \in Users, a \in Ids :
           Sealed(u, a) => bid'[a] = bid[a] /\ currentWinner'[a] = currentWinner[a]
  PROVE  Frozen
BY DEF FinalInv, WonSealed, Sealed, Frozen

(* A calm step keeps the invariant, if it neither bids on an auction that  *)
(* somebody has won, nor lists it again.                                   *)
LEMMA CalmKeeps ==
  ASSUME TypeOK, TypeOK', FinalInv, Calm, auctionID <= auctionID',
         \A u \in Users, a \in Ids : Sealed(u, a) =>
           /\ bid'[a] = bid[a] /\ currentWinner'[a] = currentWinner[a]
           /\ \A t \in JobThreads : pc'[t] \in Fresh => at'[t] # a
           /\ Listed(a)' => Listed(a)
  PROVE  FinalInv' /\ Frozen
<1>1. auctionID \in Nat /\ auctionID' \in Nat
  BY DEF TypeOK
<1>2. \A u \in Users, a \in Ids : Sealed(u, a) => Sealed(u, a)'
  BY <1>1 DEF Sealed, Calm, Ids
<1>3. WonSealed'
  BY <1>2 DEF FinalInv, WonSealed, Calm
<1> QED BY <1>3, FrozenIf DEF FinalInv, Calm

LEMMA QuietFinal ==
  ASSUME TypeOK, TypeOK', FinalInv, Calm, Quiet
  PROVE  FinalInv' /\ Frozen
<1>1. \A b : Listed(b)' <=> Listed(b)
  BY ListedNow, ListedNext DEF ListMeans, Quiet
<1>2. auctionID <= auctionID'
  BY DEF Quiet, TypeOK
<1> QED BY <1>1, <1>2, CalmKeeps DEF Quiet, Sealed

LEMMA CreateTakeIdFinal ==
  ASSUME TypeOK, TypeOK', FinalInv, Calm, NEW t \in JobThreads, CreateTakeId(t)
  PROVE  FinalInv' /\ Frozen
<1>1. t \in Threads /\ auctionID \in Nat
  BY DEF Threads, TypeOK
<1>2. /\ UNCHANGED <<auctionsList, bid, currentWinner>>
      /\ auctionID' = auctionID + 1 /\ at' = [at EXCEPT ![t] = auctionID + 1]
      /\ \A u \in Threads : u # t => pc'[u] = pc[u]
  BY DEF CreateTakeId, Go, TypeOK, list, standing
<1>3. \A b : Listed(b)' <=> Listed(b)
  BY <1>2, ListedNow, ListedNext DEF ListMeans
<1>4. at'[t] = auctionID + 1 /\ \A u \in Threads : u # t => at'[u] = at[u]
  BY <1>1, <1>2 DEF TypeOK
<1>5. ASSUME NEW u \in Users, NEW a \in Ids, Sealed(u, a), NEW v \in JobThreads, pc'[v] \in Fresh
      PROVE  at'[v] # a
  <2>1. CASE v = t
    BY <1>1, <1>4, <1>5, <2>1 DEF Sealed, Ids
  <2>2. CASE v # t
    BY <1>2, <1>4, <1>5, <2>2 DEF Sealed, Threads
  <2> QED BY <2>1, <2>2
<1>6. auctionID <= auctionID'
  BY <1>1, <1>2
<1> QED BY <1>2, <1>3, <1>5, <1>6, CalmKeeps

LEMMA CreateListFinal ==
  ASSUME TypeOK, TypeOK', InHand, FinalInv, Calm, NEW t \in JobThreads, CreateList(t)
  PROVE  FinalInv' /\ Frozen
<1>1. /\ t \in Threads /\ pc[t] = "list" /\ UNCHANGED <<bid, currentWinner, auctionID, at>>
      /\ auctionsList' = Append(auctionsList, at[t]) /\ pc'[t] \notin Fresh
      /\ \A u \in Threads : u # t => pc'[u] = pc[u]
  BY DEF CreateList, Go, TypeOK, Threads, auctions, standing, Fresh
<1>2. at[t] \in Ids /\ auctionsList \in Seq(Ids)
  BY <1>1 DEF InHand, Creation, TypeOK
<1>3. \A i \in 1..Len(auctionsList') :
        (i \in 1..Len(auctionsList) /\ auctionsList'[i] = auctionsList[i]) \/ auctionsList'[i] = at[t]
  BY <1>1, <1>2
<1>4. \A b : Listed(b)' => Listed(b) \/ b = at[t]
  BY <1>3, ListedNow, ListedNext DEF ListMeans
<1>5. \A u \in JobThreads : pc'[u] \in Fresh => pc[u] \in Fresh
  BY <1>1 DEF Threads
<1>6. \A u \in Users, a \in Ids : Sealed(u, a) => a # at[t]
  BY <1>1 DEF Sealed, Fresh
<1>7. auctionID <= auctionID'
  BY <1>1 DEF TypeOK
<1> QED BY <1>1, <1>4, <1>5, <1>6, <1>7, CalmKeeps DEF Sealed

(* The auction of a bid is in the list and nobody is closing it, so that   *)
(* nobody has been charged for it.                                         *)
LEMMA BidFinal ==
  ASSUME TypeOK, TypeOK', LocksExclusive, FinalInv, Calm,
         NEW t \in JobThreads, BidRaise(t) \/ BidBuyNow(t)
  PROVE  FinalInv' /\ Frozen
<1> DEFINE b == req[t].id
<1>1. /\ t \in Threads /\ pc[t] = "handle" /\ Listed(b) /\ pc'[t] \notin Fresh
      /\ UNCHANGED <<auctionsList, auctionID>>
      /\ bid' = [bid EXCEPT ![b] = req[t].bid]
      /\ currentWinner' = [currentWinner EXCEPT ![b] = req[t].user]
      /\ at' = [at EXCEPT ![t] = b] /\ \A u \in Threads : u # t => pc'[u] = pc[u]
  BY DEF BidRaise, BidBuyNow, TakeBid, MayBid, Go, TypeOK, list, Threads, Fresh
<1> HIDE DEF b
<1>2. ~IsClosing(b)
  BY <1>1, NobodyClosing DEF HoldsAuctions, Closing
<1>3. \A u \in Users, a \in Ids : Sealed(u, a) => a # b
  BY <1>1, <1>2 DEF Sealed, Charged, Closing, IsClosing
<1>4. \A a \in Ids : a # b => bid'[a] = bid[a] /\ currentWinner'[a] = currentWinner[a]
  BY <1>1 DEF TypeOK
<1>5. \A v \in Threads : v # t => at'[v] = at[v]
  BY <1>1 DEF TypeOK
<1>6. \A v \in JobThreads : pc'[v] \in Fresh => pc[v] \in Fresh /\ at'[v] = at[v]
  BY <1>1, <1>5 DEF Threads
<1>7. \A c : Listed(c)' <=> Listed(c)
  BY <1>1, ListedNow, ListedNext DEF ListMeans
<1>8. auctionID <= auctionID'
  BY <1>1 DEF TypeOK
<1> QED BY <1>3, <1>4, <1>6, <1>7, <1>8, CalmKeeps DEF Sealed

LEMMA CloseChargeFinal ==
  ASSUME TypeOK, TypeOK', InHand, LocksExclusive, FinalInv, NEW t \in Threads, CloseCharge(t)
  PROVE  FinalInv' /\ Frozen
<1> DEFINE b == at[t]
           w == currentWinner[b]
<1>1. /\ Go(t, "charge", "P_pay") /\ auctionsWon' = [auctionsWon EXCEPT ![w] = Append(@, b)]
      /\ UNCHANGED <<at, bid, currentWinner, auctionsList, freedNext, auctionID>>
  BY DEF CloseCharge, auctions, standing, list, work
<1>2. /\ pc[t] = "charge" /\ pc'[t] = "P_pay" /\ \A u \in Threads : u # t => pc'[u] = pc[u]
  BY <1>1 DEF Go, TypeOK
<1>3. b \in Ids /\ b <= auctionID
  BY <1>2 DEF InHand, Closing, FinalInv, Known
<1>4. \A u \in JobThreads : pc[u] \notin Fresh /\ pc'[u] \notin Fresh
  BY <1>2, HoldsAlone DEF HoldsAuctions, Closing, Threads, Fresh
<1>5. \A c : Listed(c)' <=> Listed(c)
  BY <1>1, ListedNow, ListedNext DEF ListMeans
<1>6. \A u \in Users, a \in Ids : Sealed(u, a) => Sealed(u, a)'
  BY <1>1, <1>2, <1>4, <1>5 DEF Sealed, Charged
<1>7. ASSUME NEW u \in Users, NEW a \in Ids, Contains(auctionsWon'[u], a)
      PROVE  Contains(auctionsWon[u], a) \/ (u = w /\ a = b)
  <2>1. auctionsWon[u] \in Seq(Ids)
    BY DEF TypeOK
  <2>2. CASE u = w
    <3>1. auctionsWon'[u] = Append(auctionsWon[u], b)
      BY <1>1, <2>2 DEF TypeOK
    <3>2. PICK i \in 1..Len(auctionsWon'[u]) : auctionsWon'[u][i] = a
      BY <1>7 DEF Contains
    <3>3. (i \in 1..Len(auctionsWon[u]) /\ auctionsWon[u][i] = a) \/ a = b
      BY <1>3, <2>1, <3>1, <3>2
    <3> QED BY <2>2, <3>3 DEF Contains
  <2>3. CASE u # w
    <3>1. auctionsWon'[u] = auctionsWon[u]
      BY <1>1, <2>3 DEF TypeOK
    <3> QED BY <1>7, <3>1
  <2> QED BY <2>2, <2>3
<1>8. w' = w /\ b' = b
  BY <1>1
<1> HIDE DEF b
<1>9. Sealed(w, b)'
  BY <1>1, <1>2, <1>3, <1>4, <1>8 DEF Sealed, Charged, b
<1>10. WonSealed'
  BY <1>6, <1>7, <1>8, <1>9 DEF FinalInv, WonSealed
<1>11. Known'
  BY <1>1 DEF FinalInv, Known
<1> QED BY <1>1, <1>10, <1>11, FrozenIf DEF FinalInv

LEMMA CloseRemoveFinal ==
  ASSUME TypeOK, TypeOK', OrderInv, FinalInv, NEW t \in Threads, CloseRemove(t)
  PROVE  FinalInv' /\ Frozen
<1>1. /\ Go(t, "remove", "V_auctions") /\ Listed(at[t])
      /\ freedNext' = [freedNext EXCEPT ![at[t]] = NextNode(at[t])]
      /\ UNCHANGED <<auctionsWon, at, bid, currentWinner, auctionID>>
  BY DEF CloseRemove, users, auctions, standing, work
<1>2. /\ pc[t] = "remove" /\ pc'[t] = "V_auctions"
      /\ \A u \in Threads : u # t => pc'[u] = pc[u]
  BY <1>1 DEF Go, TypeOK
<1>3. \A b : Listed(b)' => Listed(b) /\ b # at[t]
  BY RemoveKeepsOrder
<1>4. \A u \in JobThreads : pc'[u] \in Fresh => pc[u] \in Fresh
  BY <1>2 DEF Threads, Fresh
<1>5. \A u \in Users, a \in Ids : Sealed(u, a) => Sealed(u, a)'
  BY <1>1, <1>2, <1>3, <1>4 DEF Sealed
<1>6. WonSealed'
  BY <1>1, <1>5 DEF FinalInv, WonSealed
<1>7. NextNode(at[t]) <= auctionID
  <2>1. NULL <= auctionID
    BY DEF TypeOK, NULL
  <2> QED BY <1>1, <2>1, ListedKnown
<1>8. Known'
  BY <1>1, <1>7 DEF FinalInv, Known, TypeOK
<1> QED BY <1>1, <1>6, <1>8, FrozenIf DEF FinalInv

LEMMA StepFinal ==
  ASSUME TypeOK, TypeOK', InHand, LocksExclusive, OrderInv, FinalInv, [Next]_vars
  PROVE  FinalInv' /\ Frozen
<1>1. \/ Calm
      \/ \E t \in Threads : CloseCharge(t) \/ CloseRemove(t)
  <2>1. CASE UNCHANGED vars
    BY <2>1 DEF Calm, FinalInv, Known, vars, users, auctions, list, work
  <2> QED BY <2>1, JobThreadCalm, TickCalm DEF FinalInv, Next, Quiescent, Threads
<1>2. CASE Calm /\ Quiet
  BY <1>2, QuietFinal
<1>3. ASSUME Calm, NEW t \in JobThreads,
             CreateTakeId(t) \/ CreateList(t) \/ BidRaise(t) \/ BidBuyNow(t)
      PROVE  FinalInv' /\ Frozen
  BY <1>3, CreateTakeIdFinal, CreateListFinal, BidFinal
<1> QED BY <1>1, <1>2, <1>3, CloseChargeFinal, CloseRemoveFinal, QuietOrLoud DEF Loud

LEMMA FinalHolds == Spec => []FinalInv
<1>1. Init => FinalInv
  <2> SUFFICES ASSUME Init PROVE FinalInv
    OBVIOUS
  <2>1. Known
    BY DEF Init, Known, NULL
  <2>2. \A u \in Users : auctionsWon[u] = <<>>
    BY DEF Init
  <2> QED BY <2>1, <2>2 DEF FinalInv, WonSealed, Contains
<1>2. /\ TypeOK /\ TypeOK' /\ InHand /\ LocksExclusive /\ OrderInv /\ FinalInv /\ [Next]_vars
      => FinalInv'
  BY StepFinal
<1> QED BY <1>1, <1>2, TypedInHand, MutualExclusion, OrderHolds, PTL DEF Spec

(* Nothing changes any more about an auction that its winner has been      *)
(* charged for (closeAuction): not the winner, not the price; whichever    *)
(* thread closes it, and also when two threads do.                         *)
THEOREM ChargedStays == Spec => ChargedIsFinal
<1>1. /\ TypeOK /\ TypeOK' /\ InHand /\ LocksExclusive /\ OrderInv /\ FinalInv /\ [Next]_vars
      => Frozen
  BY StepFinal
<1> QED BY <1>1, FinalHolds, TypedInHand, MutualExclusion, OrderHolds, PTL
        DEF Spec, ChargedIsFinal, Frozen
===============================================================================
