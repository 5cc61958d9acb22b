-------------------------- MODULE AuctionServerProofs --------------------------
(***************************************************************************)
(* Proofs about AuctionServer, for any number of users, job threads,       *)
(* auctions and requests:                                                  *)
(*   - TypeCorrect: TypeOK, by way of InHand (a thread inside a handler    *)
(*     has the auction and the request the handler needs) and IdsLeft;     *)
(*   - MutualExclusion: LocksExclusive.                                    *)
(***************************************************************************)
EXTENDS AuctionServer, DataLemmas

(* IndexOf finds x where the code's loops find it, and gives 0 (the -1 of  *)
(* the code) if x is not there.                                            *)
LEMMA IndexOfFinds ==
  ASSUME NEW S, NEW s \in Seq(S), NEW x
  PROVE  /\ IndexOf(s, x) \in 0..Len(s)
         /\ IndexOf(s, x) = 0 <=> \A i \in 1..Len(s) : s[i] # x
         /\ IndexOf(s, x) # 0 => s[IndexOf(s, x)] = x
<1> DEFINE I == {i \in 1..Len(s) : s[i] = x}
<1>1. IndexOf(s, x) = IF I # {} THEN Min(I) ELSE 0
  BY DEF IndexOf, SelectInSeq
<1>2. CASE I = {}
  BY <1>1, <1>2
<1>3. CASE I # {}
  <2>1. I \in SUBSET Nat
    OBVIOUS
  <2>2. Min(I) \in I
    BY <1>3, <2>1, MinOfNaturals, Zenon
  <2> QED BY <1>1, <1>3, <2>2
<1> QED BY <1>2, <1>3
-------------------------------------------------------------------------------
(* What a request carries. *)
LEMMA RequestFields ==
  ASSUME NEW r \in Requests
  PROVE  /\ r.user \in Users
         /\ r.kind \in AuctionKinds \cup UserKinds
         /\ r.kind = "ANCREATE" => r.duration \in Durations /\ r.price \in Prices
         /\ r.kind \in {"ANWATCH", "ANLEAVE", "ANBID"} => r.id \in Ids
         /\ r.kind = "ANBID" => r.bid \in Bids
  BY DEF Requests, AuctionKinds, UserKinds

(* The strengthening that makes TypeOK inductive: a thread in the middle   *)
(* of a handler has an auction in hand and a request of the right kind,    *)
(* and there is an id left for every ANCREATE under way.                   *)
Creation == {"own", "ownFill", "list", "listFill"}
InHand ==
  /\ \A t \in Threads :
       pc[t] \in Creation \cup Closing \cup {"update", "visit", "advance"} => at[t] \in Ids
  /\ pc[Tick] = "P_auctions" => at[Tick] \in Ids
  /\ pc[Tick] \in {"idle", "visit", "advance", "P_auctions", "V_auctions"} \cup Closing
  /\ \A t \in JobThreads : pc[t] \notin {"idle", "visit", "advance"} => req[t] \in Requests
  /\ \A t \in JobThreads : pc[t] \notin {"visit", "advance"}
  /\ \A t \in JobThreads : pc[t] \in Creation => req[t].kind = "ANCREATE"
  /\ \A t \in JobThreads :
       pc[t] \in {"P_users", "query", "V_users"} => req[t].kind \in UserKinds

IdsLeft == auctionID + Cardinality(Creating) <= MaxAuctions

LEMMA InitTyped == Init => TypeOK /\ InHand /\ IdsLeft
<1> SUFFICES ASSUME Init PROVE TypeOK /\ InHand /\ IdsLeft
  OBVIOUS
<1>1. TypeOK
  <2>1. "idle" \in Labels /\ "none" \in ReplyTypes
    BY DEF Labels, ReplyTypes
  <2>2. auctionID \in 0..MaxAuctions
    BY AuctionServerAssumption DEF Init
  <2>3. /\ balance \in [Users -> Int]
        /\ auctionsOwned \in [Users -> Seq(Ids)] /\ auctionsWon \in [Users -> Seq(Ids)]
    BY DEF Init
  <2>4. /\ duration \in [Ids -> Int] /\ bin_price \in [Ids -> Int] /\ bid \in [Ids -> Int]
        /\ currentWinner \in [Ids -> Users \cup {NoUser}]
        /\ creator \in [Ids -> Users \cup {NoUser}]
    BY DEF Init
  <2>5. /\ watchers \in [Ids -> Seq(Users)] /\ numberOfWatchers \in [Ids -> Int]
        /\ auctionsList \in Seq(Ids)
        /\ freedNext \in [Ids -> Ids \cup {NULL}]
    BY DEF Init
  <2>6. /\ auctionsMutex \in Nat /\ usersMutex \in Nat /\ auctionIdMutex \in Nat
        /\ requests \in Nat /\ due \in [Ids -> Int]
    BY DEF Init
  <2>8. crashed \in BOOLEAN
    BY Zenon DEF Init
  <2>7. /\ pc \in [Threads -> Labels]
        /\ req \in [JobThreads -> Requests \cup {NoReq}]
        /\ at \in [Threads -> Ids \cup {NULL}]
        /\ reply \in [JobThreads -> ReplyTypes]
    BY <2>1 DEF Init
  <2> QED BY <2>2, <2>3, <2>4, <2>5, <2>6, <2>7, <2>8 DEF TypeOK
<1>2. InHand
  BY AuctionServerAssumption DEF Init, InHand, Threads, Creation, Closing
<1>3. Creating = {}
  BY AuctionServerAssumption DEF Init, Creating, Threads
<1> QED BY <1>1, <1>2, <1>3, FS_EmptySet, AuctionServerAssumption DEF Init, IdsLeft

(* An ANCREATE under way still has its id. *)
LEMMA IdLeft ==
  ASSUME TypeOK, IdsLeft, NEW t \in JobThreads, pc[t] = "handle", req[t].kind = "ANCREATE"
  PROVE  auctionID + 1 \in 1..MaxAuctions
<1>1. IsFiniteSet(Creating)
  BY AuctionServerAssumption, FS_Subset DEF Creating
<1>2. Cardinality(Creating) # 0
  BY <1>1, FS_EmptySet DEF Creating
<1> QED BY <1>1, <1>2, FS_CardinalityType, AuctionServerAssumption DEF IdsLeft, TypeOK

(* A crash changes nothing but crashed. *)
LEMMA CrashTyped ==
  ASSUME TypeOK, InHand, Crash
  PROVE  TypeOK' /\ InHand'
<1>1. crashed' \in BOOLEAN
  BY Zenon DEF Crash
<1>2. UNCHANGED <<users, auctions, list, sems, pc, work, due>>
  BY Zenon DEF Crash
<1>3. TypeOK'
  BY <1>1, <1>2 DEF TypeOK, users, auctions, list, details, standing, watching, work, sems
<1>4. InHand'
  BY <1>2 DEF InHand, work
<1> QED BY <1>3, <1>4

(* Taking a request, and the locks around it. *)
LEMMA RequestTyped ==
  ASSUME TypeOK, InHand, NEW t \in JobThreads
  PROVE  /\ TakeRequest(t) => TypeOK' /\ InHand'
         /\ PAuctions(t) => TypeOK' /\ InHand'
         /\ ListAuctions(t) => TypeOK' /\ InHand'
         /\ CreateInvalid(t) => TypeOK' /\ InHand'
<1>1. TakeRequest(t) => TypeOK' /\ InHand'
  <2> SUFFICES ASSUME TakeRequest(t) PROVE TypeOK' /\ InHand'
    OBVIOUS
  <2>1. PICK r \in Requests :
          /\ Go(t, "idle", IF r.kind \in UserKinds THEN "P_users" ELSE "P_auctions")
          /\ req' = [req EXCEPT ![t] = r]
          /\ requests' = requests + 1
          /\ UNCHANGED <<users, auctions, list, sems, at, reply, crashed, due>>
    BY DEF TakeRequest
  <2>2. req' \in [JobThreads -> Requests \cup {NoReq}] /\ requests' \in Nat
    BY <2>1 DEF TypeOK
  <2>3. pc' \in [Threads -> Labels]
    BY <2>1 DEF Go, TypeOK, Labels, HoldsAuctions, HoldsUsers, Closing, Threads
  <2>4. TypeOK'
    BY <2>1, <2>2, <2>3 DEF TypeOK, users, auctions, list, details, standing, watching, sems
  <2>5. InHand'
    BY <2>1, <2>2, <2>3, AuctionServerAssumption DEF InHand, TypeOK, Go, Threads,
       Creation, Closing
  <2> QED BY <2>4, <2>5
<1>2. PAuctions(t) => TypeOK' /\ InHand'
  <2> SUFFICES ASSUME PAuctions(t) PROVE TypeOK' /\ InHand'
    OBVIOUS
  <2>1. auctionsMutex' \in Nat
    BY DEF PAuctions, TypeOK
  <2>2. pc' \in [Threads -> Labels]
    BY DEF PAuctions, Go, TypeOK, Labels, HoldsAuctions, HoldsUsers, Closing, Threads
  <2>3. TypeOK'
    BY <2>1, <2>2 DEF PAuctions, TypeOK, users, auctions, list, details, standing, watching, work, sems
  <2>4. InHand'
    BY <2>1, <2>2, AuctionServerAssumption DEF PAuctions, InHand,
       TypeOK, Go, Threads, Creation, Closing, users, auctions, list, details, standing, watching, work, sems
  <2> QED BY <2>3, <2>4
<1>3. ListAuctions(t) => TypeOK' /\ InHand'
  <2> SUFFICES ASSUME ListAuctions(t) PROVE TypeOK' /\ InHand'
    OBVIOUS
  <2>1. reply' \in [JobThreads -> ReplyTypes]
    BY DEF ListAuctions, Handling, Reply, TypeOK, ReplyTypes
  <2>2. pc' \in [Threads -> Labels]
    BY DEF ListAuctions, Handling, Go, TypeOK, Labels, HoldsAuctions, HoldsUsers, Closing, Threads
  <2>3. TypeOK'
    BY <2>1, <2>2 DEF ListAuctions, Handling, TypeOK, users, auctions, list, details, standing, watching, work, sems
  <2>4. InHand'
    BY <2>1, <2>2, AuctionServerAssumption DEF ListAuctions, Handling, InHand,
       TypeOK, Go, Threads, Creation, Closing, users, auctions, list, details, standing, watching, work, sems
  <2> QED BY <2>3, <2>4
<1>4. CreateInvalid(t) => TypeOK' /\ InHand'
  <2> SUFFICES ASSUME CreateInvalid(t) PROVE TypeOK' /\ InHand'
    OBVIOUS
  <2>1. reply' \in [JobThreads -> ReplyTypes]
    BY DEF CreateInvalid, Handling, Reply, TypeOK, ReplyTypes
  <2>2. pc' \in [Threads -> Labels]
    BY DEF CreateInvalid, Handling, Go, TypeOK, Labels, HoldsAuctions, HoldsUsers, Closing, Threads
  <2>3. TypeOK'
    BY <2>1, <2>2 DEF CreateInvalid, Handling, TypeOK, users, auctions, list, details, standing, watching, work, sems
  <2>4. InHand'
    BY <2>1, <2>2, AuctionServerAssumption DEF CreateInvalid, Handling, InHand,
       TypeOK, Go, Threads, Creation, Closing, users, auctions, list, details, standing, watching, work, sems
  <2> QED BY <2>3, <2>4
<1> QED BY <1>1, <1>2, <1>3, <1>4

(* createAuction. *)
LEMMA CreateTyped ==
  ASSUME TypeOK, InHand, IdsLeft, NEW t \in JobThreads
  PROVE  /\ CreateTakeId(t) => TypeOK' /\ InHand'
         /\ CreateOwn(t) => TypeOK' /\ InHand'
         /\ CreateOwnFill(t) => TypeOK' /\ InHand'
         /\ CreateList(t) => TypeOK' /\ InHand'
         /\ CreateListFill(t) => TypeOK' /\ InHand'
<1>1. CreateTakeId(t) => TypeOK' /\ InHand'
  <2> SUFFICES ASSUME CreateTakeId(t) PROVE TypeOK' /\ InHand'
    OBVIOUS
  <2>1. req[t] \in Requests /\ req[t].duration \in Int /\ req[t].price \in Int
    BY RequestFields, AuctionServerAssumption DEF CreateTakeId, Go, InHand
  <2>2. auctionID' \in 1..MaxAuctions
    BY IdLeft DEF CreateTakeId, Go, TypeOK
  <2>3. auctionID + 1 \in Ids
    BY <2>2 DEF CreateTakeId, Ids
  <2>4. at' \in [Threads -> Ids \cup {NULL}] /\ at'[t] \in Ids
    BY <2>3 DEF CreateTakeId, TypeOK, Threads
  <2>5. duration' \in [Ids -> Int] /\ bin_price' \in [Ids -> Int] /\ due' \in [Ids -> Int]
    BY <2>1 DEF CreateTakeId, TypeOK
  <2>6. numberOfWatchers' \in [Ids -> Int] /\ auctionIdMutex' \in Nat
    <3>1. PICK n \in MallocInts :
            numberOfWatchers' = [numberOfWatchers EXCEPT ![auctionID + 1] = n]
      BY DEF CreateTakeId
    <3>2. n \in Int
      BY AuctionServerAssumption
    <3>3. numberOfWatchers' \in [Ids -> Int]
      BY <3>1, <3>2 DEF TypeOK
    <3>4. auctionIdMutex' \in Nat
      BY DEF CreateTakeId, TypeOK
    <3> QED BY <3>3, <3>4
  <2>7. pc' \in [Threads -> Labels]
    BY DEF CreateTakeId, Go, TypeOK, Labels, HoldsAuctions, HoldsUsers, Closing, Threads
  <2>8. TypeOK'
    BY <2>1, <2>2, <2>3, <2>4, <2>5, <2>6, <2>7 DEF CreateTakeId, TypeOK, users,
       auctions, list, details, standing, watching, work, sems
  <2>9. InHand'
    BY <2>1, <2>2, <2>3, <2>4, <2>5, <2>6, <2>7,
       AuctionServerAssumption DEF CreateTakeId, InHand, TypeOK, Go, Reply, Threads,
       Creation, Closing, users, auctions, list, details, standing, watching, work, sems
  <2> QED BY <2>8, <2>9
<1>2. CreateOwn(t) => TypeOK' /\ InHand'
  <2> SUFFICES ASSUME CreateOwn(t) PROVE TypeOK' /\ InHand'
    OBVIOUS
  <2>1. at[t] \in Ids /\ req[t] \in Requests /\ req[t].user \in Users
    BY RequestFields DEF CreateOwn, Go, InHand, Creation, Threads
  <2>2. auctionsOwned' \in [Users -> Seq(Ids)]
    BY <2>1, AppendProperties DEF CreateOwn, TypeOK
  <2>3. creator' \in [Ids -> Users \cup {NoUser}] /\ auctionIdMutex' \in Nat
    BY <2>1 DEF CreateOwn, TypeOK
  <2>4. pc' \in [Threads -> Labels]
    BY DEF CreateOwn, Go, TypeOK, Labels, HoldsAuctions, HoldsUsers, Closing, Threads
  <2>5. TypeOK'
    BY <2>1, <2>2, <2>3, <2>4 DEF CreateOwn, TypeOK, users, auctions, list, details,
       standing, watching, work, sems
  <2>6. InHand'
    BY <2>1, <2>2, <2>3, <2>4, AuctionServerAssumption DEF CreateOwn, InHand, TypeOK,
       Go, Reply, Threads, Creation, Closing, users, auctions, list, details, standing,
       watching, work, sems
  <2> QED BY <2>5, <2>6
<1>3. CreateList(t) => TypeOK' /\ InHand'
  <2> SUFFICES ASSUME CreateList(t) PROVE TypeOK' /\ InHand'
    OBVIOUS
  <2>1. at[t] \in Ids
    BY DEF CreateList, Go, InHand, Creation, Threads
  <2>2. auctionsList' \in Seq(Ids)
    BY <2>1, AppendProperties DEF CreateList, TypeOK
  <2>3. reply' \in [JobThreads -> ReplyTypes]
    BY DEF CreateList, Reply, TypeOK, ReplyTypes
  <2>4. pc' \in [Threads -> Labels]
    BY DEF CreateList, Go, TypeOK, Labels, HoldsAuctions, HoldsUsers, Closing, Threads
  <2>5. TypeOK'
    BY <2>1, <2>2, <2>3, <2>4 DEF CreateList, TypeOK, users, auctions, list, details,
       standing, watching, work, sems
  <2>6. InHand'
    BY <2>1, <2>2, <2>3, <2>4, AuctionServerAssumption DEF CreateList, InHand, TypeOK,
       Go, Reply, Threads, Creation, Closing, users, auctions, list, details, standing,
       watching, work, sems
  <2> QED BY <2>5, <2>6
<1>4. CreateOwnFill(t) => TypeOK' /\ InHand'
  <2> SUFFICES ASSUME CreateOwnFill(t) PROVE TypeOK' /\ InHand'
    OBVIOUS
  <2>1. pc' \in [Threads -> Labels]
    BY DEF CreateOwnFill, Go, TypeOK, Labels, HoldsAuctions, HoldsUsers, Closing, Threads
  <2>2. TypeOK'
    BY <2>1 DEF CreateOwnFill, TypeOK, users, auctions, list, details, standing, watching, work, sems
  <2>3. InHand'
    BY <2>1, AuctionServerAssumption DEF CreateOwnFill, InHand,
       TypeOK, Go, Threads, Creation, Closing, users, auctions, list, details, standing, watching, work, sems
  <2> QED BY <2>2, <2>3
<1>5. CreateListFill(t) => TypeOK' /\ InHand'
  <2> SUFFICES ASSUME CreateListFill(t) PROVE TypeOK' /\ InHand'
    OBVIOUS
  <2>1. reply' \in [JobThreads -> ReplyTypes]
    BY DEF CreateListFill, Reply, TypeOK, ReplyTypes
  <2>2. pc' \in [Threads -> Labels]
    BY DEF CreateListFill, Go, TypeOK, Labels, HoldsAuctions, HoldsUsers, Closing, Threads
  <2>3. TypeOK'
    BY <2>1, <2>2 DEF CreateListFill, TypeOK, users, auctions, list, details, standing, watching, work, sems
  <2>4. InHand'
    BY <2>1, <2>2, AuctionServerAssumption DEF CreateListFill, InHand,
       TypeOK, Go, Threads, Creation, Closing, users, auctions, list, details, standing, watching, work, sems
  <2> QED BY <2>3, <2>4
<1> QED BY <1>1, <1>2, <1>3, <1>4, <1>5

(* watchAuction and leaveAuction. *)
LEMMA WatchTyped ==
  ASSUME TypeOK, InHand, NEW t \in JobThreads
  PROVE  /\ WatchAuction(t) => TypeOK' /\ InHand'
         /\ LeaveAuction(t) => TypeOK' /\ InHand'
         /\ LeaveNotWatching(t) => TypeOK' /\ InHand'
<1>1. WatchAuction(t) => TypeOK' /\ InHand'
  <2> SUFFICES ASSUME WatchAuction(t) PROVE TypeOK' /\ InHand'
    OBVIOUS
  <2>1. req[t] \in Requests /\ req[t].user \in Users /\ req[t].id \in Ids
    BY RequestFields DEF WatchAuction, Handling, Go, InHand
  <2> DEFINE a == req[t].id
             u == req[t].user
  <2>2. watchers' \in [Ids -> Seq(Users)]
    <3>1. watchers[a] \in Seq(Users)
      BY <2>1 DEF TypeOK
    <3>2. Append(watchers[a], u) \in Seq(Users)
      BY <2>1, <3>1, AppendProperties
    <3>3. [watchers EXCEPT ![a] = Append(@, u)] \in [Ids -> Seq(Users)]
      BY <3>2 DEF TypeOK
    <3>4. watchers' = watchers \/ watchers' = [watchers EXCEPT ![a] = Append(@, u)]
      BY DEF WatchAuction, watching
    <3> QED BY <3>3, <3>4 DEF TypeOK
  <2>3. numberOfWatchers' \in [Ids -> Int]
    <3>1. numberOfWatchers[a] + 1 \in Int
      BY <2>1 DEF TypeOK
    <3>2. [numberOfWatchers EXCEPT ![a] = @ + 1] \in [Ids -> Int]
      BY <3>1 DEF TypeOK
    <3>3. \/ numberOfWatchers' = numberOfWatchers
          \/ numberOfWatchers' = [numberOfWatchers EXCEPT ![a] = @ + 1]
      BY DEF WatchAuction, watching
    <3> QED BY <3>2, <3>3 DEF TypeOK
  <2>4. reply' \in [JobThreads -> ReplyTypes]
    BY DEF WatchAuction, Reply, TypeOK, ReplyTypes
  <2>5. pc' \in [Threads -> Labels]
    BY DEF WatchAuction, Go, TypeOK, Labels, HoldsAuctions, HoldsUsers, Closing,
       Threads, Handling
  <2>6. TypeOK'
    BY <2>1, <2>2, <2>3, <2>4, <2>5 DEF WatchAuction, TypeOK, users, details, standing,
       list, sems
  <2>7. InHand'
    BY <2>1, <2>2, <2>3, <2>4, <2>5, AuctionServerAssumption DEF WatchAuction, InHand,
       TypeOK, Go, Reply, Threads, Creation, Closing, users, details, standing, list,
       sems, Handling
  <2> QED BY <2>6, <2>7
<1>2. LeaveAuction(t) => TypeOK' /\ InHand'
  <2> SUFFICES ASSUME LeaveAuction(t) PROVE TypeOK' /\ InHand'
    OBVIOUS
  <2>1. req[t] \in Requests /\ req[t].user \in Users /\ req[t].id \in Ids
    BY RequestFields DEF LeaveAuction, Handling, Go, InHand
  <2>2. watchers[req[t].id] \in Seq(Users)
    BY <2>1 DEF TypeOK
  <2>3. Listed(req[t].id) => RemoveAt(watchers[req[t].id], IndexOf(watchers[req[t].id], req[t].user)) \in Seq(Users)
    BY <2>1, <2>2, IndexOfFinds, RemoveAtDrops DEF LeaveAuction, IsWatching
  <2>4. watchers' \in [Ids -> Seq(Users)]
    BY <2>1, <2>3 DEF LeaveAuction, TypeOK, watching
  <2>5. numberOfWatchers' \in [Ids -> Int]
    <3> DEFINE a == req[t].id
    <3>1. numberOfWatchers[a] - 1 \in Int
      BY <2>1 DEF TypeOK
    <3>2. [numberOfWatchers EXCEPT ![a] = @ - 1] \in [Ids -> Int]
      BY <3>1 DEF TypeOK
    <3>3. \/ numberOfWatchers' = numberOfWatchers
          \/ numberOfWatchers' = [numberOfWatchers EXCEPT ![a] = @ - 1]
      BY DEF LeaveAuction, watching
    <3> QED BY <3>2, <3>3 DEF TypeOK
  <2>6. reply' \in [JobThreads -> ReplyTypes]
    BY DEF LeaveAuction, Reply, TypeOK, ReplyTypes
  <2>7. pc' \in [Threads -> Labels]
    BY DEF LeaveAuction, Go, TypeOK, Labels, HoldsAuctions, HoldsUsers, Closing,
       Threads, Handling
  <2>8. TypeOK'
    BY <2>1, <2>2, <2>3, <2>4, <2>5, <2>6, <2>7 DEF LeaveAuction, TypeOK, users,
       details, standing, list, sems
  <2>9. InHand'
    BY <2>1, <2>2, <2>3, <2>4, <2>5, <2>6, <2>7,
       AuctionServerAssumption DEF LeaveAuction, InHand, TypeOK, Go, Reply, Threads,
       Creation, Closing, users, details, standing, list, sems, Handling
  <2> QED BY <2>8, <2>9
<1>3. LeaveNotWatching(t) => TypeOK' /\ InHand'
  BY CrashTyped, Zenon DEF LeaveNotWatching
<1> QED BY <1>1, <1>2, <1>3

(* bidAuction. *)
LEMMA BidTyped ==
  ASSUME TypeOK, InHand, NEW t \in JobThreads
  PROVE  /\ BidNotFound(t) => TypeOK' /\ InHand'
         /\ BidDenied(t) => TypeOK' /\ InHand'
         /\ BidLow(t) => TypeOK' /\ InHand'
         /\ BidRaise(t) => TypeOK' /\ InHand'
         /\ BidUpdate(t) => TypeOK' /\ InHand'
         /\ BidBuyNow(t) => TypeOK' /\ InHand'
<1>1. BidLow(t) => TypeOK' /\ InHand'
  <2> SUFFICES ASSUME BidLow(t) PROVE TypeOK' /\ InHand'
    OBVIOUS
  <2>1. reply' \in [JobThreads -> ReplyTypes]
    BY DEF BidLow, Reply, TypeOK, ReplyTypes
  <2>2. pc' \in [Threads -> Labels]
    BY DEF BidLow, Go, TypeOK, Labels, HoldsAuctions, HoldsUsers, Closing, Threads,
       Handling
  <2>3. TypeOK'
    BY <2>1, <2>2 DEF BidLow, TypeOK, users, auctions, list, details, standing,
       watching, work, sems
  <2>4. InHand'
    BY <2>1, <2>2, AuctionServerAssumption DEF BidLow, InHand, TypeOK, Go, Reply,
       Threads, Creation, Closing, users, auctions, list, details, standing, watching,
       work, sems, Handling
  <2> QED BY <2>3, <2>4
<1>2. BidRaise(t) => TypeOK' /\ InHand'
  <2> SUFFICES ASSUME BidRaise(t) PROVE TypeOK' /\ InHand'
    OBVIOUS
  <2>1. req[t] \in Requests /\ req[t].user \in Users /\ req[t].id \in Ids /\ req[t].bid \in Int
    BY RequestFields, AuctionServerAssumption DEF BidRaise, Go, InHand
  <2>2. bid' \in [Ids -> Int] /\ currentWinner' \in [Ids -> Users \cup {NoUser}]
    BY <2>1 DEF BidRaise, TakeBid, TypeOK
  <2>3. at' \in [Threads -> Ids \cup {NULL}] /\ at'[t] \in Ids
    BY <2>1 DEF BidRaise, TakeBid, TypeOK, Threads
  <2>4. pc' \in [Threads -> Labels]
    BY DEF BidRaise, Go, TypeOK, Labels, HoldsAuctions, HoldsUsers, Closing, Threads
  <2>5. TypeOK'
    BY <2>1, <2>2, <2>3, <2>4 DEF BidRaise, TakeBid, TypeOK, users, auctions, list,
       details, standing, watching, work, sems
  <2>6. InHand'
    BY <2>1, <2>2, <2>3, <2>4, AuctionServerAssumption DEF BidRaise, InHand, TypeOK,
       Go, Reply, Threads, Creation, Closing, users, auctions, list, details, standing,
       watching, work, sems, TakeBid
  <2> QED BY <2>5, <2>6
<1>3. BidBuyNow(t) => TypeOK' /\ InHand'
  <2> SUFFICES ASSUME BidBuyNow(t) PROVE TypeOK' /\ InHand'
    OBVIOUS
  <2>1. req[t] \in Requests /\ req[t].user \in Users /\ req[t].id \in Ids /\ req[t].bid \in Int
    BY RequestFields, AuctionServerAssumption DEF BidBuyNow, Go, InHand
  <2>2. bid' \in [Ids -> Int] /\ currentWinner' \in [Ids -> Users \cup {NoUser}]
    BY <2>1 DEF BidBuyNow, TakeBid, TypeOK
  <2>3. at' \in [Threads -> Ids \cup {NULL}] /\ at'[t] \in Ids
    BY <2>1 DEF BidBuyNow, TakeBid, TypeOK, Threads
  <2>4. pc' \in [Threads -> Labels]
    BY DEF BidBuyNow, Go, TypeOK, Labels, HoldsAuctions, HoldsUsers, Closing, Threads
  <2>5. TypeOK'
    BY <2>1, <2>2, <2>3, <2>4 DEF BidBuyNow, TakeBid, TypeOK, users, auctions, list,
       details, standing, watching, work, sems
  <2>6. InHand'
    BY <2>1, <2>2, <2>3, <2>4, AuctionServerAssumption DEF BidBuyNow, InHand, TypeOK,
       Go, Reply, Threads, Creation, Closing, users, auctions, list, details, standing,
       watching, work, sems, TakeBid
  <2> QED BY <2>5, <2>6
<1>4. BidNotFound(t) => TypeOK' /\ InHand'
  <2> SUFFICES ASSUME BidNotFound(t) PROVE TypeOK' /\ InHand'
    OBVIOUS
  <2>1. reply' \in [JobThreads -> ReplyTypes]
    BY DEF BidNotFound, Handling, Reply, TypeOK, ReplyTypes
  <2>2. pc' \in [Threads -> Labels]
    BY DEF BidNotFound, Handling, Go, TypeOK, Labels, HoldsAuctions, HoldsUsers, Closing, Threads
  <2>3. TypeOK'
    BY <2>1, <2>2 DEF BidNotFound, Handling, TypeOK, users, auctions, list, details, standing, watching, work, sems
  <2>4. InHand'
    BY <2>1, <2>2, AuctionServerAssumption DEF BidNotFound, Handling, InHand,
       TypeOK, Go, Threads, Creation, Closing, users, auctions, list, details, standing, watching, work, sems
  <2> QED BY <2>3, <2>4
<1>5. BidDenied(t) => TypeOK' /\ InHand'
  <2> SUFFICES ASSUME BidDenied(t) PROVE TypeOK' /\ InHand'
    OBVIOUS
  <2>1. reply' \in [JobThreads -> ReplyTypes]
    BY DEF BidDenied, Handling, Reply, TypeOK, ReplyTypes
  <2>2. pc' \in [Threads -> Labels]
    BY DEF BidDenied, Handling, Go, TypeOK, Labels, HoldsAuctions, HoldsUsers, Closing, Threads
  <2>3. TypeOK'
    BY <2>1, <2>2 DEF BidDenied, Handling, TypeOK, users, auctions, list, details, standing, watching, work, sems
  <2>4. InHand'
    BY <2>1, <2>2, AuctionServerAssumption DEF BidDenied, Handling, InHand,
       TypeOK, Go, Threads, Creation, Closing, users, auctions, list, details, standing, watching, work, sems
  <2> QED BY <2>3, <2>4
<1>6. BidUpdate(t) => TypeOK' /\ InHand'
  <2> SUFFICES ASSUME BidUpdate(t) PROVE TypeOK' /\ InHand'
    OBVIOUS
  <2>1. reply' \in [JobThreads -> ReplyTypes]
    BY DEF BidUpdate, Reply, TypeOK, ReplyTypes
  <2>2. pc' \in [Threads -> Labels]
    BY DEF BidUpdate, Go, TypeOK, Labels, HoldsAuctions, HoldsUsers, Closing, Threads
  <2>3. TypeOK'
    BY <2>1, <2>2 DEF BidUpdate, TypeOK, users, auctions, list, details, standing, watching, work, sems
  <2>4. InHand'
    BY <2>1, <2>2, AuctionServerAssumption DEF BidUpdate, InHand,
       TypeOK, Go, Threads, Creation, Closing, users, auctions, list, details, standing, watching, work, sems
  <2> QED BY <2>3, <2>4
<1> QED BY <1>1, <1>2, <1>3, <1>4, <1>5, <1>6

(* closeAuction, for a job thread or the tick thread. *)
LEMMA CloseTyped ==
  ASSUME TypeOK, InHand, NEW t \in Threads
  PROVE  /\ ClosePCharge(t) => TypeOK' /\ InHand'
         /\ CloseCharge(t) => TypeOK' /\ InHand'
         /\ ClosePPay(t) => TypeOK' /\ InHand'
         /\ ClosePay(t) => TypeOK' /\ InHand'
         /\ CloseNotify(t) => TypeOK' /\ InHand'
         /\ CloseRemove(t) => TypeOK' /\ InHand'
         /\ CloseAbsent(t) => TypeOK' /\ InHand'
         /\ VAuctions(t) => TypeOK' /\ InHand'
<1>1. CloseCharge(t) => TypeOK' /\ InHand'
  <2> SUFFICES ASSUME CloseCharge(t) PROVE TypeOK' /\ InHand'
    OBVIOUS
  <2>1. at[t] \in Ids /\ bid[at[t]] \in Int
    BY DEF CloseCharge, Go, InHand, Closing, TypeOK
  <2> DEFINE w == currentWinner[at[t]]
  <2>2. balance' \in [Users -> Int]
    <3>1. w \in Users => balance[w] - bid[at[t]] \in Int
      BY <2>1 DEF TypeOK
    <3>2. [balance EXCEPT ![w] = @ - bid[at[t]]] \in [Users -> Int]
      BY <3>1 DEF TypeOK
    <3> QED BY <3>2 DEF CloseCharge
  <2>3. auctionsWon' \in [Users -> Seq(Ids)] /\ usersMutex' \in Nat
    <3>1. w \in Users => auctionsWon[w] \in Seq(Ids)
      BY DEF TypeOK
    <3>2. w \in Users => Append(auctionsWon[w], at[t]) \in Seq(Ids)
      BY <2>1, <3>1, AppendProperties
    <3>3. [auctionsWon EXCEPT ![w] = Append(@, at[t])] \in [Users -> Seq(Ids)]
      BY <3>2 DEF TypeOK
    <3>4. usersMutex' \in Nat
      BY DEF CloseCharge, TypeOK
    <3> QED BY <3>3, <3>4 DEF CloseCharge
  <2>4. pc' \in [Threads -> Labels]
    BY DEF CloseCharge, Go, TypeOK, Labels, HoldsAuctions, HoldsUsers, Closing, Threads
  <2>5. TypeOK'
    BY <2>1, <2>2, <2>3, <2>4 DEF CloseCharge, TypeOK, users, auctions, list, details,
       standing, watching, work, sems
  <2>6. InHand'
    BY <2>1, <2>2, <2>3, <2>4, AuctionServerAssumption DEF CloseCharge, InHand, TypeOK,
       Go, Reply, Threads, Creation, Closing, users, auctions, list, details, standing,
       watching, work, sems
  <2> QED BY <2>5, <2>6
<1>2. ClosePay(t) => TypeOK' /\ InHand'
  <2> SUFFICES ASSUME ClosePay(t) PROVE TypeOK' /\ InHand'
    OBVIOUS
  <2>1. at[t] \in Ids /\ bid[at[t]] \in Int
    BY DEF ClosePay, Go, InHand, Closing, TypeOK
  <2> DEFINE c == creator[at[t]]
  <2>2. balance' \in [Users -> Int] /\ usersMutex' \in Nat
    <3>1. c \in Users => balance[c] + bid[at[t]] \in Int
      BY <2>1 DEF TypeOK
    <3>2. [balance EXCEPT ![c] = @ + bid[at[t]]] \in [Users -> Int]
      BY <3>1 DEF TypeOK
    <3>3. usersMutex' \in Nat
      BY DEF ClosePay, TypeOK
    <3> QED BY <3>2, <3>3 DEF ClosePay
  <2>3. pc' \in [Threads -> Labels]
    BY DEF ClosePay, Go, TypeOK, Labels, HoldsAuctions, HoldsUsers, Closing, Threads
  <2>4. TypeOK'
    BY <2>1, <2>2, <2>3 DEF ClosePay, TypeOK, users, auctions, list, details, standing,
       watching, work, sems
  <2>5. InHand'
    BY <2>1, <2>2, <2>3, AuctionServerAssumption DEF ClosePay, InHand, TypeOK, Go,
       Reply, Threads, Creation, Closing, users, auctions, list, details, standing,
       watching, work, sems
  <2> QED BY <2>4, <2>5
<1>3. CloseRemove(t) => TypeOK' /\ InHand'
  <2> SUFFICES ASSUME CloseRemove(t) PROVE TypeOK' /\ InHand'
    OBVIOUS
  <2>1. at[t] \in Ids /\ auctionsList \in Seq(Ids)
    BY DEF CloseRemove, Go, InHand, Closing, TypeOK
  <2>2. IndexOf(auctionsList, at[t]) \in 1..Len(auctionsList)
    BY <2>1, IndexOfFinds DEF CloseRemove, Listed
  <2>3. auctionsList' \in Seq(Ids)
    BY <2>1, <2>2, RemoveAtDrops DEF CloseRemove
  <2>4. NextNode(at[t]) \in Ids \cup {NULL}
    BY <2>1, <2>2 DEF NextNode
  <2>5. freedNext' \in [Ids -> Ids \cup {NULL}]
    BY <2>1, <2>4 DEF CloseRemove, TypeOK
  <2>6. pc' \in [Threads -> Labels]
    BY DEF CloseRemove, Go, TypeOK, Labels, HoldsAuctions, HoldsUsers, Closing, Threads
  <2>7. TypeOK'
    BY <2>1, <2>2, <2>3, <2>4, <2>5, <2>6 DEF CloseRemove, TypeOK, users, auctions,
       list, details, standing, watching, work, sems
  <2>8. InHand'
    BY <2>1, <2>2, <2>3, <2>4, <2>5, <2>6, AuctionServerAssumption DEF CloseRemove,
       InHand, TypeOK, Go, Reply, Threads, Creation, Closing, users, auctions, list,
       details, standing, watching, work, sems
  <2> QED BY <2>7, <2>8
<1>4. VAuctions(t) => TypeOK' /\ InHand'
  <2> SUFFICES ASSUME VAuctions(t) PROVE TypeOK' /\ InHand'
    OBVIOUS
  <2>1. req' \in [JobThreads -> Requests \cup {NoReq}] /\ reply' \in [JobThreads -> ReplyTypes]
    BY DEF VAuctions, Reply, TypeOK, ReplyTypes
  <2>2. at' \in [Threads -> Ids \cup {NULL}] /\ auctionsMutex' \in Nat
    BY DEF VAuctions, TypeOK
  <2>3. pc' \in [Threads -> Labels]
    BY DEF VAuctions, Go, TypeOK, Labels, HoldsAuctions, HoldsUsers, Closing, Threads
  <2>4. TypeOK'
    BY <2>1, <2>2, <2>3 DEF VAuctions, TypeOK, users, auctions, list, details,
       standing, watching, work, sems
  <2>5. InHand'
    BY <2>1, <2>2, <2>3, AuctionServerAssumption DEF VAuctions, InHand, TypeOK, Go,
       Reply, Threads, Creation, Closing, users, auctions, list, details, standing,
       watching, work, sems
  <2> QED BY <2>4, <2>5
<1>6. ClosePPay(t) => TypeOK' /\ InHand'
  <2> SUFFICES ASSUME ClosePPay(t) PROVE TypeOK' /\ InHand'
    OBVIOUS
  <2>1. pc' \in [Threads -> Labels] /\ usersMutex' \in Nat
    BY DEF ClosePPay, PUsers, Go, TypeOK, Labels, HoldsAuctions, HoldsUsers, Closing,
       Threads
  <2>2. TypeOK'
    BY <2>1 DEF ClosePPay, PUsers, TypeOK, users, auctions, list, details, standing,
       watching, work, sems
  <2>3. InHand'
    BY <2>1, AuctionServerAssumption DEF ClosePPay, PUsers, InHand, TypeOK, Go,
       Threads, Creation, Closing, users, auctions, list, details, standing, watching,
       work, sems
  <2> QED BY <2>2, <2>3
<1>5. ClosePCharge(t) => TypeOK' /\ InHand'
  <2> SUFFICES ASSUME ClosePCharge(t) PROVE TypeOK' /\ InHand'
    OBVIOUS
  <2>1. usersMutex' \in Nat
    BY DEF ClosePCharge, PUsers, TypeOK
  <2>2. pc' \in [Threads -> Labels]
    BY DEF ClosePCharge, PUsers, Go, TypeOK, Labels, HoldsAuctions, HoldsUsers, Closing, Threads
  <2>3. TypeOK'
    BY <2>1, <2>2 DEF ClosePCharge, PUsers, TypeOK, users, auctions, list, details, standing, watching, work, sems
  <2>4. InHand'
    BY <2>1, <2>2, AuctionServerAssumption DEF ClosePCharge, PUsers, InHand,
       TypeOK, Go, Threads, Creation, Closing, users, auctions, list, details, standing, watching, work, sems
  <2> QED BY <2>3, <2>4
<1>7. CloseNotify(t) => TypeOK' /\ InHand'
  <2> SUFFICES ASSUME CloseNotify(t) PROVE TypeOK' /\ InHand'
    OBVIOUS
  <2>1. reply' \in [JobThreads -> ReplyTypes]
    BY DEF CloseNotify, Reply, TypeOK, ReplyTypes
  <2>2. pc' \in [Threads -> Labels]
    BY DEF CloseNotify, Go, TypeOK, Labels, HoldsAuctions, HoldsUsers, Closing, Threads
  <2>3. TypeOK'
    BY <2>1, <2>2 DEF CloseNotify, TypeOK, users, auctions, list, details, standing, watching, work, sems
  <2>4. InHand'
    BY <2>1, <2>2, AuctionServerAssumption DEF CloseNotify, InHand,
       TypeOK, Go, Threads, Creation, Closing, users, auctions, list, details, standing, watching, work, sems
  <2> QED BY <2>3, <2>4
<1>8. CloseAbsent(t) => TypeOK' /\ InHand'
  BY CrashTyped, Zenon DEF CloseAbsent
<1> QED BY <1>1, <1>2, <1>3, <1>4, <1>5, <1>6, <1>7, <1>8

(* The requests about users. *)
LEMMA QueryTyped ==
  ASSUME TypeOK, InHand, NEW t \in JobThreads
  PROVE  /\ QueryPUsers(t) => TypeOK' /\ InHand'
         /\ Query(t) => TypeOK' /\ InHand'
         /\ QueryWild(t) => TypeOK' /\ InHand'
         /\ QueryVUsers(t) => TypeOK' /\ InHand'
<1>1. Query(t) => TypeOK' /\ InHand'
  <2> SUFFICES ASSUME Query(t) PROVE TypeOK' /\ InHand'
    OBVIOUS
  <2>1. req[t].kind \in ReplyTypes
    BY DEF Query, Go, InHand, ReplyTypes
  <2>2. reply' \in [JobThreads -> ReplyTypes]
    BY <2>1 DEF Query, Reply, TypeOK
  <2>3. pc' \in [Threads -> Labels]
    BY DEF Query, Go, TypeOK, Labels, HoldsAuctions, HoldsUsers, Closing, Threads
  <2>4. TypeOK'
    BY <2>1, <2>2, <2>3 DEF Query, TypeOK, users, auctions, list, details, standing,
       watching, work, sems
  <2>5. InHand'
    BY <2>1, <2>2, <2>3, AuctionServerAssumption DEF Query, InHand, TypeOK, Go, Reply,
       Threads, Creation, Closing, users, auctions, list, details, standing, watching,
       work, sems
  <2> QED BY <2>4, <2>5
<1>2. QueryPUsers(t) => TypeOK' /\ InHand'
  <2> SUFFICES ASSUME QueryPUsers(t) PROVE TypeOK' /\ InHand'
    OBVIOUS
  <2>1. usersMutex' \in Nat
    BY DEF QueryPUsers, PUsers, TypeOK
  <2>2. pc' \in [Threads -> Labels]
    BY DEF QueryPUsers, PUsers, Go, TypeOK, Labels, HoldsAuctions, HoldsUsers, Closing, Threads
  <2>3. TypeOK'
    BY <2>1, <2>2 DEF QueryPUsers, PUsers, TypeOK, users, auctions, list, details, standing, watching, work, sems
  <2>4. InHand'
    BY <2>1, <2>2, AuctionServerAssumption DEF QueryPUsers, PUsers, InHand,
       TypeOK, Go, Threads, Creation, Closing, users, auctions, list, details, standing, watching, work, sems
  <2> QED BY <2>3, <2>4
<1>3. QueryWild(t) => TypeOK' /\ InHand'
  BY CrashTyped, Zenon DEF QueryWild
<1>4. QueryVUsers(t) => TypeOK' /\ InHand'
  <2> SUFFICES ASSUME QueryVUsers(t) PROVE TypeOK' /\ InHand'
    OBVIOUS
  <2>1. reply' \in [JobThreads -> ReplyTypes]
    BY DEF QueryVUsers, Reply, TypeOK, ReplyTypes
  <2>2. req' \in [JobThreads -> Requests \cup {NoReq}] /\ usersMutex' \in Nat
    BY DEF QueryVUsers, TypeOK
  <2>3. pc' \in [Threads -> Labels]
    BY DEF QueryVUsers, Go, TypeOK, Labels, HoldsAuctions, HoldsUsers, Closing, Threads
  <2>4. TypeOK'
    BY <2>1, <2>2, <2>3 DEF QueryVUsers, TypeOK, users, auctions, list, details, standing, watching, work, sems
  <2>5. InHand'
    BY <2>1, <2>2, <2>3, AuctionServerAssumption DEF QueryVUsers, InHand,
       TypeOK, Go, Threads, Creation, Closing, users, auctions, list, details, standing, watching, work, sems
  <2> QED BY <2>4, <2>5
<1> QED BY <1>1, <1>2, <1>3, <1>4

(* run_tick. *)
LEMMA TickTyped ==
  ASSUME TypeOK, InHand
  PROVE  /\ TickStart => TypeOK' /\ InHand'
         /\ TickVisit => TypeOK' /\ InHand'
         /\ TickPAuctions => TypeOK' /\ InHand'
         /\ TickAdvance => TypeOK' /\ InHand'
         /\ TickWild => TypeOK' /\ InHand'
         /\ TickCutShort => TypeOK' /\ InHand'
<1>1. TickAdvance => TypeOK' /\ InHand'
  <2> SUFFICES ASSUME TickAdvance PROVE TypeOK' /\ InHand'
    OBVIOUS
  <2>1. at[Tick] \in Ids /\ auctionsList \in Seq(Ids)
    BY DEF TickAdvance, Go, InHand, TypeOK, Threads
  <2>2. Listed(at[Tick]) => IndexOf(auctionsList, at[Tick]) \in 1..Len(auctionsList)
    BY <2>1, IndexOfFinds DEF Listed
  <2>3. Listed(at[Tick]) => NextNode(at[Tick]) \in Ids \cup {NULL}
    BY <2>1, <2>2 DEF NextNode
  <2>4. freedNext[at[Tick]] \in Ids \cup {NULL}
    BY <2>1 DEF TypeOK
  <2>5. at' \in [Threads -> Ids \cup {NULL}]
    BY <2>3, <2>4 DEF TickAdvance, TypeOK
  <2>6. pc'[Tick] = "idle" \/ (pc'[Tick] = "visit" /\ at'[Tick] \in Ids)
    BY <2>3, <2>4 DEF TickAdvance, Go, TypeOK, Threads, NULL
  <2>7. pc' \in [Threads -> Labels]
    BY DEF TickAdvance, Go, TypeOK, Labels, HoldsAuctions, HoldsUsers, Closing, Threads
  <2>8. TypeOK'
    BY <2>1, <2>2, <2>3, <2>4, <2>5, <2>6, <2>7 DEF TickAdvance, TypeOK, users,
       auctions, list, details, standing, watching, work, sems
  <2>9. InHand'
    BY <2>1, <2>2, <2>3, <2>4, <2>5, <2>6, <2>7,
       AuctionServerAssumption DEF TickAdvance, InHand, TypeOK, Go, Reply, Threads,
       Creation, Closing, users, auctions, list, details, standing, watching, work, sems
  <2> QED BY <2>8, <2>9
<1>2. TickStart => TypeOK' /\ InHand'
  <2> SUFFICES ASSUME TickStart PROVE TypeOK' /\ InHand'
    OBVIOUS
  <2>1. Head(auctionsList) \in Ids
    BY HeadTailProperties DEF TickStart, TypeOK
  <2>2. at' \in [Threads -> Ids \cup {NULL}] /\ at'[Tick] \in Ids
    BY <2>1 DEF TickStart, TypeOK, Threads
  <2>3. due' \in [Ids -> Int]
    BY DEF TickStart, TypeOK
  <2>4. pc' \in [Threads -> Labels]
    BY DEF TickStart, Go, TypeOK, Labels, HoldsAuctions, HoldsUsers, Closing, Threads
  <2>5. TypeOK'
    BY <2>2, <2>3, <2>4 DEF TickStart, TypeOK, users, auctions, list, details,
       standing, watching, work, sems
  <2>6. InHand'
    BY <2>2, <2>4, AuctionServerAssumption DEF TickStart, InHand, TypeOK, Go, Threads,
       Creation, Closing, users, auctions, list, details, standing, watching, work, sems
  <2> QED BY <2>5, <2>6
<1>3. TickVisit => TypeOK' /\ InHand'
  <2> SUFFICES ASSUME TickVisit PROVE TypeOK' /\ InHand'
    OBVIOUS
  <2>1. duration' \in [Ids -> Int]
    <3>1. at[Tick] \in Ids
      BY DEF TickVisit, Go, InHand, Threads
    <3>2. duration[at[Tick]] - 1 \in Int
      BY <3>1 DEF TypeOK
    <3>3. duration' = [duration EXCEPT ![at[Tick]] = @ - 1]
      BY DEF TickVisit
    <3> QED BY <3>2, <3>3 DEF TypeOK
  <2>2. pc' \in [Threads -> Labels]
    BY DEF TickVisit, Go, TypeOK, Labels, HoldsAuctions, HoldsUsers, Closing, Threads
  <2>3. TypeOK'
    BY <2>1, <2>2 DEF TickVisit, TypeOK, users, auctions, list, details, standing, watching, work, sems
  <2>4. InHand'
    BY <2>1, <2>2, AuctionServerAssumption DEF TickVisit, InHand,
       TypeOK, Go, Threads, Creation, Closing, users, auctions, list, details, standing, watching, work, sems
  <2> QED BY <2>3, <2>4
<1>4. TickPAuctions => TypeOK' /\ InHand'
  <2> SUFFICES ASSUME TickPAuctions PROVE TypeOK' /\ InHand'
    OBVIOUS
  <2>1. auctionsMutex' \in Nat
    BY DEF TickPAuctions, TypeOK
  <2>2. pc' \in [Threads -> Labels]
    BY DEF TickPAuctions, Go, TypeOK, Labels, HoldsAuctions, HoldsUsers, Closing, Threads
  <2>3. TypeOK'
    BY <2>1, <2>2 DEF TickPAuctions, TypeOK, users, auctions, list, details, standing, watching, work, sems
  <2>4. InHand'
    BY <2>1, <2>2, AuctionServerAssumption DEF TickPAuctions, InHand,
       TypeOK, Go, Threads, Creation, Closing, users, auctions, list, details, standing, watching, work, sems
  <2> QED BY <2>3, <2>4
<1>5. TickWild => TypeOK' /\ InHand'
  BY CrashTyped, Zenon DEF TickWild
<1>6. TickCutShort => TypeOK' /\ InHand'
  <2> SUFFICES ASSUME TickCutShort PROVE TypeOK' /\ InHand'
    OBVIOUS
  <2>1. at' \in [Threads -> Ids \cup {NULL}]
    BY DEF TickCutShort, TypeOK
  <2>2. pc' \in [Threads -> Labels]
    BY DEF TickCutShort, Go, TypeOK, Labels, HoldsAuctions, HoldsUsers, Closing, Threads
  <2>3. TypeOK'
    BY <2>1, <2>2 DEF TickCutShort, TypeOK, users, auctions, list, details, standing, watching, work, sems
  <2>4. InHand'
    BY <2>1, <2>2, AuctionServerAssumption DEF TickCutShort, InHand,
       TypeOK, Go, Threads, Creation, Closing, users, auctions, list, details, standing, watching, work, sems
  <2> QED BY <2>3, <2>4
<1> QED BY <1>1, <1>2, <1>3, <1>4, <1>5, <1>6

(* Every step preserves the types. *)
LEMMA StepTyped ==
  ASSUME TypeOK, InHand, IdsLeft, [Next]_vars
  PROVE  TypeOK' /\ InHand'
<1>1. ASSUME NEW t \in JobThreads, TakeRequest(t) \/ ProcessJob(t)
      PROVE  TypeOK' /\ InHand'
  <2>1. t \in Threads
    BY DEF Threads
  <2>2. CASE TakeRequest(t) \/ PAuctions(t) \/ ListAuctions(t) \/ CreateInvalid(t)
    BY <2>2, RequestTyped, Zenon
  <2>3. CASE Create(t)
    BY <2>3, RequestTyped, CreateTyped, Zenon DEF Create
  <2>4. CASE WatchAuction(t) \/ LeaveAuction(t) \/ LeaveNotWatching(t)
    BY <2>4, WatchTyped, Zenon
  <2>5. CASE Bid(t)
    BY <2>5, BidTyped, Zenon DEF Bid
  <2>6. CASE CloseAuction(t) \/ VAuctions(t)
    BY <2>1, <2>6, CloseTyped, Zenon DEF CloseAuction
  <2>7. CASE UsersRequest(t)
    BY <2>7, QueryTyped, Zenon DEF UsersRequest
  <2> QED BY <1>1, <2>2, <2>3, <2>4, <2>5, <2>6, <2>7, Zenon DEF ProcessJob
<1>2. CASE RunTick
  <2>1. Tick \in Threads
    BY DEF Threads
  <2>2. CASE CloseAuction(Tick) \/ VAuctions(Tick)
    BY <2>1, <2>2, CloseTyped, Zenon DEF CloseAuction
  <2> QED BY <1>2, <2>2, TickTyped, Zenon DEF RunTick
<1>3. CASE UNCHANGED vars
  BY <1>3 DEF vars, TypeOK, InHand, users, auctions, list, details, standing,
              watching, work, sems
<1> QED BY <1>1, <1>2, <1>3, Zenon DEF Next, Quiescent

(* The steps that neither begin an ANCREATE nor give out its id. *)
LEMMA NothingCreated ==
  ASSUME TypeOK, InHand, [Next]_vars,
         ~ \E t \in JobThreads : TakeRequest(t) \/ CreateTakeId(t)
  PROVE  auctionID' = auctionID /\ Creating' \subseteq Creating
<1> DEFINE Kept == auctionID' = auctionID /\ Creating' \subseteq Creating
<1> USE DEF Creating, TypeOK, Threads, Go, auctions, work, vars
<1>1. ASSUME NEW t \in JobThreads, ProcessJob(t) PROVE Kept
  <2>1. CASE PAuctions(t)
    BY <2>1 DEF PAuctions
  <2>2. CASE ListAuctions(t)
    BY <2>2 DEF ListAuctions, Handling
  <2>3. CASE Create(t)
    <3>1. CASE CreateInvalid(t)  BY <3>1 DEF CreateInvalid, Handling
    <3>2. CASE CreateOwn(t)      BY <3>2 DEF CreateOwn
    <3>3. CASE CreateOwnFill(t)  BY <3>3 DEF CreateOwnFill
    <3>4. CASE CreateList(t)     BY <3>4 DEF CreateList
    <3>5. CASE CreateListFill(t) BY <3>5 DEF CreateListFill
    <3> QED BY <2>3, <3>1, <3>2, <3>3, <3>4, <3>5 DEF Create
  <2>4. CASE WatchAuction(t) \/ LeaveAuction(t)
    BY <2>4 DEF WatchAuction, LeaveAuction, Handling
  <2>5. CASE LeaveNotWatching(t)
    BY <2>5 DEF LeaveNotWatching, Crash
  <2>6. CASE Bid(t)
    <3>1. CASE BidNotFound(t)    BY <3>1 DEF BidNotFound, Handling
    <3>2. CASE BidDenied(t)      BY <3>2 DEF BidDenied, Handling
    <3>3. CASE BidLow(t)         BY <3>3 DEF BidLow, Handling
    <3>4. CASE BidRaise(t)       BY <3>4 DEF BidRaise, TakeBid
    <3>5. CASE BidUpdate(t)      BY <3>5 DEF BidUpdate
    <3>6. CASE BidBuyNow(t)      BY <3>6 DEF BidBuyNow, TakeBid
    <3> QED BY <2>6, <3>1, <3>2, <3>3, <3>4, <3>5, <3>6 DEF Bid
  <2>7. CASE CloseAuction(t)
    <3>1. CASE ClosePCharge(t)   BY <3>1 DEF ClosePCharge, PUsers
    <3>2. CASE CloseCharge(t)    BY <3>2 DEF CloseCharge
    <3>3. CASE ClosePPay(t)      BY <3>3 DEF ClosePPay, PUsers
    <3>4. CASE ClosePay(t)       BY <3>4 DEF ClosePay
    <3>5. CASE CloseNotify(t)    BY <3>5 DEF CloseNotify
    <3>6. CASE CloseRemove(t)    BY <3>6 DEF CloseRemove
    <3>7. CASE CloseAbsent(t)    BY <3>7 DEF CloseAbsent, Crash
    <3> QED BY <2>7, <3>1, <3>2, <3>3, <3>4, <3>5, <3>6, <3>7 DEF CloseAuction
  <2>8. CASE UsersRequest(t)
    <3>1. CASE QueryPUsers(t)    BY <3>1 DEF QueryPUsers, PUsers
    <3>2. CASE Query(t)          BY <3>2 DEF Query
    <3>3. CASE QueryWild(t)      BY <3>3 DEF QueryWild, Crash
    <3>4. CASE QueryVUsers(t)    BY <3>4 DEF QueryVUsers, NoReq
    <3> QED BY <2>8, <3>1, <3>2, <3>3, <3>4 DEF UsersRequest
  <2>9. CASE VAuctions(t)
    BY <2>9 DEF VAuctions, NoReq
  <2> QED BY <1>1, <2>1, <2>2, <2>3, <2>4, <2>5, <2>6, <2>7, <2>8, <2>9 DEF ProcessJob
<1>2. CASE RunTick
  <2> USE AuctionServerAssumption
  <2>1. CASE TickStart      BY <2>1 DEF TickStart
  <2>2. CASE TickVisit      BY <2>2 DEF TickVisit
  <2>3. CASE TickPAuctions  BY <2>3 DEF TickPAuctions
  <2>4. CASE TickAdvance    BY <2>4 DEF TickAdvance
  <2>5. CASE TickWild       BY <2>5 DEF TickWild, Crash
  <2>6. CASE TickCutShort   BY <2>6 DEF TickCutShort
  <2>7. CASE CloseAuction(Tick)
    <3>1. CASE ClosePCharge(Tick)   BY <3>1 DEF ClosePCharge, PUsers
    <3>2. CASE CloseCharge(Tick)    BY <3>2 DEF CloseCharge
    <3>3. CASE ClosePPay(Tick)      BY <3>3 DEF ClosePPay, PUsers
    <3>4. CASE ClosePay(Tick)       BY <3>4 DEF ClosePay
    <3>5. CASE CloseNotify(Tick)    BY <3>5 DEF CloseNotify
    <3>6. CASE CloseRemove(Tick)    BY <3>6 DEF CloseRemove
    <3>7. CASE CloseAbsent(Tick)    BY <3>7 DEF CloseAbsent, Crash
    <3> QED BY <2>7, <3>1, <3>2, <3>3, <3>4, <3>5, <3>6, <3>7 DEF CloseAuction
  <2>8. CASE VAuctions(Tick)
    BY <2>8 DEF VAuctions
  <2> QED BY <1>2, <2>1, <2>2, <2>3, <2>4, <2>5, <2>6, <2>7, <2>8 DEF RunTick
<1>3. CASE UNCHANGED vars
  BY <1>3
<1> QED BY <1>1, <1>2, <1>3 DEF Next, Quiescent

(* There is always an id left for every ANCREATE under way. *)
LEMMA StepIdsLeft ==
  ASSUME TypeOK, InHand, IdsLeft, [Next]_vars
  PROVE  IdsLeft'
<1>1. /\ IsFiniteSet(Creating) /\ Cardinality(Creating) \in Nat
      /\ auctionID \in Nat /\ MaxAuctions \in Nat
  <2>1. IsFiniteSet(Creating)
    BY AuctionServerAssumption, FS_Subset DEF Creating
  <2> QED BY <2>1, FS_CardinalityType, AuctionServerAssumption DEF TypeOK
<1>2. ASSUME NEW t \in JobThreads, TakeRequest(t) PROVE IdsLeft'
  <2>1. PICK r \in Requests :
          /\ r.kind = "ANCREATE" => auctionID + Cardinality(Creating) < MaxAuctions
          /\ Go(t, "idle", IF r.kind \in UserKinds THEN "P_users" ELSE "P_auctions")
          /\ req' = [req EXCEPT ![t] = r]
          /\ UNCHANGED auctions
    BY <1>2 DEF TakeRequest
  <2>2. auctionID' = auctionID
    BY <2>1 DEF auctions
  <2>3. CASE r.kind = "ANCREATE"
    <3>1. Creating' \subseteq Creating \cup {t}
      BY <2>1 DEF Creating, Go, TypeOK, Threads
    <3>2. /\ IsFiniteSet(Creating \cup {t})
          /\ Cardinality(Creating \cup {t}) \in Nat
          /\ Cardinality(Creating \cup {t}) <= Cardinality(Creating) + 1
      <4>1. /\ IsFiniteSet(Creating \cup {t})
            /\ Cardinality(Creating \cup {t}) =
                 IF t \in Creating THEN Cardinality(Creating)
                                   ELSE Cardinality(Creating) + 1
        BY <1>1, FS_AddElement
      <4> QED BY <1>1, <4>1
    <3>3. Cardinality(Creating') \in Nat /\ Cardinality(Creating') <= Cardinality(Creating \cup {t})
      BY <3>1, <3>2, FS_Subset, FS_CardinalityType
    <3> QED BY <1>1, <2>1, <2>2, <2>3, <3>2, <3>3 DEF IdsLeft
  <2>4. CASE r.kind # "ANCREATE"
    <3>1. Creating' \subseteq Creating
      BY <2>1, <2>4 DEF Creating, Go, TypeOK, Threads
    <3>2. Cardinality(Creating') \in Nat /\ Cardinality(Creating') <= Cardinality(Creating)
      BY <1>1, <3>1, FS_Subset, FS_CardinalityType
    <3> QED BY <1>1, <2>2, <3>2 DEF IdsLeft
  <2> QED BY <2>3, <2>4
<1>3. ASSUME NEW t \in JobThreads, CreateTakeId(t) PROVE IdsLeft'
  <2>1. t \in Creating /\ auctionID' = auctionID + 1
    BY <1>3 DEF CreateTakeId, Creating, Go
  <2>2. Creating' = Creating \ {t}
    BY <1>3 DEF CreateTakeId, Creating, Go, TypeOK, Threads
  <2>3. Cardinality(Creating \ {t}) = Cardinality(Creating) - 1
    <3>1. Cardinality(Creating \ {t}) =
            IF t \in Creating THEN Cardinality(Creating) - 1 ELSE Cardinality(Creating)
      BY <1>1, FS_RemoveElement
    <3> QED BY <2>1, <3>1
  <2>4. Cardinality(Creating') = Cardinality(Creating) - 1
    BY <2>2, <2>3
  <2> QED BY <1>1, <2>1, <2>4 DEF IdsLeft
<1>4. CASE ~ \E t \in JobThreads : TakeRequest(t) \/ CreateTakeId(t)
  <2>1. auctionID' = auctionID /\ Creating' \subseteq Creating
    BY <1>4, NothingCreated
  <2>2. Cardinality(Creating') \in Nat /\ Cardinality(Creating') <= Cardinality(Creating)
    BY <1>1, <2>1, FS_Subset, FS_CardinalityType
  <2> QED BY <1>1, <2>1, <2>2 DEF IdsLeft
<1> QED BY <1>2, <1>3, <1>4

(* The inductive invariant behind the type invariant. *)
LEMMA TypedInHand == Spec => [](TypeOK /\ InHand /\ IdsLeft)
<1>1. TypeOK /\ InHand /\ IdsLeft /\ [Next]_vars => (TypeOK /\ InHand /\ IdsLeft)'
  BY StepTyped, StepIdsLeft
<1> QED BY <1>1, InitTyped, PTL DEF Spec

(* TypeOK holds for any number of users, threads, auctions and requests:   *)
(* no handler uses an id, an auction or a user it does not have.           *)
THEOREM TypeCorrect == Spec => []TypeOK
BY TypedInHand, PTL
-------------------------------------------------------------------------------
(* A step of thread t that goes from one label to another moves t in or    *)
(* out of the set of threads at given labels.                              *)
LEMMA AtMoves ==
  ASSUME TypeOK, NEW t \in Threads, NEW from, NEW to, Go(t, from, to), NEW L
  PROVE  /\ At(L)' = IF to \in L THEN At(L) \cup {t} ELSE At(L) \ {t}
         /\ t \in At(L) <=> from \in L
BY DEF At, Go, TypeOK

(* What such a step has to do with the semaphore that guards the labels L. *)
Follows(sem, next, from, to, L) ==
  /\ (from \in L <=> to \in L) => next = sem
  /\ from \in L /\ to \notin L => next = sem + 1
  /\ from \notin L /\ to \in L => sem > 0 /\ next = sem - 1

(* One semaphore, one thread entering or leaving. *)
LEMMA GuardsFollow ==
  ASSUME NEW S, NEW sem, NEW next, NEW t, NEW from, NEW to, NEW L,
         Guards(sem, S), t \in S <=> from \in L, Follows(sem, next, from, to, L)
  PROVE  Guards(next, IF to \in L THEN S \cup {t} ELSE S \ {t})
<1>1. sem \in {0, 1} /\ (\A u, v \in S : u = v) /\ ((sem = 0) <=> (S # {}))
  BY DEF Guards
<1>2. CASE from \in L <=> to \in L
  <2>1. (IF to \in L THEN S \cup {t} ELSE S \ {t}) = S /\ next = sem
    BY <1>2 DEF Follows
  <2> QED BY <2>1
<1>3. CASE from \in L /\ to \notin L
  <2>1. S \ {t} = {} /\ next = 1
    BY <1>1, <1>3 DEF Follows
  <2> QED BY <1>3, <2>1 DEF Guards
<1>4. CASE from \notin L /\ to \in L
  <2>1. S = {} /\ next = 0
    BY <1>1, <1>4 DEF Follows
  <2> QED BY <1>4, <2>1 DEF Guards
<1> QED BY <1>2, <1>3, <1>4

(* All three semaphores. *)
LEMMA LocksFollow ==
  ASSUME TypeOK, LocksExclusive, NEW t \in Threads, NEW from, NEW to, Go(t, from, to),
         Follows(auctionsMutex, auctionsMutex', from, to, HoldsAuctions),
         Follows(usersMutex, usersMutex', from, to, HoldsUsers),
         Follows(auctionIdMutex, auctionIdMutex', from, to, HoldsId)
  PROVE  LocksExclusive'
<1>1. Guards(auctionsMutex', At(HoldsAuctions)')
  <2>1. Guards(auctionsMutex', IF to \in HoldsAuctions THEN At(HoldsAuctions) \cup {t}
                                                     ELSE At(HoldsAuctions) \ {t})
    BY AtMoves, GuardsFollow DEF LocksExclusive
  <2> QED BY <2>1, AtMoves
<1>2. Guards(usersMutex', At(HoldsUsers)')
  <2>1. Guards(usersMutex', IF to \in HoldsUsers THEN At(HoldsUsers) \cup {t}
                                               ELSE At(HoldsUsers) \ {t})
    BY AtMoves, GuardsFollow DEF LocksExclusive
  <2> QED BY <2>1, AtMoves
<1>3. Guards(auctionIdMutex', At(HoldsId)')
  <2>1. Guards(auctionIdMutex', IF to \in HoldsId THEN At(HoldsId) \cup {t}
                                                ELSE At(HoldsId) \ {t})
    BY AtMoves, GuardsFollow DEF LocksExclusive
  <2> QED BY <2>1, AtMoves
<1> QED BY <1>1, <1>2, <1>3 DEF LocksExclusive

(* Crashing, or doing nothing, leaves the locks as they are. *)
LEMMA NoLockTouched ==
  ASSUME LocksExclusive, UNCHANGED <<sems, pc>>
  PROVE  LocksExclusive'
BY DEF LocksExclusive, Guards, At, sems

(* closeAuction keeps the lock discipline, whoever runs it. *)
LEMMA CloseLocks ==
  ASSUME TypeOK, LocksExclusive, NEW t \in Threads, CloseAuction(t) \/ VAuctions(t)
  PROVE  LocksExclusive'
<1> USE DEF Follows, HoldsAuctions, HoldsUsers, HoldsId, Closing, sems, Go
<1>1. CASE ClosePCharge(t) BY <1>1, LocksFollow DEF ClosePCharge, PUsers
<1>2. CASE CloseCharge(t)  BY <1>2, LocksFollow DEF CloseCharge
<1>3. CASE ClosePPay(t)    BY <1>3, LocksFollow DEF ClosePPay, PUsers
<1>4. CASE ClosePay(t)     BY <1>4, LocksFollow DEF ClosePay
<1>5. CASE CloseNotify(t)  BY <1>5, LocksFollow DEF CloseNotify
<1>6. CASE CloseRemove(t)  BY <1>6, LocksFollow DEF CloseRemove
<1>7. CASE CloseAbsent(t)  BY <1>7, NoLockTouched DEF CloseAbsent, Crash
<1>8. CASE VAuctions(t)    BY <1>8, LocksFollow DEF VAuctions
<1> QED BY <1>1, <1>2, <1>3, <1>4, <1>5, <1>6, <1>7, <1>8 DEF CloseAuction

(* The three semaphores admit one thread at a time and are posted only by  *)
(* the thread inside, for any number of threads, on every path through the *)
(* handlers, closeAuction and run_tick.                                    *)
THEOREM MutualExclusion == Spec => []LocksExclusive
<1>1. Init => LocksExclusive
  BY DEF Init, LocksExclusive, Guards, At, HoldsAuctions, HoldsUsers, HoldsId, Closing
<1>2. TypeOK /\ InHand /\ LocksExclusive /\ [Next]_vars => LocksExclusive'
  <2> SUFFICES ASSUME TypeOK, InHand, LocksExclusive, [Next]_vars PROVE LocksExclusive'
    OBVIOUS
  <2>1. ASSUME NEW t \in JobThreads, TakeRequest(t) \/ ProcessJob(t) PROVE LocksExclusive'
    <3>1. t \in Threads
      BY DEF Threads
    <3> USE DEF Follows, HoldsAuctions, HoldsUsers, HoldsId, Closing, sems, Go
    <3>2. CASE TakeRequest(t)
      <4>1. PICK to \in {"P_users", "P_auctions"} : Go(t, "idle", to)
        BY <3>2 DEF TakeRequest
      <4>2. UNCHANGED <<auctionsMutex, usersMutex, auctionIdMutex>>
        BY <3>2 DEF TakeRequest
      <4> QED BY <3>1, <4>1, <4>2, LocksFollow
    <3>3. CASE PAuctions(t)      BY <3>1, <3>3, LocksFollow DEF PAuctions
    <3>4. CASE ListAuctions(t)   BY <3>1, <3>4, LocksFollow DEF ListAuctions, Handling
    <3>5. CASE CreateInvalid(t)  BY <3>1, <3>5, LocksFollow DEF CreateInvalid, Handling
    <3>6. CASE CreateTakeId(t)   BY <3>1, <3>6, LocksFollow DEF CreateTakeId
    <3>7. CASE CreateOwn(t)
      <4>1. PICK to \in {"list", "ownFill"} : Go(t, "own", to)
        BY <3>7 DEF CreateOwn
      <4>2. auctionsMutex' = auctionsMutex /\ usersMutex' = usersMutex
            /\ auctionIdMutex' = auctionIdMutex + 1
        BY <3>7 DEF CreateOwn
      <4> QED BY <3>1, <4>1, <4>2, LocksFollow
    <3>8. CASE CreateOwnFill(t)  BY <3>1, <3>8, LocksFollow DEF CreateOwnFill
    <3>9. CASE CreateList(t)     BY <3>1, <3>9, LocksFollow DEF CreateList
    <3>10. CASE CreateListFill(t) BY <3>1, <3>10, LocksFollow DEF CreateListFill
    <3>11. CASE WatchAuction(t)  BY <3>1, <3>11, LocksFollow DEF WatchAuction, Handling
    <3>12. CASE LeaveAuction(t)  BY <3>1, <3>12, LocksFollow DEF LeaveAuction, Handling
    <3>13. CASE LeaveNotWatching(t) BY <3>1, <3>13, NoLockTouched DEF LeaveNotWatching,
       Crash, work
    <3>14. CASE BidNotFound(t)   BY <3>1, <3>14, LocksFollow DEF BidNotFound, Handling
    <3>15. CASE BidDenied(t)     BY <3>1, <3>15, LocksFollow DEF BidDenied, Handling
    <3>16. CASE BidLow(t)        BY <3>1, <3>16, LocksFollow DEF BidLow, Handling
    <3>17. CASE BidRaise(t)      BY <3>1, <3>17, LocksFollow DEF BidRaise, TakeBid
    <3>18. CASE BidUpdate(t)     BY <3>1, <3>18, LocksFollow DEF BidUpdate
    <3>19. CASE BidBuyNow(t)     BY <3>1, <3>19, LocksFollow DEF BidBuyNow, TakeBid
    <3>20. CASE QueryPUsers(t)   BY <3>1, <3>20, LocksFollow DEF QueryPUsers, PUsers
    <3>21. CASE Query(t)         BY <3>1, <3>21, LocksFollow DEF Query
    <3>22. CASE QueryWild(t)     BY <3>1, <3>22, NoLockTouched DEF QueryWild, Crash,
       work
    <3>23. CASE QueryVUsers(t)
      <4>1. Go(t, "V_users", "idle")
        BY <3>23 DEF QueryVUsers
      <4>2. auctionsMutex' = auctionsMutex /\ usersMutex' = usersMutex + 1
            /\ auctionIdMutex' = auctionIdMutex
        BY <3>23 DEF QueryVUsers
      <4>3. /\ Follows(auctionsMutex, auctionsMutex', "V_users", "idle", HoldsAuctions)
            /\ Follows(usersMutex, usersMutex', "V_users", "idle", HoldsUsers)
            /\ Follows(auctionIdMutex, auctionIdMutex', "V_users", "idle", HoldsId)
        BY <4>2
      <4> HIDE DEF Follows, Go, HoldsAuctions, HoldsUsers, HoldsId
      <4> QED BY <3>1, <4>1, <4>3, LocksFollow
    <3>24. CASE CloseAuction(t) \/ VAuctions(t)
      BY <3>1, <3>24, CloseLocks
    <3> QED
      BY <2>1, <3>2, <3>3, <3>4, <3>5, <3>6, <3>7, <3>8, <3>9, <3>10, <3>11, <3>12,
         <3>13,
         <3>14, <3>15, <3>16, <3>17, <3>18, <3>19, <3>20, <3>21, <3>22, <3>23, <3>24
      DEF ProcessJob, Create, Bid, UsersRequest
  <2>2. CASE RunTick
    <3>1. Tick \in Threads
      BY DEF Threads
    <3> USE DEF Follows, HoldsAuctions, HoldsUsers, HoldsId, Closing, sems, Go
    <3>2. CASE TickStart         BY <3>1, <3>2, LocksFollow DEF TickStart
    <3>3. CASE TickVisit         BY <3>1, <3>3, LocksFollow DEF TickVisit
    <3>4. CASE TickPAuctions     BY <3>1, <3>4, LocksFollow DEF TickPAuctions
    <3>5. CASE TickAdvance       BY <3>1, <3>5, LocksFollow DEF TickAdvance
    <3>6. CASE TickWild          BY <3>1, <3>6, NoLockTouched DEF TickWild, Crash
    <3>7. CASE TickCutShort      BY <3>1, <3>7, LocksFollow DEF TickCutShort
    <3>8. CASE CloseAuction(Tick) \/ VAuctions(Tick)
      BY <3>1, <3>8, CloseLocks
    <3> QED BY <2>2, <3>2, <3>3, <3>4, <3>5, <3>6, <3>7, <3>8 DEF RunTick
  <2>3. CASE UNCHANGED vars
    BY <2>3, NoLockTouched DEF vars
  <2> QED BY <2>1, <2>2, <2>3 DEF Next, Quiescent
<1> QED BY <1>1, <1>2, TypedInHand, PTL DEF Spec
===============================================================================
