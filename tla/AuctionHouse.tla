----------------------------- MODULE AuctionHouse -----------------------------
(***************************************************************************)
(* What the auction server promises to its users, without threads, locks   *)
(* or lists: an auction is opened by a seller, bids on it rise, it closes  *)
(* once, the highest bidder pays once, the seller is paid once, and from   *)
(* then on nothing about it changes.                                       *)
(***************************************************************************)
EXTENDS Integers

CONSTANTS Users, Ids, NoUser,
          Bids                   \* what a bid may be

VARIABLES phase,                 \* "none", "open", "charged", "settled"
          seller, highBidder, highBid,
          account                \* the money of each user

vars == <<phase, seller, highBidder, highBid, account>>

Init ==
  /\ phase = [a \in Ids |-> "none"]
  /\ seller = [a \in Ids |-> NoUser]
  /\ highBidder = [a \in Ids |-> NoUser]
  /\ highBid = [a \in Ids |-> 0]
  /\ account = [u \in Users |-> 0]

Advance(a, from, to) == phase[a] = from /\ phase' = [phase EXCEPT ![a] = to]

Open(a, u) ==
  /\ Advance(a, "none", "open")
  /\ seller' = [seller EXCEPT ![a] = u]
  /\ UNCHANGED <<highBidder, highBid, account>>

Bid(a, u, b) ==
  /\ phase[a] = "open"
  /\ u # seller[a]
  /\ b > highBid[a]
  /\ highBid' = [highBid EXCEPT ![a] = b]
  /\ highBidder' = [highBidder EXCEPT ![a] = u]
  /\ UNCHANGED <<phase, seller, account>>

Charge(a) ==
  /\ Advance(a, "open", "charged")
  /\ account' = IF highBidder[a] = NoUser THEN account
                ELSE [account EXCEPT ![highBidder[a]] = @ - highBid[a]]
  /\ UNCHANGED <<seller, highBidder, highBid>>

Settle(a) ==
  /\ Advance(a, "charged", "settled")
  /\ account' = [account EXCEPT ![seller[a]] = @ + highBid[a]]
  /\ UNCHANGED <<seller, highBidder, highBid>>

Next ==
  \E a \in Ids :
    \/ \E u \in Users : Open(a, u) \/ \E b \in Bids : Bid(a, u, b)
    \/ Charge(a) \/ Settle(a)

Spec == Init /\ [][Next]_vars
===============================================================================
