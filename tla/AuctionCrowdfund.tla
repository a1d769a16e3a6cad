--------------------------- MODULE AuctionCrowdfund ---------------------------
(***************************************************************************)
(* The crowdfunds that bid for an NFT (AuctionCrowdfundBase): one auction  *)
(* (AuctionCrowdfund), or one after the other until one is won             *)
(* (RollingAuctionCrowdfund).                                              *)
(*                                                                         *)
(* bid() and finalize() call the market, which pays others and may call    *)
(* back, so each is two steps: Begin up to the call and End from its       *)
(* return.  The market and the other bidders are modelled as the wrappers  *)
(* use them: an auction is over some time after a bid, whoever is outbid   *)
(* gets its ETH back at once, and anyone may settle what is over.          *)
(***************************************************************************)
EXTENDS Crowdfund

CONSTANTS
  FirstAuction,
  MaximumBids,            \* the bounds on bids a crowdfund may be given
  Bids,                   \* the bids of the crowdfund; bound on the price
  OthersBids,             \* the bids of everybody else
  ReservePrice

ASSUME AuctionAssumption ==
  /\ MaximumBids \cup Bids \cup OthersBids \cup {ReservePrice} \subseteq Nat \ {0}
  /\ \E m \in MaximumBids : ReservePrice <= m
  /\ FirstAuction \in Tokens /\ 0 \notin Tokens

VARIABLES
  kind,                     \* which crowdfund this is; never changes
  bidStatus,                \* _bidStatus
  auctionId,                \* an auction is named by its NFT
  maximumBid,
  auctions,                 \* highest bidder and bid of each auction, whether it is over
  call                      \* what bid() or finalize() keep on their stack

auctionVars == <<bidStatus, auctionId, maximumBid, auctions, call>>

NoCall == [op |-> "none", lastBid |-> 0, lc |-> "none"]
NoBid == [bidder |-> "none", amount |-> 0, over |-> FALSE]

\* A crowdfund for an auction; one that buys has none (0).
AuctionInit ==
  /\ bidStatus = "Active"
  /\ auctionId = FirstAuction
  /\ maximumBid \in {m \in MaximumBids : ReservePrice <= m}
  /\ auctions = [t \in Tokens |-> NoBid]
  /\ call = NoCall

NoAuction ==
  /\ bidStatus = "Active"
  /\ auctionId = 0
  /\ maximumBid = 0
  /\ auctions = [t \in Tokens |-> NoBid]
  /\ call = NoCall

IsAuction == kind \in {"auction", "rolling"}

\* Seeded bug: the expiry is looked at before the outcome.
AuctionLifecycle_ExpiryFirst ==
  IF bidStatus = "Busy" THEN "Busy"
  ELSE IF now >= expiry THEN "Expired"
  ELSE IF bidStatus = "Finalized" THEN IF partyTotal # 0 THEN "Won" ELSE "Lost" ELSE "Active"

\* getCrowdfundLifecycle
AuctionLifecycle ==
  IF bidStatus = "Busy" THEN "Busy"
  ELSE IF bidStatus = "Finalized" THEN IF partyTotal # 0 THEN "Won" ELSE "Lost"
  ELSE IF now >= expiry THEN "Expired" ELSE "Active"

\* getMinimumBid
MinimumBid(t) == IF auctions[t].bidder = "none" THEN ReservePrice ELSE auctions[t].amount + 1

----------------------------------------------------------------------------
(* Bidding                                                                 *)

\* Seeded bug: a bid may use ETH that nobody contributed.
Affordable_Balance(amount) == amount <= maximumBid

Affordable(amount) == amount <= totalContributions /\ amount <= maximumBid

\* _bid with the least amount, or with the one a host chooses; the market accepts
\* the bid and gets its ETH.
BidBegin(amount) ==
  /\ AuctionLifecycle = "Active"
  /\ place[auctionId] = "market"
  /\ auctions[auctionId].bidder # "us"
  /\ Affordable(amount)
  /\ amount >= MinimumBid(auctionId) /\ ~auctions[auctionId].over
  /\ amount <= balance
  /\ bidStatus' = "Busy"
  /\ price' = amount
  /\ balance' = balance - amount
  /\ call' = [NoCall EXCEPT !.op = "bid"]
  /\ UNCHANGED <<now, expiry, givenVars, delegationsByContributor, place, partyTotal, burnVars,
                 kind, auctionId, maximumBid, auctions>>

BidEnd ==
  /\ call.op = "bid"
  /\ auctions' = [auctions EXCEPT ![auctionId] = [@ EXCEPT !.bidder = "us", !.amount = price]]
  /\ bidStatus' = "Active"
  /\ call' = NoCall
  /\ UNCHANGED <<baseVars, kind, auctionId, maximumBid>>

----------------------------------------------------------------------------
(* Finalizing                                                              *)

\* Seeded bug: an auction the crowdfund has not bid in is still waited for.
Settles_Always == place[auctionId] = "market"

\* _finalizeAuction calls the market unless nothing can come of it.
Settles ==
  /\ price # 0 \/ AuctionLifecycle = "Active"
  /\ place[auctionId] = "market"
  /\ ~(AuctionLifecycle = "Expired" /\ auctions[auctionId].bidder # "us")

\* The market gives the NFT to the highest bidder.
Settled(t) == [place EXCEPT ![t] = auctions[t].bidder]

Wins(lastBid) == place[auctionId] = "us" /\ lastBid # 0

\* An auction to roll over to, allowed by the Merkle root or by a host: even one that
\* is over, or the same again.
MayFollow(t, m) == m >= MinimumBid(t)

RollsOver(lc) == kind = "rolling" /\ lc = "Active"

\* finalize and finalizeOrRollOver by anyone, up to the end of the market's call.
FinalizeBegin ==
  /\ AuctionLifecycle \in {"Active", "Expired"}
  /\ Settles => auctions[auctionId].over
  /\ place' = IF Settles THEN Settled(auctionId) ELSE place
  /\ RollsOver(AuctionLifecycle) /\ ~(place'[auctionId] = "us" /\ price # 0)
       => \E t \in Tokens, m \in MaximumBids : MayFollow(t, m)
  /\ bidStatus' = "Busy"
  /\ call' = [op |-> "finalize", lastBid |-> price, lc |-> AuctionLifecycle]
  /\ UNCHANGED <<now, expiry, givenVars, delegationsByContributor, price, partyTotal, balance,
                 burnVars, kind, auctionId, maximumBid, auctions>>

FinalizeWon ==
  /\ call.op = "finalize"
  /\ Wins(call.lastBid)
  /\ PartyCreated(price, {auctionId})
  /\ bidStatus' = "Finalized"
  /\ call' = NoCall
  /\ UNCHANGED <<now, expiry, givenVars, delegationsByContributor, price, balance, burnVars,
                 kind, auctionId, maximumBid, auctions>>

\* Seeded bug: the last bid remains the price.
PriceOfLoss_Kept == price

\* So that all contributions are owed back.
PriceOfLoss == 0

FinalizeLost ==
  /\ call.op = "finalize"
  /\ ~Wins(call.lastBid)
  /\ ~RollsOver(call.lc)
  /\ price' = PriceOfLoss
  /\ bidStatus' = "Finalized"
  /\ call' = NoCall
  /\ UNCHANGED <<now, expiry, givenVars, delegationsByContributor, place, partyTotal, balance,
                 burnVars, kind, auctionId, maximumBid, auctions>>

\* Seeded bug: the last bid is taken over to the next auction.
PriceAfterRollOver_Kept == price

\* Nothing has been bid in the next auction.
PriceAfterRollOver == 0

RollOver(t, m) ==
  /\ call.op = "finalize"
  /\ ~Wins(call.lastBid)
  /\ RollsOver(call.lc)
  /\ MayFollow(t, m)
  /\ auctionId' = t
  /\ maximumBid' = m
  /\ price' = PriceAfterRollOver
  /\ bidStatus' = "Active"
  /\ call' = NoCall
  /\ UNCHANGED <<now, expiry, givenVars, delegationsByContributor, place, partyTotal, balance,
                 burnVars, kind, auctions>>

FinalizeEnd ==
  \/ FinalizeWon
  \/ FinalizeLost
  \/ \E t \in Tokens, m \in MaximumBids : RollOver(t, m)

----------------------------------------------------------------------------
(* The market and its other users                                          *)

\* What others do with t, if it can matter to the crowdfund.
Others(t) ==
  /\ IsAuction
  /\ t = auctionId \/ kind = "rolling"
  /\ call = NoCall
  /\ UNCHANGED <<now, expiry, givenVars, delegationsByContributor, price, partyTotal, burnVars,
                 kind, bidStatus, auctionId, maximumBid, call>>

\* Someone else bids; if that outbids the crowdfund, its ETH comes back.
OtherBids(t, amount) ==
  /\ Others(t)
  /\ place[t] = "market" /\ ~auctions[t].over /\ auctions[t].bidder # "other"
  /\ amount >= MinimumBid(t)
  /\ balance' = balance + IF auctions[t].bidder = "us" THEN auctions[t].amount ELSE 0
  /\ auctions' = [auctions EXCEPT ![t] = [@ EXCEPT !.bidder = "other", !.amount = amount]]
  /\ UNCHANGED place

AuctionOver(t) ==
  /\ Others(t)
  /\ auctions[t].bidder # "none" /\ ~auctions[t].over
  /\ auctions' = [auctions EXCEPT ![t].over = TRUE]
  /\ UNCHANGED <<place, balance>>

MarketSettles(t) ==
  /\ Others(t)
  /\ place[t] = "market" /\ auctions[t].over
  /\ place' = Settled(t)
  /\ UNCHANGED <<auctions, balance>>

\* Who won the NFT gives it to the crowdfund.
Gift(t) ==
  /\ Others(t)
  /\ place[t] = "other"
  /\ place' = [place EXCEPT ![t] = "us"]
  /\ UNCHANGED <<auctions, balance>>

AuctionNext ==
  \/ /\ IsAuction
     /\ \/ \E amount \in Bids : BidBegin(amount)
        \/ BidEnd
        \/ FinalizeBegin
        \/ FinalizeEnd
  \/ \E t \in Tokens :
       \/ \E amount \in OthersBids : OtherBids(t, amount)
       \/ AuctionOver(t) \/ MarketSettles(t) \/ Gift(t)

=============================================================================
