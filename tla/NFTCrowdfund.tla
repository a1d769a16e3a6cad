----------------------------- MODULE NFTCrowdfund -----------------------------
(***************************************************************************)
(* A crowdfund for an NFT of any kind, from the first contribution to the  *)
(* last claim: its contributors, those who bid, buy and finalize for it,   *)
(* the market and the other bidders.                                       *)
(***************************************************************************)
EXTENDS AuctionCrowdfund, BuyCrowdfund

CONSTANT Kinds            \* which crowdfunds there are

ASSUME KindsAssumption == Kinds \subseteq {"auction", "rolling", "buy", "batch"}

vars == <<baseVars, kind, auctionVars, buying>>

Init ==
  /\ BaseInit
  /\ kind \in Kinds
  /\ IF IsAuction THEN AuctionInit ELSE NoAuction
  /\ buying = NotBuying

Lifecycle == IF IsAuction THEN AuctionLifecycle ELSE BuyLifecycle

\* Anyone burns for c, whether or not c takes its ETH and its card.
BurnAny(c) == \E received, accepted \in BOOLEAN : Burn(Lifecycle, c, received, accepted)

Member(c) ==
  \/ \E own \in BOOLEAN, d \in Delegates :
       \/ OnlyDelegates(own, c, d)
       \/ \E amount \in Amounts, short \in ShortBatches :
            Contribute(Lifecycle, own, c, d, amount, short)
  \/ BurnAny(c)
  \/ Claim(c)

\* Time passes between transactions only.
Tick == call = NoCall /\ ~buying.under /\ BaseTick

Next ==
  \/ /\ \/ \E c \in Contributors : Member(c)
        \/ \E amount \in Amounts : Surplus(amount)
        \/ Tick
     /\ UNCHANGED <<kind, auctionVars, buying>>
  \/ AuctionNext /\ UNCHANGED buying
  \/ ~IsAuction /\ BuyNext(kind = "batch") /\ UNCHANGED <<kind, auctionVars>>

Spec == Init /\ [][Next]_vars

\* The call under way goes on until it ends.
CallGoesOn ==
  \/ (BidEnd \/ FinalizeEnd) /\ UNCHANGED buying
  \/ /\ \/ \E t \in Tokens, amount \in Prices : BuyStep(kind = "batch", t, amount)
        \/ BuyEnd
     /\ UNCHANGED <<kind, auctionVars>>

\* Transactions end, blocks follow, auctions come to their end, and somebody calls
\* what anyone may call.
FairSpec ==
  /\ Spec
  /\ WF_vars(CallGoesOn)
  /\ SF_vars(Tick /\ UNCHANGED <<kind, auctionVars, buying>>)
  /\ WF_vars(\E t \in Tokens : AuctionOver(t) /\ UNCHANGED buying)
  /\ WF_vars(IsAuction /\ FinalizeBegin /\ UNCHANGED buying)
  /\ WF_vars(\E c \in Contributors : BurnAny(c) /\ UNCHANGED <<kind, auctionVars, buying>>)

----------------------------------------------------------------------------
(* Properties                                                              *)

Entries == [previous : Nat, amount : Nat \ {0}]

\* The values each variable takes.
TypeOK ==
  /\ now \in Nat /\ expiry \in Nat
  /\ contributions \in [Contributors -> Seq(Entries)]
  /\ totalContributions \in Nat
  /\ delegationsByContributor \in [Contributors -> Delegates \cup {None}]
  /\ nfts \subseteq Contributors
  /\ splitBurned \in BOOLEAN
  /\ price \in Nat
  /\ place \in [Tokens -> {"market", "us", "other", "party"}]
  /\ partyTotal \in Nat
  /\ cards \in [Contributors -> Nat]
  /\ partyDelegate \in [Contributors \cup {Self} -> Contributors \cup {None}]
  /\ claims \in [Contributors -> [refund : Nat, power : Nat]]
  /\ balance \in Nat
  /\ stray \in Nat
  /\ got \in [Contributors -> Nat]
  /\ kind \in Kinds
  /\ bidStatus \in {"Active", "Busy", "Finalized"}
  /\ auctionId \in Tokens \cup {0}
  /\ maximumBid \in Nat
  /\ auctions \in [Tokens -> [bidder : {"none", "us", "other"}, amount : Nat, over : BOOLEAN]]
  /\ call \in [op : {"none", "bid", "finalize"}, lastBid : Nat,
               lc : {"none", "Active", "Expired"}]
  /\ buying \in [under : BOOLEAN, left : SUBSET Tokens, bought : SUBSET Tokens, spent : Nat,
                 min : Nat, all : BOOLEAN]

\* The ETH that each contribution used and what is owed back add up to what was
\* contributed, and the contributions together used exactly the price, whatever the
\* order they came in (_getFinalContribution).
EveryEtherAccounted ==
  Lifecycle \in {"Won", "Lost"} =>
    /\ \A c \in Contributors :
         FinalContribution(c).used + FinalContribution(c).owed = Total(contributions[c])
    /\ SumFunction([c \in Contributors |-> FinalContribution(c).used]) = price

\* The cards of all contributors and of the recipient of the split never pass the
\* total of the party, and rounding loses less than one vote for each of them.
\* (The cap of mint() would cut the last card otherwise.)
PowerSumsToPrice ==
  Lifecycle = "Won" =>
    LET all == SumFunction([c \in Contributors |-> VotingPower(c)])
    IN /\ all <= partyTotal
       /\ SplitRecipient # None => partyTotal - all < Cardinality(Contributors)

\* What must still be given back once the outcome is known: what is owed to those who
\* did not burn yet, and the claims.
Outstanding ==
  SumFunction([c \in Contributors |-> claims[c].refund])
  + SumFunction([c \in nfts |-> FinalContribution(c).owed])

\* With the outcome the ETH of the crowdfund covers what it owes its contributors,
\* whoever burns or claims first: no bid is still with the market, and what was spent
\* is the price (finalize, burn, claim).
Solvent == Lifecycle \in {"Won", "Lost"} => Outstanding + stray <= balance

\* Who has burned got its refund and its power once, or can claim them; who has not
\* got neither (_burn, claim).
PaidWhatIsOwed ==
  \A c \in Contributors :
    LET refund == got[c] + claims[c].refund
        power == cards[c] + claims[c].power
        done == IF c = SplitRecipient THEN splitBurned
                ELSE contributions[c] # <<>> /\ c \notin nfts
    IN /\ refund = IF done THEN FinalContribution(c).owed ELSE 0
       /\ power = IF done THEN VotingPower(c) ELSE 0

\* A crowdfund has won exactly if there is a party, which then holds an NFT, has the
\* price as its total and the contributions to pay for it (_createParty, _finalize).
\* The NFT is that of the last auction, and the price was bid in that one: a bid in an
\* earlier auction never becomes the price of one that the crowdfund rolled over to.
WonHoldsNft ==
  /\ (Lifecycle = "Won") => /\ \E t \in Tokens : place[t] = "party"
                            /\ price = partyTotal
                            /\ price <= totalContributions
  /\ (Lifecycle = "Won" /\ IsAuction) => /\ place[auctionId] = "party"
                                         /\ price <= auctions[auctionId].amount
  /\ (Lifecycle = "Lost") => price = 0 /\ partyTotal = 0

\* Once won or lost, the outcome, the price and the contributions never change, so
\* what is owed to one does not depend on who burned before.
OutcomeStays ==
  Lifecycle \in {"Won", "Lost"} =>
    /\ Lifecycle' = Lifecycle
    /\ UNCHANGED <<price, contributions, partyTotal>>

FinalIsFinal == [][OutcomeStays]_vars

\* Everybody who contributed can in the end exchange the crowdfund NFT for ETH or
\* power, without the help of a host.
Settling == \A c \in Contributors : c \in nfts ~> c \notin nfts

=============================================================================
