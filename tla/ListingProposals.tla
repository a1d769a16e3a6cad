-------------------------- MODULE ListingProposals --------------------------
(***************************************************************************)
(* Proposals that sell an NFT of the party, run by its engine:             *)
(* ListOnZoraProposal and ListOnOpenseaProposal.  A Zora auction takes the *)
(* NFT into escrow; an OpenSea listing leaves it with the party, approves  *)
(* the conduit for it and validates an order that anyone may fill.  Each   *)
(* step of a proposal is an execution; between two of them the markets,    *)
(* other members and cancel() do what they like.                           *)
(*                                                                         *)
(* A proposal of kind "Other" returns what it likes and leaves the NFT     *)
(* alone.  The NFT is an ERC721, and the markets do not call the party     *)
(* back in the middle of a step.                                           *)
(***************************************************************************)
EXTENDS PartyProposals

CONSTANTS
  Kinds,           \* what the proposals may be: functions to "Zora", "OpenSea", "Other"
  OtherData,       \* progress data of another kind of proposal
  ZoraTimeout,     \* timeout of a Zora proposal, limits applied
  SafetyTimeout,   \* GLOBAL_OS_ZORA_AUCTION_TIMEOUT
  AuctionDuration, \* how long an auction runs after the first bid
  OrderDuration    \* duration of the OpenSea order of each proposal, limits applied

ASSUME ListingAssumption ==
  /\ Kinds \subseteq [ProposalIds -> {"Zora", "OpenSea", "Other"}]
  /\ {ZoraTimeout, SafetyTimeout, AuctionDuration} \subseteq Nat
  /\ OrderDuration \in [ProposalIds -> Nat]

\* Progress data is a record of the step reached and of a time.
ASSUME ProgressAssumption ==
  /\ NoData.step = "None"
  /\ OtherData \in Progress
  /\ \A t \in Times :
       /\ \A d \in {ZoraTimeout, SafetyTimeout} :
            [step |-> "ListedOnZora", expiry |-> t + d] \in Progress
       /\ \A p \in ProposalIds :
            [step |-> "ListedOnOpenSea", expiry |-> t + OrderDuration[p]] \in Progress

VARIABLES
  kind,       \* the type of each proposal
  isPrecious, \* whether the NFT is among the party's precious tokens
  call,       \* what the execution under way was given
  nft,        \* "party", "zora" or "sold"
  auction,    \* the Zora auction that holds the NFT: by which proposal, first bid
  orders,     \* the expiry of the Seaport order of each proposal
  filled,     \* proposals whose order was filled
  approved    \* whether the conduit may take the NFT from the party

marketVars == <<nft, auction, orders, filled, approved>>
listingVars == <<now, prop, lastProposalId, isHost, total, hist, active, disabled, engine,
                 stack, kind, isPrecious, call, nft, auction, orders, filled, approved>>

NoAuction == [by |-> 0, bid |-> 0]

NoCall == [data |-> NoData, unanimous |-> FALSE]

----------------------------------------------------------------------------
(* What a step of proposal p finds, given c                                *)

\* The safety auction of a precious NFT is skipped by unanimity only.
NeedsAuction(c) == isPrecious /\ ~c.unanimous /\ SafetyTimeout # 0

StartsAuction(p, c) ==
  /\ c.data = NoData
  /\ kind[p] = "Zora" \/ (kind[p] = "OpenSea" /\ NeedsAuction(c))
  /\ nft = "party"

StartsOrder(p, c) ==
  /\ c.data = NoData
  /\ kind[p] = "OpenSea" /\ ~NeedsAuction(c)
  /\ nft = "party"

OnZora(c) == c.data.step = "ListedOnZora"

\* Seeded bug: an auction without bids is cancelled before its time is over.
Expired_Always(p, c) == OnZora(c) /\ auction = [by |-> p, bid |-> 0]

\* endAuction says that the auction has not begun: nobody bid.
Expired(p, c) == OnZora(c) /\ auction = [by |-> p, bid |-> 0] /\ c.data.expiry <= now

AuctionOver == auction.bid # 0 /\ auction.bid + AuctionDuration <= now

Won(p, c) == OnZora(c) /\ auction.by = p /\ AuctionOver

\* endAuction says that there is no such auction: somebody else ended it.
EndedByOther(p, c) == OnZora(c) /\ auction.by # p

\* _cleanUpListing; the approval can only be revoked by the owner of the NFT.
OrderOver(p, c) ==
  /\ c.data.step = "ListedOnOpenSea"
  /\ p \in filled \/ (c.data.expiry <= now /\ nft = "party")

\* The step does not revert.
Succeeds(p, c) ==
  \/ kind[p] = "Other"
  \/ StartsAuction(p, c) \/ StartsOrder(p, c)
  \/ Expired(p, c) \/ Won(p, c) \/ EndedByOther(p, c)
  \/ OrderOver(p, c)

----------------------------------------------------------------------------
(* Steps                                                                   *)

Running == Last(stack)

Begin(m, p, d) ==
  LET c == [data |-> d, unanimous |-> UnanimousFlag(p)]
  IN  /\ ExecuteBegin(m, p, d)
      /\ Succeeds(p, c)
      /\ call' = c
      /\ UNCHANGED <<kind, isPrecious>>
      /\ UNCHANGED marketVars

Returned ==
  /\ call' = NoCall
  /\ UNCHANGED <<kind, isPrecious>>

Timeout(p) == IF kind[p] = "Zora" THEN ZoraTimeout ELSE SafetyTimeout

\* _createZoraAuction; the transfer ends any approval of the NFT.
StartAuction ==
  /\ stack # <<>> /\ StartsAuction(Running, call)
  /\ nft' = "zora"
  /\ auction' = [by |-> Running, bid |-> 0]
  /\ approved' = FALSE
  /\ UNCHANGED <<orders, filled>>
  /\ ReturnPartial([step |-> "ListedOnZora", expiry |-> now + Timeout(Running)])
  /\ Returned

\* An auction that nobody bid on is cancelled and the NFT listed at once.
Relists(p, c) == kind[p] = "OpenSea" /\ Expired(p, c)

OrderExpiry(p) == now + OrderDuration[p]

\* _approveConduit and _listOnOpensea.
StartOrder ==
  /\ stack # <<>>
  /\ StartsOrder(Running, call) \/ Relists(Running, call)
  /\ nft' = "party"
  /\ auction' = NoAuction
  /\ approved' = TRUE
  /\ orders' = [orders EXCEPT ![Running] = OrderExpiry(Running)]
  /\ UNCHANGED filled
  /\ ReturnPartial([step |-> "ListedOnOpenSea", expiry |-> OrderExpiry(Running)])
  /\ Returned

\* The auction is over: the NFT went to the bidder, or came back because nobody
\* bid or the bidder could not take it.
FinishAuction ==
  /\ stack # <<>>
  /\ \/ /\ EndedByOther(Running, call)
        /\ UNCHANGED <<nft, auction>>
     \/ /\ Won(Running, call)
        /\ nft' \in {"sold", "party"}
        /\ auction' = NoAuction
     \/ /\ Expired(Running, call) /\ kind[Running] = "Zora"
        /\ nft' = "party"
        /\ auction' = NoAuction
  /\ UNCHANGED <<orders, filled, approved>>
  /\ ReturnComplete
  /\ Returned

\* Seeded bug: the approval of an expired listing stays.
ApprovalLeft_Kept(p) == approved

\* The transfer of the sale, or the party itself, ends the approval.
ApprovalLeft(p) == p \in filled /\ approved

FinishOrder ==
  /\ stack # <<>> /\ OrderOver(Running, call)
  /\ approved' = ApprovalLeft(Running)
  /\ UNCHANGED <<nft, auction, orders, filled>>
  /\ ReturnComplete
  /\ Returned

OtherReturn ==
  /\ stack # <<>> /\ kind[Running] = "Other"
  /\ ReturnComplete \/ ReturnPartial(OtherData)
  /\ Returned
  /\ UNCHANGED marketVars

Return == StartAuction \/ StartOrder \/ FinishAuction \/ FinishOrder \/ OtherReturn

----------------------------------------------------------------------------
(* The markets                                                             *)

Market ==
  /\ stack = <<>>
  /\ UNCHANGED vars
  /\ UNCHANGED <<kind, isPrecious, call>>

Bid ==
  /\ auction.by # 0 /\ auction.bid = 0
  /\ auction' = [auction EXCEPT !.bid = now]
  /\ UNCHANGED <<nft, orders, filled, approved>>
  /\ Market

\* endAuction by anybody.
EndAuction ==
  /\ AuctionOver
  /\ nft' \in {"sold", "party"}
  /\ auction' = NoAuction
  /\ UNCHANGED <<orders, filled, approved>>
  /\ Market

Fillable(p) == nft = "party" /\ approved /\ now < orders[p] /\ p \notin filled

Fill(p) ==
  /\ Fillable(p)
  /\ nft' = "sold"
  /\ filled' = filled \cup {p}
  /\ approved' = FALSE
  /\ UNCHANGED <<auction, orders>>
  /\ Market

----------------------------------------------------------------------------

ListingInit ==
  /\ Init
  /\ kind \in Kinds
  /\ isPrecious \in BOOLEAN
  /\ call = NoCall
  /\ nft = "party"
  /\ auction = NoAuction
  /\ orders = [p \in ProposalIds |-> 0]
  /\ filled = {}
  /\ approved = FALSE

ListingNext ==
  \/ /\ (\E h \in isHost : HostStep(h)) \/ OtherStep
     /\ UNCHANGED <<kind, isPrecious, call>>
     /\ UNCHANGED marketVars
  \/ \E m \in Members, p \in ProposalIds, d \in Progress \cup {NoData} : Begin(m, p, d)
  \/ Return
  \/ Bid
  \/ EndAuction
  \/ \E p \in ProposalIds : Fill(p)

\* Transactions end, blocks follow each other, and somebody with power wants the
\* party free: cancel() is called again and again while it may succeed.
ListingSpec ==
  /\ ListingInit /\ [][ListingNext]_listingVars
  /\ WF_listingVars(Return)
  /\ SF_listingVars(Tick /\ UNCHANGED <<kind, isPrecious, call>> /\ UNCHANGED marketVars)
  /\ \A p \in ProposalIds :
       SF_listingVars(/\ \E m \in Members : Cancel(m, p)
                      /\ UNCHANGED <<kind, isPrecious, call>>
                      /\ UNCHANGED marketVars)

----------------------------------------------------------------------------
(* Properties                                                              *)

OrderStarts(p) == orders'[p] # orders[p]

\* A precious NFT is not sold below its worth by a majority: without a unanimous
\* vote it is only listed on OpenSea after an auction of the same proposal that
\* was open for the whole timeout and that nobody bid on.
AuctionedFirst ==
  [][\A p \in ProposalIds :
       OrderStarts(p) /\ isPrecious /\ prop[p].votes * Bps < UnanimousBps * InitialTotal =>
         /\ auction = [by |-> p, bid |-> 0]
         /\ prop[p].executedTime + SafetyTimeout <= now]_listingVars

\* When a listing has run to its end nothing is left that takes the NFT from the
\* party: not its order, nor those of listings that were cancelled before it, nor
\* an auction.
EndedListingIsSafe ==
  [][\A p \in ProposalIds :
       stack = <<p>> /\ stack' = <<>> /\ prop'[p].completedTime # 0 /\ kind[p] # "Other" =>
         /\ nft' # "zora" /\ auction' = NoAuction
         /\ \A q \in ProposalIds : ~Fillable(q)']_listingVars

=============================================================================
