------------------------- MODULE NFTCrowdfund_proofs -------------------------
(***************************************************************************)
(* The outcome of an NFT crowdfund, for any contributors, amounts, bids,   *)
(* prices, NFTs and kinds: it is won exactly with a party that holds an    *)
(* NFT at a price the contributions pay for, and it never changes; what    *)
(* contributors are owed adds up to what they gave.                        *)
(***************************************************************************)
EXTENDS NFTCrowdfund, SequenceTheorems, SumTheorems

\* There is a party for what is in the hands of the crowdfund.
PartyBacked ==
  /\ price = partyTotal
  /\ \E t \in Tokens : place[t] = "party"
  /\ IsAuction => bidStatus = "Finalized"
  /\ ~buying.under

Numbers ==
  /\ {now, expiry, totalContributions, price, partyTotal, buying.spent} \subseteq Nat
  /\ place = [t \in Tokens |-> place[t]]
  /\ IsAuction => auctionId \in Tokens

\* What bid() and finalize() keep is current while they run.
CallInv ==
  /\ call.op # "none" => IsAuction /\ bidStatus = "Busy"
  /\ call.op = "finalize" => call.lastBid = price

BuyingInv ==
  /\ buying.under => ~IsAuction /\ price # 0 /\ partyTotal = 0
  /\ buying.left # {} => buying.under
  /\ buying.bought \subseteq Tokens
  /\ buying.spent # 0 => buying.bought # {}
  /\ buying.spent <= totalContributions

PriceInv ==
  /\ ~buying.under => price <= totalContributions
  /\ partyTotal # 0 => PartyBacked
  /\ IsAuction /\ bidStatus = "Finalized" /\ partyTotal = 0 => price = 0
  /\ ~IsAuction /\ ~buying.under /\ price # 0 => partyTotal # 0

OutcomeInv == Numbers /\ CallInv /\ BuyingInv /\ PriceInv

\* A crowdfund that was just created has neither won nor lost.
LEMMA Start == Init => OutcomeInv
  BY CrowdfundAssumption, AuctionAssumption
  DEF Init, BaseInit, AuctionInit, NoAuction, NotBuying, NoCall, OutcomeInv, Numbers, CallInv,
      BuyingInv, PriceInv, PartyBacked, IsAuction

\* Neither the price nor an NFT changes hands, and contributions only grow.
LEMMA Aside ==
  ASSUME OutcomeInv,
         UNCHANGED <<price, place, partyTotal, kind, auctionVars, buying>>,
         {now', expiry', totalContributions'} \subseteq Nat,
         totalContributions <= totalContributions'
  PROVE  OutcomeInv'
  BY DEF OutcomeInv, Numbers, CallInv, BuyingInv, PriceInv, PartyBacked, IsAuction, auctionVars

\* What contributors do - contribute, burn, claim - decides nothing.
LEMMA MemberStep ==
  ASSUME OutcomeInv, NEW c \in Contributors, Member(c), UNCHANGED <<kind, auctionVars, buying>>
  PROVE  OutcomeInv'
  <1>1. /\ {now, expiry, totalContributions} \subseteq Nat
        /\ Amounts \subseteq Nat
    BY CrowdfundAssumption DEF OutcomeInv, Numbers
  <1>2. ASSUME NEW own, NEW d, OnlyDelegates(own, c, d) PROVE OutcomeInv'
    BY <1>1, <1>2, Aside DEF OnlyDelegates, givenVars
  <1>3. ASSUME NEW own, NEW d, NEW amount \in Amounts, NEW short,
               Contribute(Lifecycle, own, c, d, amount, short)
        PROVE  OutcomeInv'
    <2>1. /\ UNCHANGED <<now, expiry, price, place, partyTotal>>
          /\ totalContributions' = totalContributions + amount
      BY <1>3 DEF Contribute
    <2> QED
      BY <1>1, <2>1, Aside
  <1>4. ASSUME BurnAny(c) PROVE OutcomeInv'
    <2>1. UNCHANGED <<now, expiry, totalContributions, price, place, partyTotal>>
      BY <1>4 DEF BurnAny, Burn
    <2> QED
      BY <1>1, <2>1, Aside
  <1>5. ASSUME Claim(c) PROVE OutcomeInv'
    <2>1. UNCHANGED <<now, expiry, totalContributions, price, place, partyTotal>>
      BY <1>5 DEF Claim, givenVars
    <2> QED
      BY <1>1, <2>1, Aside
  <1> QED
    BY <1>2, <1>3, <1>4, <1>5 DEF Member

\* Nor do gifts of ETH and the passing of time.
LEMMA OtherStep ==
  ASSUME OutcomeInv, (\E amount \in Amounts : Surplus(amount)) \/ BaseTick,
         UNCHANGED <<kind, auctionVars, buying>>
  PROVE  OutcomeInv'
  <1>1. /\ UNCHANGED <<expiry, totalContributions, price, place, partyTotal>>
        /\ now' \in {now, now + 1}
    BY DEF Surplus, BaseTick, givenVars
  <1>2. {now, expiry, totalContributions} \subseteq Nat
    BY DEF OutcomeInv, Numbers
  <1> QED
    BY <1>1, <1>2, Aside

\* A bid sets the price, within the contributions, while the crowdfund is open.
LEMMA BidStep ==
  ASSUME OutcomeInv, IsAuction, UNCHANGED buying,
         (\E amount \in Bids : BidBegin(amount)) \/ BidEnd
  PROVE  OutcomeInv'
  <1>1. ASSUME NEW amount \in Bids, BidBegin(amount) PROVE OutcomeInv'
    <2>1. /\ UNCHANGED <<now, expiry, totalContributions, place, partyTotal, kind, auctionId>>
          /\ price' = amount /\ amount \in Nat /\ amount <= totalContributions
          /\ bidStatus' = "Busy"
          /\ call'.op = "bid"
      BY <1>1, AuctionAssumption DEF BidBegin, givenVars, Affordable, NoCall
    <2>2. bidStatus # "Finalized"
      BY <1>1 DEF BidBegin, AuctionLifecycle
    <2> QED
      BY <2>1, <2>2 DEF OutcomeInv, Numbers, CallInv, BuyingInv, PriceInv, PartyBacked, IsAuction
  <1>2. ASSUME BidEnd PROVE OutcomeInv'
    <2>1. /\ UNCHANGED <<now, expiry, totalContributions, price, place, partyTotal, kind,
                         auctionId>>
          /\ bidStatus = "Busy" /\ bidStatus' = "Active"
          /\ call'.op = "none"
      BY <1>2 DEF BidEnd, baseVars, givenVars, NoCall, OutcomeInv, CallInv
    <2> QED
      BY <2>1 DEF OutcomeInv, Numbers, CallInv, BuyingInv, PriceInv, PartyBacked, IsAuction
  <1> QED
    BY <1>1, <1>2

\* finalize() and rolling over decide by who holds the NFT and by the last bid.
LEMMA FinalizeStep ==
  ASSUME OutcomeInv, IsAuction, UNCHANGED buying, FinalizeBegin \/ FinalizeEnd
  PROVE  OutcomeInv'
  <1>1. ASSUME FinalizeBegin PROVE OutcomeInv'
    <2>1. /\ UNCHANGED <<now, expiry, totalContributions, price, partyTotal, kind, auctionId>>
          /\ bidStatus' = "Busy"
          /\ call'.op = "finalize" /\ call'.lastBid = price
          /\ place' = place \/ place' = Settled(auctionId)
      BY <1>1 DEF FinalizeBegin, givenVars
    <2>2. bidStatus # "Finalized"
      BY <1>1 DEF FinalizeBegin, AuctionLifecycle
    <2>3. place' = [t \in Tokens |-> place'[t]]
      BY <2>1 DEF Settled, OutcomeInv, Numbers
    <2> QED
      BY <2>1, <2>2, <2>3
      DEF OutcomeInv, Numbers, CallInv, BuyingInv, PriceInv, PartyBacked, IsAuction
  <1>2. ASSUME FinalizeWon PROVE OutcomeInv'
    <2>1. /\ UNCHANGED <<now, expiry, totalContributions, price, kind, auctionId>>
          /\ bidStatus' = "Finalized"
          /\ call'.op = "none"
          /\ partyTotal' = price
          /\ place' = [t \in Tokens |-> IF t \in {auctionId} THEN "party" ELSE place[t]]
          /\ price # 0
      BY <1>2 DEF FinalizeWon, givenVars, PartyCreated, NoCall, Wins, OutcomeInv, CallInv
    <2>2. /\ \E t \in Tokens : place'[t] = "party"
          /\ place' = [t \in Tokens |-> place'[t]]
      BY <2>1 DEF OutcomeInv, Numbers
    <2> QED
      BY <2>1, <2>2 DEF OutcomeInv, Numbers, CallInv, BuyingInv, PriceInv, PartyBacked, IsAuction
  <1>3. ASSUME FinalizeLost PROVE OutcomeInv'
    <2>1. /\ UNCHANGED <<now, expiry, totalContributions, place, partyTotal, kind, auctionId>>
          /\ bidStatus = "Busy" /\ bidStatus' = "Finalized"
          /\ call'.op = "none"
          /\ price' = 0
      BY <1>3 DEF FinalizeLost, PriceOfLoss, givenVars, NoCall, OutcomeInv, CallInv
    <2> QED
      BY <2>1 DEF OutcomeInv, Numbers, CallInv, BuyingInv, PriceInv, PartyBacked, IsAuction
  <1>4. ASSUME NEW t \in Tokens, NEW m \in MaximumBids, RollOver(t, m) PROVE OutcomeInv'
    <2>1. /\ UNCHANGED <<now, expiry, totalContributions, place, partyTotal, kind>>
          /\ bidStatus = "Busy" /\ bidStatus' = "Active"
          /\ auctionId' = t
          /\ call'.op = "none"
          /\ price' = 0
      BY <1>4 DEF RollOver, PriceAfterRollOver, givenVars, NoCall, OutcomeInv, CallInv
    <2> QED
      BY <2>1 DEF OutcomeInv, Numbers, CallInv, BuyingInv, PriceInv, PartyBacked, IsAuction
  <1> QED
    BY <1>1, <1>2, <1>3, <1>4 DEF FinalizeEnd

\* The market and the other bidders move NFTs, but none that a party holds.
LEMMA MarketStep ==
  ASSUME OutcomeInv, UNCHANGED buying, NEW t \in Tokens,
         \/ \E amount \in OthersBids : OtherBids(t, amount)
         \/ AuctionOver(t) \/ MarketSettles(t) \/ Gift(t)
  PROVE  OutcomeInv'
  <1>1. /\ UNCHANGED <<now, expiry, totalContributions, price, partyTotal, kind, bidStatus,
                       auctionId, call>>
        /\ \/ place' = place
           \/ place[t] # "party" /\ \E where : place' = [place EXCEPT ![t] = where]
    BY DEF OtherBids, AuctionOver, MarketSettles, Gift, Others, givenVars, Settled
  <1>2. place = [u \in Tokens |-> place[u]]
    BY DEF OutcomeInv, Numbers
  <1>3. /\ place' = [u \in Tokens |-> place'[u]]
        /\ \A u \in Tokens : place[u] = "party" => place'[u] = "party"
    BY <1>1, <1>2
  <1> QED
    BY <1>1, <1>3 DEF OutcomeInv, Numbers, CallInv, BuyingInv, PriceInv, PartyBacked, IsAuction

\* A purchase wins for at most the contributions, or is undone as a whole.
LEMMA BuyingStep ==
  ASSUME OutcomeInv, ~IsAuction, BuyNext(kind = "batch"), UNCHANGED <<kind, auctionVars>>
  PROVE  OutcomeInv'
  <1>1. ASSUME NEW S, NEW min, BuyBegin(kind = "batch", S, min) PROVE OutcomeInv'
    <2>1. /\ UNCHANGED <<now, expiry, totalContributions, place, partyTotal>>
          /\ price' = MaxUint96 /\ MaxUint96 \in Nat \ {0}
          /\ buying' = [NotBuying EXCEPT !.under = TRUE, !.left = S, !.min = min,
                                         !.all = min >= Cardinality(S)]
      BY <1>1, BuyAssumption DEF BuyBegin, givenVars
    <2>2. buying'.under /\ buying'.bought = {} /\ buying'.spent = 0
      BY <2>1 DEF NotBuying
    <2>3. partyTotal = 0
      BY <1>1 DEF BuyBegin, BuyLifecycle, OutcomeInv, PriceInv, PartyBacked
    <2> QED
      BY <2>1, <2>2, <2>3
      DEF OutcomeInv, Numbers, CallInv, BuyingInv, PriceInv, PartyBacked, IsAuction, auctionVars
  <1>2. ASSUME NEW t \in Tokens, NEW amount \in Prices, BuyStep(kind = "batch", t, amount)
        PROVE  OutcomeInv'
    <2>1. /\ UNCHANGED <<now, expiry, totalContributions, price, partyTotal>>
          /\ place' = [place EXCEPT ![t] = "us"]
          /\ buying.under
          /\ amount \in Nat /\ buying.spent + amount <= totalContributions
          /\ buying' = [buying EXCEPT !.left = @ \ {t}, !.bought = @ \cup {t},
                                      !.spent = @ + amount]
      BY <1>2, BuyAssumption DEF BuyStep, givenVars, Spendable, OutcomeInv, BuyingInv
    <2>2. /\ buying'.under
          /\ buying'.bought = buying.bought \cup {t}
          /\ buying'.spent = buying.spent + amount
      BY <2>1
    <2> QED
      BY <2>1, <2>2
      DEF OutcomeInv, Numbers, CallInv, BuyingInv, PriceInv, PartyBacked, IsAuction, auctionVars
  <1>3. ASSUME NEW t \in Tokens, BuySkip(t) PROVE OutcomeInv'
    <2>1. /\ UNCHANGED <<now, expiry, totalContributions, price, place, partyTotal>>
          /\ buying.under
          /\ buying' = [buying EXCEPT !.left = @ \ {t}]
      BY <1>3 DEF BuySkip, givenVars, OutcomeInv, BuyingInv
    <2>2. /\ buying'.under
          /\ buying'.bought = buying.bought
          /\ buying'.spent = buying.spent
      BY <2>1
    <2> QED
      BY <2>1, <2>2
      DEF OutcomeInv, Numbers, CallInv, BuyingInv, PriceInv, PartyBacked, IsAuction, auctionVars
  <1>4. ASSUME NEW t \in Tokens, OwnerGives(t) PROVE OutcomeInv'
    <2>1. /\ UNCHANGED <<now, expiry, totalContributions, price, partyTotal, buying>>
          /\ place[t] # "party" /\ place' = [place EXCEPT ![t] = "us"]
      BY <1>4 DEF OwnerGives, givenVars
    <2>2. place = [u \in Tokens |-> place[u]]
      BY DEF OutcomeInv, Numbers
    <2>3. /\ place' = [u \in Tokens |-> place'[u]]
          /\ \A u \in Tokens : place[u] = "party" => place'[u] = "party"
      BY <2>1, <2>2
    <2> QED
      BY <2>1, <2>3
      DEF OutcomeInv, Numbers, CallInv, BuyingInv, PriceInv, PartyBacked, IsAuction, auctionVars
  <1>5. ASSUME BuyEnd PROVE OutcomeInv'
    <2>1. /\ UNCHANGED <<now, totalContributions>>
          /\ buying.under
          /\ ~buying'.under /\ buying'.left = {} /\ buying'.bought = {} /\ buying'.spent = 0
      BY <1>5 DEF BuyEnd, givenVars, NotBuying
    <2>2. CASE BuyWon
      <3>1. /\ price' = buying.spent /\ partyTotal' = buying.spent /\ buying.spent # 0
            /\ expiry' = expiry
            /\ place' = [t \in Tokens |-> IF t \in buying.bought THEN "party" ELSE place[t]]
        BY <2>2 DEF BuyWon, PartyCreated
      <3>2. PICK t \in Tokens : t \in buying.bought
        BY <3>1 DEF OutcomeInv, BuyingInv
      <3>3. /\ place'[t] = "party"
            /\ place' = [u \in Tokens |-> place'[u]]
        BY <3>1, <3>2
      <3> QED
        BY <2>1, <3>1, <3>3
        DEF OutcomeInv, Numbers, CallInv, BuyingInv, PriceInv, PartyBacked, IsAuction,
            auctionVars
    <2>3. CASE BuyFree
      <3>1. price' = 0 /\ expiry' = now /\ UNCHANGED <<partyTotal, place>>
        BY <2>3 DEF BuyFree
      <3> QED
        BY <2>1, <3>1
        DEF OutcomeInv, Numbers, CallInv, BuyingInv, PriceInv, PartyBacked, IsAuction,
            auctionVars
    <2> QED
      BY <1>5, <2>2, <2>3 DEF BuyEnd
  <1> QED
    BY <1>1, <1>2, <1>3, <1>4, <1>5 DEF BuyNext

\* Every step keeps the invariant.
LEMMA Step == OutcomeInv /\ [Next]_vars => OutcomeInv'
  <1> SUFFICES ASSUME OutcomeInv, [Next]_vars PROVE OutcomeInv'
    OBVIOUS
  <1>1. CASE (\E c \in Contributors : Member(c)) /\ UNCHANGED <<kind, auctionVars, buying>>
    BY <1>1, MemberStep
  <1>2. CASE /\ (\E amount \in Amounts : Surplus(amount)) \/ BaseTick
             /\ UNCHANGED <<kind, auctionVars, buying>>
    BY <1>2, OtherStep
  <1>3. CASE AuctionNext /\ UNCHANGED buying
    BY <1>3, BidStep, FinalizeStep, MarketStep DEF AuctionNext
  <1>4. CASE ~IsAuction /\ BuyNext(kind = "batch") /\ UNCHANGED <<kind, auctionVars>>
    BY <1>4, BuyingStep
  <1>5. CASE UNCHANGED vars
    <2>1. {now, expiry, totalContributions} \subseteq Nat
      BY DEF OutcomeInv, Numbers
    <2> QED
      BY <1>5, <2>1, Aside DEF vars, baseVars, givenVars
  <1> QED
    BY <1>1, <1>2, <1>3, <1>4, <1>5 DEF Next, Tick

\* What keeps the price, the contributions and the status keeps the outcome.
LEMMA Untouched ==
  ASSUME OutcomeInv, Lifecycle \in {"Won", "Lost"},
         UNCHANGED <<expiry, contributions, price, partyTotal, kind, bidStatus>>,
         now' \in {now, now + 1}
  PROVE  OutcomeStays
  BY DEF OutcomeStays, Lifecycle, AuctionLifecycle, BuyLifecycle, IsAuction, OutcomeInv, Numbers

\* What contributors do after the end changes none of the outcome.
LEMMA MemberStays ==
  ASSUME OutcomeInv, Lifecycle \in {"Won", "Lost"}, NEW c \in Contributors, Member(c),
         UNCHANGED <<kind, auctionVars, buying>>
  PROVE  OutcomeStays
  <1>1. ASSUME NEW own, NEW d, OnlyDelegates(own, c, d) PROVE OutcomeStays
    BY <1>1, Untouched DEF OnlyDelegates, givenVars, auctionVars
  <1>2. ASSUME NEW own, NEW d, NEW amount \in Amounts, NEW short,
               Contribute(Lifecycle, own, c, d, amount, short)
        PROVE  FALSE
    BY <1>2 DEF Contribute
  <1>3. ASSUME BurnAny(c) PROVE OutcomeStays
    <2>1. UNCHANGED <<now, expiry, contributions, price, partyTotal>>
      BY <1>3 DEF BurnAny, Burn
    <2> QED
      BY <2>1, Untouched DEF auctionVars
  <1>4. ASSUME Claim(c) PROVE OutcomeStays
    <2>1. UNCHANGED <<now, expiry, contributions, price, partyTotal>>
      BY <1>4 DEF Claim, givenVars
    <2> QED
      BY <2>1, Untouched DEF auctionVars
  <1> QED
    BY <1>1, <1>2, <1>3, <1>4 DEF Member

\* After the end there is no more bidding or finalizing.
LEMMA AuctionStays ==
  ASSUME OutcomeInv, Lifecycle \in {"Won", "Lost"}, AuctionNext, UNCHANGED buying
  PROVE  OutcomeStays
  <1>1. IsAuction => bidStatus = "Finalized"
    BY DEF Lifecycle, AuctionLifecycle
  <1>2. ASSUME IsAuction,
               (\E amount \in Bids : BidBegin(amount)) \/ BidEnd \/ FinalizeBegin \/ FinalizeEnd
        PROVE  FALSE
    <2>1. call.op = "none" \/ bidStatus = "Busy"
      BY DEF OutcomeInv, CallInv
    <2> QED
      BY <1>1, <1>2, <2>1
      DEF BidBegin, BidEnd, FinalizeBegin, FinalizeEnd, FinalizeWon, FinalizeLost, RollOver,
          AuctionLifecycle
  <1>3. ASSUME NEW t \in Tokens,
               \/ \E amount \in OthersBids : OtherBids(t, amount)
               \/ AuctionOver(t) \/ MarketSettles(t) \/ Gift(t)
        PROVE  OutcomeStays
    <2>1. UNCHANGED <<now, expiry, contributions, price, partyTotal, kind, bidStatus>>
      BY <1>3 DEF OtherBids, AuctionOver, MarketSettles, Gift, Others, givenVars
    <2> QED
      BY <2>1, Untouched
  <1> QED
    BY <1>2, <1>3 DEF AuctionNext

\* After the end there are no more purchases.
LEMMA BuyingStays ==
  ASSUME OutcomeInv, Lifecycle \in {"Won", "Lost"}, ~IsAuction, BuyNext(kind = "batch"),
         UNCHANGED <<kind, auctionVars>>
  PROVE  OutcomeStays
  <1>1. ~buying.under /\ buying.left = {}
    BY DEF OutcomeInv, BuyingInv, PriceInv, PartyBacked, Lifecycle, BuyLifecycle
  <1>2. ASSUME NEW S, NEW min, BuyBegin(kind = "batch", S, min) PROVE FALSE
    BY <1>2 DEF BuyBegin, Lifecycle
  <1>3. ASSUME NEW t \in Tokens, OwnerGives(t) PROVE OutcomeStays
    BY <1>3, Untouched DEF OwnerGives, givenVars, auctionVars
  <1> QED
    BY <1>1, <1>2, <1>3 DEF BuyNext, BuyStep, BuySkip, BuyEnd

\* No step changes the outcome of a crowdfund that has ended.
LEMMA StepStays == OutcomeInv /\ [Next]_vars => [OutcomeStays]_vars
  <1> SUFFICES ASSUME OutcomeInv, Next, Lifecycle \in {"Won", "Lost"} PROVE OutcomeStays
    BY DEF OutcomeStays
  <1>1. CASE (\E c \in Contributors : Member(c)) /\ UNCHANGED <<kind, auctionVars, buying>>
    BY <1>1, MemberStays
  <1>2. CASE /\ (\E amount \in Amounts : Surplus(amount)) \/ BaseTick
             /\ UNCHANGED <<kind, auctionVars, buying>>
    <2>1. /\ UNCHANGED <<expiry, contributions, price, partyTotal>>
          /\ now' \in {now, now + 1}
      BY <1>2 DEF Surplus, BaseTick, givenVars
    <2> QED
      BY <1>2, <2>1, Untouched DEF auctionVars
  <1>3. CASE AuctionNext /\ UNCHANGED buying
    BY <1>3, AuctionStays
  <1>4. CASE ~IsAuction /\ BuyNext(kind = "batch") /\ UNCHANGED <<kind, auctionVars>>
    BY <1>4, BuyingStays
  <1> QED
    BY <1>1, <1>2, <1>3, <1>4 DEF Next, Tick

\* Once a crowdfund is won or lost, that, the price and the contributions stay, so
\* nobody's refund or power depends on when the others burn.
THEOREM OutcomeIsFinal == Spec => FinalIsFinal
  BY Start, Step, StepStays, PTL DEF Spec, FinalIsFinal

----------------------------------------------------------------------------
(* Contributions of one contributor                                        *)

\* What the constants are.
LEMMA Constants ==
  /\ IsFiniteSet(Contributors)
  /\ Amounts \subseteq Nat \ {0} /\ SplitBps \in Nat /\ SplitBps <= Bps /\ Bps = 10000
  /\ Delegates \subseteq Contributors
<1>1. SplitBps \in {MinContribution, MaxContribution, SplitBps, Duration, MaxSurplus, MaxTime}
  OBVIOUS
<1>2. QED
  BY <1>1, CrowdfundAssumption DEF CrowdfundAssumption, Bps

End(e) == e.previous + e.amount

\* How much of the entry e a price of p uses.
Below(e, p) ==
  IF e.previous >= p THEN 0 ELSE IF End(e) <= p THEN e.amount ELSE p - e.previous

\* How much of all entries it uses.
Used(es, p) == SumFunctionOnSet([i \in 1 .. Len(es) |-> Below(es[i], p)], 1 .. Len(es))

\* The entries do not overlap, follow one another and end by t.
Sorted(es, t) ==
  \A i \in 1 .. Len(es) :
    /\ End(es[i]) <= t
    /\ \A j \in 1 .. i - 1 : End(es[j]) <= es[i].previous

\* An entry is of something.
LEMMA EntryIs ==
  ASSUME NEW e \in Entries
  PROVE  e.previous \in Nat /\ e.amount \in Nat /\ e.amount > 0
<1>1. e.previous \in Nat /\ e.amount \in Nat \ {0}
  BY DEF Entries
<1>2. PICK y : y = e.amount
  OBVIOUS
<1>3. y \in Nat /\ y # 0
  BY <1>1, <1>2
<1>4. y > 0
  BY <1>3
<1>5. QED
  BY <1>1, <1>2, <1>3, <1>4

\* A price uses some of an entry.
LEMMA BelowType ==
  ASSUME NEW e \in Entries, NEW p \in Nat
  PROVE  Below(e, p) \in 0 .. e.amount /\ e.amount \in Nat
BY DEF Entries, Below, End

\* The sums over entries are over the numbers up to their length, and of numbers.
LEMMA EntrySums ==
  ASSUME NEW es \in Seq(Entries), NEW p \in Nat
  PROVE  /\ Len(es) \in Nat /\ IsFiniteSet(1 .. Len(es))
         /\ Total(es) = SumFunctionOnSet([i \in 1 .. Len(es) |-> es[i].amount], 1 .. Len(es))
         /\ Total(es) \in Nat /\ Used(es, p) \in Nat /\ Used(es, p) <= Total(es)
<1> DEFINE n == Len(es)
           f == [i \in 1 .. n |-> Below(es[i], p)]
           g == [i \in 1 .. n |-> es[i].amount]
<1>1. DOMAIN es = 1 .. n /\ n \in Nat
  OBVIOUS
<1>2. IsFiniteSet(1 .. n)
  BY <1>1, FS_Interval
<1>3. Total(es) = SumFunctionOnSet(g, 1 .. n)
  <2>1. DOMAIN g = 1 .. n
    OBVIOUS
  <2>2. QED
    BY <1>1, <2>1, Zenon DEF Total, SumFunction
<1>4. \A i \in 1 .. n : es[i] \in Entries
  OBVIOUS
<1>5. \A i \in 1 .. n : f[i] \in Nat /\ g[i] \in Nat /\ f[i] <= g[i]
  <2>1. ASSUME NEW i \in 1 .. n PROVE f[i] \in Nat /\ g[i] \in Nat /\ f[i] <= g[i]
    <3>1. Below(es[i], p) \in 0 .. es[i].amount /\ es[i].amount \in Nat
      BY <1>4, BelowType
    <3>2. QED
      BY <3>1
  <2>2. QED
    BY <2>1
<1>6. /\ SumFunctionOnSet(f, 1 .. n) \in Nat /\ SumFunctionOnSet(g, 1 .. n) \in Nat
      /\ SumFunctionOnSet(f, 1 .. n) <= SumFunctionOnSet(g, 1 .. n)
  <2> HIDE DEF f, g
  <2>1. \A i \in 1 .. n : /\ f[i] \in Int /\ f[i] >= 0 /\ g[i] \in Int /\ g[i] >= 0
                          /\ f[i] <= g[i]
    BY <1>5
  <2>2. QED
    BY <1>2, <2>1, SumType, SumMonotone
<1>7. Used(es, p) = SumFunctionOnSet(f, 1 .. n)
  BY Zenon DEF Used
<1>8. QED
  BY <1>1, <1>2, <1>3, <1>6, <1>7, Zenon

\* One entry more adds its amount, and its part to what a price uses.
LEMMA OneMore ==
  ASSUME NEW es \in Seq(Entries), NEW e \in Entries, NEW p \in Nat
  PROVE  /\ Total(Append(es, e)) = Total(es) + e.amount
         /\ Used(Append(es, e), p) = Used(es, p) + Below(e, p)
<1> DEFINE n == Len(es)
           us == Append(es, e)
           f == [i \in 1 .. n |-> Below(es[i], p)]
           g == [i \in 1 .. n |-> es[i].amount]
           f1 == [i \in 1 .. n + 1 |-> Below(us[i], p)]
           g1 == [i \in 1 .. n + 1 |-> us[i].amount]
<1>1. n \in Nat /\ Len(us) = n + 1 /\ us \in Seq(Entries)
  OBVIOUS
<1>2. us[n + 1] = e /\ \A i \in 1 .. n : us[i] = es[i] /\ es[i] \in Entries
  OBVIOUS
<1>3. f1[n + 1] = Below(e, p) /\ g1[n + 1] = e.amount
  BY <1>1, <1>2
<1>4. \A i \in 1 .. n : f1[i] = f[i] /\ g1[i] = g[i]
  BY <1>1, <1>2
<1>5. \A i \in 1 .. n + 1 : us[i] \in Entries
  BY <1>1, <1>2
<1>6. \A i \in 1 .. n + 1 : f1[i] \in Int /\ g1[i] \in Int
  <2>1. ASSUME NEW i \in 1 .. n + 1 PROVE f1[i] \in Int /\ g1[i] \in Int
    <3>1. Below(us[i], p) \in 0 .. us[i].amount /\ us[i].amount \in Nat
      BY <1>5, BelowType
    <3>2. QED
      BY <3>1
  <2>2. QED
    BY <2>1
<1>7. Used(es, p) = SumFunctionOnSet(f, 1 .. n) /\ Total(es) = SumFunctionOnSet(g, 1 .. n)
  BY EntrySums, Zenon DEF Used
<1>8. /\ Used(us, p) = SumFunctionOnSet(f1, 1 .. n + 1)
      /\ Total(us) = SumFunctionOnSet(g1, 1 .. n + 1)
  <2>1. PICK k : k = Len(us)
    OBVIOUS
  <2>2. /\ Used(us, p) = SumFunctionOnSet([i \in 1 .. k |-> Below(us[i], p)], 1 .. k)
        /\ Total(us) = SumFunctionOnSet([i \in 1 .. k |-> us[i].amount], 1 .. k)
    BY <1>1, <2>1, EntrySums, Zenon DEF Used
  <2>3. k = n + 1
    BY <1>1, <2>1
  <2>4. QED
    BY <2>2, <2>3, Zenon
<1>9. /\ SumFunctionOnSet(f1, 1 .. n + 1) = SumFunctionOnSet(f, 1 .. n) + f1[n + 1]
      /\ SumFunctionOnSet(g1, 1 .. n + 1) = SumFunctionOnSet(g, 1 .. n) + g1[n + 1]
  <2> HIDE DEF f, g, f1, g1, n
  <2>1. Continues(f, f1, n) /\ Continues(g, g1, n)
    BY <1>1, <1>4, <1>6 DEF Continues
  <2>2. QED
    BY <2>1, SumContinued
<1>10. QED
  BY <1>3, <1>7, <1>8, <1>9, Zenon

\* The sequence without its last entry, and that entry.
LEMMA LastOut ==
  ASSUME NEW es \in Seq(Entries), es # <<>>
  PROVE  /\ Front(es) \in Seq(Entries) /\ Last(es) \in Entries
         /\ es = Append(Front(es), Last(es))
         /\ Len(es) \in Nat \ {0} /\ Len(Front(es)) = Len(es) - 1
         /\ Last(es) = es[Len(es)]
         /\ \A i \in 1 .. Len(es) - 1 : Front(es)[i] = es[i]
<1>1. PICK n \in Nat \ {0} : n = Len(es)
  BY EmptySeq
<1>2. PICK k : k = n - 1 /\ k \in Nat
  BY <1>1
<1>3. Front(es) = SubSeq(es, 1, k)
  BY <1>1, <1>2 DEF Front
<1>4. /\ Front(es) \in Seq(Entries) /\ Len(Front(es)) = k
      /\ \A i \in 1 .. k : Front(es)[i] = es[i]
  <2>1. \A i \in 1 .. k : es[i] \in Entries
    BY <1>1, <1>2
  <2>2. QED
    BY <1>1, <1>2, <1>3, <2>1, SubSeqProperties
<1>5. Last(es) = es[n] /\ es[n] \in Entries
  BY <1>1 DEF Last
<1>6. PICK a \in Seq(Entries), e \in Entries : a = Front(es) /\ e = Last(es)
  BY <1>4, <1>5
<1>7. es = Append(a, e)
  <2>1. Append(a, e) \in Seq(Entries) /\ Len(Append(a, e)) = n
    BY <1>1, <1>2, <1>4, <1>6
  <2>2. \A i \in 1 .. n : Append(a, e)[i] = es[i]
    BY <1>1, <1>2, <1>4, <1>5, <1>6
  <2>3. QED
    BY <1>1, <2>1, <2>2, SeqEqual
<1>8. QED
  BY <1>1, <1>2, <1>4, <1>5, <1>6, <1>7, Zenon

\* Sorted entries use up any price beyond their end.
LEMMA BeyondTheEnd ==
  ASSUME NEW es \in Seq(Entries), NEW t \in Nat, Sorted(es, t), NEW p \in Nat, p >= t
  PROVE  Used(es, p) = Total(es)
<1> DEFINE n == Len(es)
           f == [i \in 1 .. n |-> Below(es[i], p)]
           g == [i \in 1 .. n |-> es[i].amount]
<1>1. /\ IsFiniteSet(1 .. n)
      /\ Used(es, p) = SumFunctionOnSet(f, 1 .. n) /\ Total(es) = SumFunctionOnSet(g, 1 .. n)
  BY EntrySums, Zenon DEF Used
<1>2. \A i \in 1 .. n : f[i] = g[i]
  <2>1. ASSUME NEW i \in 1 .. n PROVE f[i] = g[i]
    <3>1. es[i] \in Entries /\ End(es[i]) <= t
      BY DEF Sorted
    <3>2. Below(es[i], p) = es[i].amount
      BY <3>1 DEF Below, End, Entries
    <3>3. QED
      BY <3>2
  <2>2. QED
    BY <2>1
<1>3. SumFunctionOnSet(f, 1 .. n) = SumFunctionOnSet(g, 1 .. n)
  <2> HIDE DEF f, g
  <2>1. QED
    BY <1>1, <1>2, SumSame
<1>4. QED
  BY <1>1, <1>3, Zenon

\* Entered gives the entries of the contributor amount more at the end t of all.
Grows(new, es, t, amount) ==
  /\ new \in Seq(Entries) /\ new # <<>>
  /\ Sorted(new, t + amount)
  /\ Total(new) = Total(es) + amount
  /\ \A p \in 0 .. t : Used(new, p) = Used(es, p)
  /\ \A p \in t .. t + amount : Used(new, p) = Used(es, t) + (p - t)

\* An entry of its own, when others contributed in between.
LEMMA EntryAdded ==
  ASSUME NEW es \in Seq(Entries), NEW t \in Nat, Sorted(es, t), NEW amount \in Nat \ {0},
         NEW e \in Entries, e.previous = t, e.amount = amount
  PROVE  Grows(Append(es, e), es, t, amount)
<1> DEFINE new == Append(es, e)
<1>1. new \in Seq(Entries) /\ new # <<>> /\ Len(new) = Len(es) + 1
  <2>1. new \in Seq(Entries) /\ Len(new) = Len(es) + 1 /\ Len(es) \in Nat
    OBVIOUS
  <2>2. QED
    BY <2>1, EmptySeq
<1>2. Len(es) \in Nat /\ new[Len(es) + 1] = e /\ \A i \in 1 .. Len(es) : new[i] = es[i]
  OBVIOUS
<1>3. Sorted(new, t + amount)
  <2>1. ASSUME NEW i \in 1 .. Len(new)
        PROVE  /\ End(new[i]) <= t + amount
               /\ \A j \in 1 .. i - 1 : End(new[j]) <= new[i].previous
    <3>1. CASE i \in 1 .. Len(es)
      <4>1. End(es[i]) <= t /\ End(es[i]) \in Nat
        <5>1. es[i] \in Entries
          BY <3>1
        <5>2. QED
          BY <3>1, <5>1 DEF Sorted, End, Entries
      <4>2. \A j \in 1 .. i - 1 : new[j] = es[j]
        BY <1>2, <3>1
      <4>3. QED
        BY <1>2, <3>1, <4>1, <4>2 DEF Sorted
    <3>2. CASE i = Len(es) + 1
      <4>1. \A j \in 1 .. i - 1 : End(new[j]) <= t
        BY <1>2, <3>2 DEF Sorted
      <4>2. End(e) = t + amount
        BY DEF End
      <4>3. QED
        BY <1>2, <3>2, <4>1, <4>2
    <3>3. QED
      BY <1>1, <1>2, <3>1, <3>2
  <2>2. QED
    BY <2>1 DEF Sorted
<1>4. Total(new) = Total(es) + amount
  BY OneMore
<1>5. ASSUME NEW p \in 0 .. t PROVE Used(new, p) = Used(es, p)
  <2>1. Below(e, p) = 0 /\ p \in Nat
    BY DEF Below
  <2>2. Used(new, p) = Used(es, p) + Below(e, p) /\ Used(es, p) \in Nat
    BY <2>1, OneMore, EntrySums
  <2>3. QED
    BY <2>1, <2>2
<1>6. ASSUME NEW p \in t .. t + amount PROVE Used(new, p) = Used(es, t) + (p - t)
  <2>1. Below(e, p) = p - t /\ p \in Nat
    BY DEF Below, End
  <2>2. Used(new, p) = Used(es, p) + Below(e, p)
    BY <2>1, OneMore
  <2>3. Used(es, p) = Total(es) /\ Used(es, t) = Total(es)
    BY <2>1, BeyondTheEnd
  <2>4. QED
    BY <2>1, <2>2, <2>3
<1>7. QED
  BY <1>1, <1>3, <1>4, <1>5, <1>6 DEF Grows

\* The last entry grows, when nobody contributed in between.
LEMMA EntryGrown ==
  ASSUME NEW es \in Seq(Entries), NEW t \in Nat, Sorted(es, t), NEW amount \in Nat \ {0},
         es # <<>>, End(Last(es)) = t
  PROVE  Grows(Append(Front(es), [Last(es) EXCEPT !.amount = @ + amount]), es, t, amount)
<1>1. PICK front \in Seq(Entries), last \in Entries :
        /\ front = Front(es) /\ last = Last(es)
        /\ es = Append(front, last) /\ Len(es) = Len(front) + 1 /\ Len(front) \in Nat
        /\ last = es[Len(es)] /\ \A i \in 1 .. Len(front) : front[i] = es[i]
  <2>1. PICK front \in Seq(Entries), last \in Entries : front = Front(es) /\ last = Last(es)
    BY LastOut
  <2>2. /\ es = Append(front, last)
        /\ Len(es) \in Nat \ {0} /\ Len(front) = Len(es) - 1
        /\ last = es[Len(es)]
        /\ \A i \in 1 .. Len(es) - 1 : front[i] = es[i]
    BY <2>1, LastOut
  <2>3. QED
    BY <2>1, <2>2
<1>2. PICK e : e = [last EXCEPT !.amount = @ + amount]
  OBVIOUS
<1>3. PICK a \in Nat, b \in Nat \ {0} :
        /\ last.previous = a /\ last.amount = b /\ a + b = t
        /\ e \in Entries /\ e.previous = a /\ e.amount = b + amount
  <2>1. PICK a \in Nat, b \in Nat \ {0} :
          last.previous = a /\ last.amount = b /\ last = [previous |-> a, amount |-> b]
    BY DEF Entries
  <2>2. a + b = t
    BY <1>1, <2>1 DEF End
  <2>3. PICK k \in Nat \ {0} : k = b + amount
    BY <2>1
  <2>4. e = [previous |-> a, amount |-> k]
    BY <1>2, <2>1, <2>3
  <2>5. e \in Entries /\ e.previous = a /\ e.amount = k
    BY <2>1, <2>4 DEF Entries
  <2>6. QED
    BY <2>1, <2>2, <2>3, <2>5
<1>4. PICK new : new = Append(front, e)
  OBVIOUS
<1>5. new \in Seq(Entries) /\ new # <<>> /\ Len(new) = Len(front) + 1
  BY <1>3, <1>4
<1>6. new[Len(front) + 1] = e /\ \A i \in 1 .. Len(front) : new[i] = es[i]
  BY <1>1, <1>3, <1>4
<1>7. Sorted(new, t + amount)
  <2>1. ASSUME NEW i \in 1 .. Len(new)
        PROVE  /\ End(new[i]) <= t + amount
               /\ \A j \in 1 .. i - 1 : End(new[j]) <= new[i].previous
    <3>1. CASE i \in 1 .. Len(front)
      <4>1. End(es[i]) <= t /\ End(es[i]) \in Nat
        <5>1. i \in 1 .. Len(es)
          BY <1>1, <3>1
        <5>2. es[i] \in Entries
          BY <5>1
        <5>3. QED
          BY <5>1, <5>2 DEF Sorted, End, Entries
      <4>2. \A j \in 1 .. i - 1 : new[j] = es[j]
        BY <1>1, <1>6, <3>1
      <4>3. QED
        BY <1>1, <1>6, <3>1, <4>1, <4>2, SMTT(30) DEF Sorted
    <3>2. CASE i = Len(front) + 1
      <4>1. \A j \in 1 .. i - 1 : End(new[j]) <= a
        <5>1. \A j \in 1 .. Len(es) - 1 : End(es[j]) <= es[Len(es)].previous
          BY <1>1 DEF Sorted
        <5>2. es[Len(es)].previous = a /\ i - 1 = Len(es) - 1 /\ i - 1 = Len(front)
          BY <1>1, <1>3, <3>2
        <5>3. QED
          BY <1>6, <5>1, <5>2
      <4>2. End(e) = t + amount
        BY <1>3 DEF End
      <4>3. QED
        BY <1>3, <1>6, <3>2, <4>1, <4>2
    <3>3. QED
      BY <1>1, <1>5, <3>1, <3>2
  <2>2. QED
    BY <2>1 DEF Sorted
<1>8. Total(new) = Total(es) + amount
  <2>1. Total(new) = Total(front) + (b + amount) /\ Total(es) = Total(front) + b
    <3>1. ASSUME NEW d \in Entries PROVE Total(Append(front, d)) = Total(front) + d.amount
      <4>1. 0 \in Nat
        OBVIOUS
      <4>2. QED
        BY <4>1, OneMore
    <3>2. Total(new) = Total(front) + e.amount /\ Total(es) = Total(front) + last.amount
      BY <1>1, <1>3, <1>4, <3>1
    <3>3. QED
      BY <1>3, <3>2
  <2>2. Total(front) \in Nat
    BY EntrySums
  <2>3. QED
    BY <1>3, <2>1, <2>2
<1>9. \A p \in Nat : /\ Used(new, p) = Used(front, p) + Below(e, p)
                     /\ Used(es, p) = Used(front, p) + Below(last, p)
                     /\ Used(front, p) \in Nat
  <2>1. ASSUME NEW p \in Nat
        PROVE  /\ Used(new, p) = Used(front, p) + Below(e, p)
               /\ Used(es, p) = Used(front, p) + Below(last, p)
               /\ Used(front, p) \in Nat
    <3>1. Used(new, p) = Used(front, p) + Below(e, p)
      BY <1>3, <1>4, OneMore
    <3>2. Used(es, p) = Used(front, p) + Below(last, p)
      BY <1>1, OneMore
    <3>3. QED
      BY <3>1, <3>2, EntrySums
  <2>2. QED
    BY <2>1
<1>10. ASSUME NEW p \in 0 .. t PROVE Used(new, p) = Used(es, p)
  <2>1. Below(e, p) = Below(last, p)
    BY <1>3 DEF Below, End
  <2>2. QED
    BY <1>9, <2>1
<1>11. ASSUME NEW p \in t .. t + amount PROVE Used(new, p) = Used(es, t) + (p - t)
  <2>0. p \in Nat /\ t <= p /\ p <= t + amount
    OBVIOUS
  <2>1. Below(e, p) = p - a /\ p \in Nat /\ Below(last, t) = b
    <3>1. End(e) = t + amount /\ End(last) = t /\ a < t
      BY <1>3 DEF End
    <3>2. QED
      BY <1>3, <2>0, <3>1 DEF Below
  <2>2. Used(front, p) = Total(front) /\ Used(front, t) = Total(front)
    <3>1. Sorted(front, t)
      BY <1>1 DEF Sorted
    <3>2. QED
      BY <2>1, <3>1, BeyondTheEnd
  <2>3. PICK u \in Nat : u = Total(front)
    BY EntrySums
  <2>4. Used(new, p) = u + (p - a) /\ Used(es, t) = u + b
    BY <1>9, <2>1, <2>2, <2>3
  <2>5. u + (p - a) = (u + b) + (p - t)
    <3>1. b \in Nat /\ t = a + b
      BY <1>3
    <3>2. p - t = (p - a) - b
      BY <2>0, <3>1
    <3>3. QED
      BY <2>0, <3>1, <3>2
  <2>6. QED
    BY <2>4, <2>5
<1>12. Grows(new, es, t, amount)
  BY <1>5, <1>7, <1>8, <1>10, <1>11 DEF Grows
<1>13. QED
  BY <1>1, <1>2, <1>4, <1>12, Zenon

\* Either way the contributor's entries grow by amount.
LEMMA EnteredGrows ==
  ASSUME NEW es \in Seq(Entries), totalContributions \in Nat, Sorted(es, totalContributions),
         NEW amount \in Nat \ {0}
  PROVE  Grows(Entered(es, amount), es, totalContributions, amount)
<1>1. CASE es # <<>> /\ Last(es).previous + Last(es).amount = totalContributions
  <2>1. End(Last(es)) = totalContributions
    BY <1>1 DEF End
  <2>2. Entered(es, amount) = Append(Front(es), [Last(es) EXCEPT !.amount = @ + amount])
    BY <1>1, Zenon DEF Entered
  <2>3. QED
    BY <1>1, <2>1, <2>2, EntryGrown
<1>2. CASE ~(es # <<>> /\ Last(es).previous + Last(es).amount = totalContributions)
  <2>1. PICK e : e = [previous |-> totalContributions, amount |-> amount]
    OBVIOUS
  <2>2. e \in Entries /\ e.previous = totalContributions /\ e.amount = amount
    BY <2>1 DEF Entries
  <2>3. Entered(es, amount) = Append(es, e)
    BY <1>2, <2>1, Zenon DEF Entered
  <2>4. QED
    BY <2>2, <2>3, EntryAdded
<1>3. QED
  BY <1>1, <1>2

----------------------------------------------------------------------------
(* Contributions of all                                                    *)

\* How much of the contributions in all the price p uses.
UsedByAll(all, p) == SumFunctionOnSet([c \in Contributors |-> Used(all[c], p)], Contributors)

\* The contributions lie end to end, so a price uses exactly itself of them.
Tiled ==
  /\ contributions \in [Contributors -> Seq(Entries)]
  /\ totalContributions \in Nat
  /\ \A c \in Contributors : Sorted(contributions[c], totalContributions)
  /\ \A p \in 0 .. totalContributions : UsedByAll(contributions, p) = p

\* One more contribution continues where all so far end.
LEMMA TiledOn ==
  ASSUME Tiled, NEW c \in Contributors, NEW amount \in Nat \ {0},
         contributions' = [contributions EXCEPT ![c] = Entered(@, amount)],
         totalContributions' = totalContributions + amount
  PROVE  Tiled' /\ Grows(contributions'[c], contributions[c], totalContributions, amount)
<1>1. PICK t \in Nat : t = totalContributions
  BY DEF Tiled
<1>2. PICK old : old = contributions
  OBVIOUS
<1>3. old \in [Contributors -> Seq(Entries)] /\ \A b \in Contributors : Sorted(old[b], t)
  BY <1>1, <1>2 DEF Tiled
<1>4. PICK es \in Seq(Entries) : es = old[c]
  BY <1>3
<1>5. PICK new : new = Entered(es, amount)
  OBVIOUS
<1>6. Grows(new, es, t, amount)
  BY <1>1, <1>3, <1>4, <1>5, EnteredGrows
<1>7. PICK all : all = contributions'
  OBVIOUS
<1>8. all = [old EXCEPT ![c] = new]
  BY <1>2, <1>4, <1>5, <1>7
<1>9. /\ new \in Seq(Entries) /\ Sorted(new, t + amount)
      /\ \A p \in 0 .. t : Used(new, p) = Used(es, p)
      /\ \A p \in t .. t + amount : Used(new, p) = Used(es, t) + (p - t)
  BY <1>6 DEF Grows
<1>10. /\ all \in [Contributors -> Seq(Entries)]
       /\ all[c] = new /\ \A b \in Contributors \ {c} : all[b] = old[b]
  BY <1>3, <1>8, <1>9
<1>11. totalContributions' \in Nat /\ totalContributions' = t + amount
  BY <1>1
<1>12. \A b \in Contributors : Sorted(all[b], t + amount)
  <2>1. ASSUME NEW b \in Contributors \ {c} PROVE Sorted(old[b], t + amount)
    <3>1. \A i \in 1 .. Len(old[b]) : End(old[b][i]) \in Nat
      <4>1. ASSUME NEW i \in 1 .. Len(old[b]) PROVE End(old[b][i]) \in Nat
        <5>1. old[b][i] \in Entries
          BY <1>3
        <5>2. QED
          BY <5>1 DEF End, Entries
      <4>2. QED
        BY <4>1
    <3>2. QED
      BY <1>3, <3>1 DEF Sorted
  <2>2. QED
    BY <1>9, <1>10, <2>1
<1>13. ASSUME NEW p \in 0 .. t + amount PROVE UsedByAll(all, p) = p
  <2> DEFINE f(q) == [b \in Contributors |-> Used(old[b], q)]
             g == [b \in Contributors |-> Used(all[b], p)]
  <2>1. p \in Nat
    OBVIOUS
  <2>2. \A q \in Nat : \A b \in Contributors : f(q)[b] \in Nat
    BY <1>3, EntrySums
  <2>3. \A b \in Contributors : g[b] \in Nat
    BY <1>10, <2>1, EntrySums
  <2>4. UsedByAll(all, p) = SumFunctionOnSet(g, Contributors)
    BY Zenon DEF UsedByAll
  <2>5. \A q \in 0 .. t : SumFunctionOnSet(f(q), Contributors) = q
    BY <1>1, <1>2 DEF Tiled, UsedByAll
  <2>6. PICK q : q = IF p <= t THEN p ELSE t
    OBVIOUS
  <2>7. q \in 0 .. t /\ q \in Nat
    BY <2>1, <2>6
  <2>8. \A b \in Contributors \ {c} : f(q)[b] = g[b]
    <3>1. ASSUME NEW b \in Contributors \ {c} PROVE Used(old[b], q) = Used(old[b], p)
      <4>1. CASE p <= t
        BY <2>6, <4>1
      <4>2. CASE ~(p <= t)
        <5>1. q = t /\ p >= t
          BY <2>1, <2>6, <4>2
        <5>2. old[b] \in Seq(Entries) /\ Sorted(old[b], t)
          BY <1>3
        <5>3. Used(old[b], p) = Total(old[b]) /\ Used(old[b], t) = Total(old[b])
          BY <2>1, <5>1, <5>2, BeyondTheEnd
        <5>4. QED
          BY <5>1, <5>3
      <4>3. QED
        BY <4>1, <4>2
    <3>2. QED
      BY <1>10, <3>1
  <2>9. f(q)[c] = Used(es, q) /\ g[c] = Used(new, p)
    BY <1>4, <1>10
  <2>10. g[c] = f(q)[c] + (p - q)
    <3>1. CASE p <= t
      <4>1. q = p /\ p \in 0 .. t
        BY <2>1, <2>6, <3>1
      <4>2. Used(new, p) = Used(es, p)
        BY <1>9, <4>1
      <4>3. f(q)[c] \in Nat
        BY <2>2, <2>7
      <4>4. QED
        BY <2>1, <2>9, <4>1, <4>2, <4>3
    <3>2. CASE ~(p <= t)
      <4>1. q = t /\ p \in t .. t + amount
        BY <2>1, <2>6, <3>2
      <4>2. Used(new, p) = Used(es, t) + (p - t)
        BY <1>9, <4>1
      <4>3. QED
        BY <2>9, <4>1, <4>2
    <3>3. QED
      BY <3>1, <3>2
  <2>11. PICK h : h = f(q)
    OBVIOUS
  <2>12. /\ \A b \in Contributors : h[b] \in Int /\ g[b] \in Int
         /\ \A b \in Contributors \ {c} : h[b] = g[b]
         /\ g[c] = h[c] + (p - q)
         /\ SumFunctionOnSet(h, Contributors) = q
    <3>1. \A b \in Contributors : h[b] \in Int /\ g[b] \in Int
      BY <2>2, <2>3, <2>7, <2>11
    <3>2. \A b \in Contributors \ {c} : h[b] = g[b]
      BY <2>8, <2>11, Zenon
    <3>3. g[c] = h[c] + (p - q)
      BY <2>10, <2>11, Zenon
    <3>4. SumFunctionOnSet(h, Contributors) = q
      BY <2>5, <2>7, <2>11, Zenon
    <3>5. QED
      BY <3>1, <3>2, <3>3, <3>4
  <2> HIDE DEF g, f
  <2>13. SumFunctionOnSet(g, Contributors) = SumFunctionOnSet(h, Contributors) + g[c] - h[c]
    BY <2>12, SumChange, Constants
  <2>14. QED
    BY <2>1, <2>4, <2>7, <2>12, <2>13
<1>14. Tiled'
  BY <1>7, <1>10, <1>11, <1>12, <1>13 DEF Tiled
<1>15. QED
  BY <1>1, <1>2, <1>4, <1>6, <1>7, <1>10, <1>14, Zenon

\* Nobody has contributed to a crowdfund that was just created.
LEMMA TiledAtStart == Init => Tiled
<1> SUFFICES ASSUME Init PROVE Tiled
  OBVIOUS
<1>1. contributions = [c \in Contributors |-> <<>>] /\ totalContributions = 0
  BY DEF Init, BaseInit
<1>2. <<>> \in Seq(Entries) /\ Len(<<>>) = 0
  OBVIOUS
<1>3. \A c \in Contributors : contributions[c] = <<>>
  BY <1>1
<1>4. contributions \in [Contributors -> Seq(Entries)]
  BY <1>1, <1>2
<1>5. \A c \in Contributors : Sorted(contributions[c], totalContributions)
  <2>1. ASSUME NEW c \in Contributors PROVE Sorted(contributions[c], totalContributions)
    <3>1. Len(contributions[c]) = 0
      BY <1>2, <1>3
    <3>2. QED
      BY <3>1 DEF Sorted
  <2>2. QED
    BY <2>1
<1>6. ASSUME NEW p \in 0 .. totalContributions PROVE UsedByAll(contributions, p) = p
  <2> DEFINE f == [c \in Contributors |-> Used(contributions[c], p)]
  <2>1. p = 0
    BY <1>1
  <2>2. Used(<<>>, p) = 0
    <3>1. Used(<<>>, p) = SumFunctionOnSet([i \in 1 .. 0 |-> Below(<<>>[i], p)], 1 .. 0)
      BY <1>2, Zenon DEF Used
    <3>2. 1 .. 0 = {}
      OBVIOUS
    <3>3. QED
      BY <3>1, <3>2, SumEmpty
  <2>3. \A c \in Contributors : f[c] = 0
    BY <1>3, <2>2
  <2>4. UsedByAll(contributions, p) = SumFunctionOnSet(f, Contributors)
    BY Zenon DEF UsedByAll
  <2> HIDE DEF f
  <2>5. SumFunctionOnSet(f, Contributors) = 0
    BY <2>3, SumOfZeros, Constants
  <2>6. QED
    BY <2>1, <2>4, <2>5
<1>7. totalContributions \in Nat
  BY <1>1
<1>8. QED
  BY <1>4, <1>5, <1>6, <1>7 DEF Tiled

\* Contributions to an open crowdfund are all that changes the contributions.
Contributes(c, amount) ==
  \E own \in BOOLEAN, d \in Delegates, short \in ShortBatches :
    Contribute(Lifecycle, own, c, d, amount, short)

\* No other action touches them.
LEMMA ContributionsStay ==
  ASSUME [Next]_vars
  PROVE  \/ UNCHANGED <<contributions, totalContributions>>
         \/ \E c \in Contributors, amount \in Amounts :
              Contributes(c, amount) /\ UNCHANGED <<kind, auctionVars, buying>>
<1>1. ASSUME NEW c \in Contributors, Member(c), UNCHANGED <<kind, auctionVars, buying>>
      PROVE  \/ UNCHANGED <<contributions, totalContributions>>
             \/ \E amount \in Amounts : Contributes(c, amount)
  <2>1. CASE BurnAny(c)
    BY <2>1 DEF BurnAny, Burn
  <2>2. CASE Claim(c)
    BY <2>2 DEF Claim, givenVars
  <2>3. CASE \E own \in BOOLEAN, d \in Delegates :
               \/ OnlyDelegates(own, c, d)
               \/ \E amount \in Amounts, short \in ShortBatches :
                    Contribute(Lifecycle, own, c, d, amount, short)
    BY <2>3 DEF Contributes, OnlyDelegates, givenVars
  <2>4. QED
    BY <1>1, <2>1, <2>2, <2>3 DEF Member
<1>2. ASSUME (\E amount \in Amounts : Surplus(amount)) \/ BaseTick
      PROVE  UNCHANGED <<contributions, totalContributions>>
  BY <1>2 DEF Surplus, BaseTick, givenVars
<1>3. ASSUME AuctionNext PROVE UNCHANGED <<contributions, totalContributions>>
  BY <1>3
  DEF AuctionNext, BidBegin, BidEnd, FinalizeBegin, FinalizeEnd, FinalizeWon, FinalizeLost,
      RollOver, OtherBids, AuctionOver, MarketSettles, Gift, Others, givenVars, baseVars
<1>4. ASSUME BuyNext(kind = "batch") PROVE UNCHANGED <<contributions, totalContributions>>
  BY <1>4
  DEF BuyNext, BuyBegin, BuyStep, BuySkip, BuyEnd, OwnerGives, givenVars
<1>5. ASSUME UNCHANGED vars PROVE UNCHANGED <<contributions, totalContributions>>
  BY <1>5 DEF vars, baseVars, givenVars
<1>6. QED
  BY <1>1, <1>2, <1>3, <1>4, <1>5 DEF Next, Tick

\* Whatever happens, the contributions lie end to end.
LEMMA TiledStep == Tiled /\ [Next]_vars => Tiled'
<1> SUFFICES ASSUME Tiled, [Next]_vars PROVE Tiled'
  OBVIOUS
<1>1. CASE UNCHANGED <<contributions, totalContributions>>
  <2>1. /\ contributions \in [Contributors -> Seq(Entries)]
        /\ totalContributions \in Nat
        /\ \A c \in Contributors : Sorted(contributions[c], totalContributions)
        /\ \A p \in 0 .. totalContributions : UsedByAll(contributions, p) = p
    BY DEF Tiled
  <2>2. QED
    BY <1>1, <2>1, Zenon DEF Tiled
<1>2. ASSUME NEW c \in Contributors, NEW amount \in Amounts, Contributes(c, amount)
      PROVE  Tiled'
  <2>1. /\ contributions' = [contributions EXCEPT ![c] = Entered(@, amount)]
        /\ totalContributions' = totalContributions + amount
    BY <1>2 DEF Contributes, Contribute
  <2>2. amount \in Nat \ {0}
    BY Constants
  <2>3. QED
    BY <2>1, <2>2, TiledOn
<1>3. QED
  BY <1>1, <1>2, ContributionsStay

----------------------------------------------------------------------------
(* What a price uses of a contribution                                     *)

\* One round of the loop of _getFinalContribution, and the loop.
Round(g, es, n) == IF n = 0 THEN [used |-> 0, owed |-> 0] ELSE Accounted(g[n - 1], es[n])

Rounds(es) == CHOOSE g : g = [n \in 0 .. Len(es) |-> Round(g, es, n)]

\* What the final contribution is made of.
LEMMA FinalIsLoop ==
  ASSUME NEW c
  PROVE  FinalContribution(c) = Rounds(contributions[c])[Len(contributions[c])]
BY DEF FinalContribution, Rounds, Round

\* What the price uses of the first n entries, and what is left of them.
After(es, n) ==
  LET used == SumFunctionOnSet([i \in 1 .. Len(es) |-> Below(es[i], price)], 1 .. n)
      all == SumFunctionOnSet([i \in 1 .. Len(es) |-> es[i].amount], 1 .. n)
  IN [used |-> used, owed |-> all - used]

\* A round of the loop goes from the first n - 1 entries to the first n.
LEMMA RoundIs ==
  ASSUME NEW es \in Seq(Entries), NEW t \in Nat, Sorted(es, t), price \in Nat,
         NEW n \in 1 .. Len(es)
  PROVE  After(es, n) = Accounted(After(es, n - 1), es[n])
<1> DEFINE f == [i \in 1 .. Len(es) |-> Below(es[i], price)]
           g == [i \in 1 .. Len(es) |-> es[i].amount]
<1>1. \A i \in 1 .. Len(es) : es[i] \in Entries
  OBVIOUS
<1>2. \A i \in 1 .. Len(es) : f[i] \in Nat /\ g[i] \in Nat
  <2>1. ASSUME NEW i \in 1 .. Len(es) PROVE f[i] \in Nat /\ g[i] \in Nat
    <3>1. Below(es[i], price) \in 0 .. es[i].amount /\ es[i].amount \in Nat
      BY <1>1, BelowType
    <3>2. QED
      BY <3>1
  <2>2. QED
    BY <2>1
<1>3. PICK prev \in Nat, amount \in Nat :
        prev = es[n].previous /\ amount = es[n].amount /\ amount > 0
  BY <1>1, EntryIs
<1>4. f[n] = Below(es[n], price) /\ g[n] = amount
  BY <1>3
<1>5. \A i \in 1 .. n - 1 : price >= prev => f[i] = g[i]
  <2>1. ASSUME NEW i \in 1 .. n - 1, price >= prev PROVE f[i] = g[i]
    <3>1. i \in 1 .. Len(es) /\ es[i] \in Entries
      BY <1>1
    <3>2. End(es[i]) <= prev
      BY <1>3 DEF Sorted
    <3>3. PICK x \in Nat, y \in Nat : x = es[i].previous /\ y = es[i].amount /\ y > 0
      BY <3>1, EntryIs
    <3>4. ~(x >= price) /\ x + y <= price
      <4>1. x + y <= prev /\ y > 0
        BY <3>2, <3>3 DEF End
      <4>2. QED
        BY <2>1, <4>1
    <3>5. Below(es[i], price) = es[i].amount
      BY <3>3, <3>4 DEF Below, End
    <3>6. QED
      BY <3>1, <3>5
  <2>2. QED
    BY <2>1
<1>6. PICK u, a : /\ u = SumFunctionOnSet(f, 1 .. n - 1) /\ a = SumFunctionOnSet(g, 1 .. n - 1)
                  /\ After(es, n - 1) = [used |-> u, owed |-> a - u]
  BY Zenon DEF After
<1>7. PICK v, b : /\ v = SumFunctionOnSet(f, 1 .. n) /\ b = SumFunctionOnSet(g, 1 .. n)
                  /\ After(es, n) = [used |-> v, owed |-> b - v]
  BY Zenon DEF After
<1> HIDE DEF f, g
<1>8. /\ u \in Nat /\ a \in Nat
      /\ v = f[n] + u /\ b = g[n] + a
      /\ price >= prev => u = a
  <2>1. /\ IsFiniteSet(1 .. n) /\ IsFiniteSet(1 .. n - 1)
        /\ n \in 1 .. n /\ (1 .. n) \ {n} = 1 .. n - 1
        /\ 1 .. n \subseteq 1 .. Len(es) /\ 1 .. n - 1 \subseteq 1 .. Len(es)
    <3>1. n \in Nat /\ n - 1 \in Nat
      OBVIOUS
    <3>2. IsFiniteSet(1 .. n) /\ IsFiniteSet(1 .. n - 1)
      BY <3>1, FS_Interval
    <3>3. QED
      BY <3>1, <3>2
  <2>2. u \in Nat /\ a \in Nat
    <3>1. \A i \in 1 .. n - 1 : f[i] \in Int /\ f[i] >= 0 /\ g[i] \in Int /\ g[i] >= 0
      BY <1>2, <2>1
    <3>2. QED
      BY <1>6, <2>1, <3>1, SumType
  <2>3. v = f[n] + u /\ b = g[n] + a
    <3>1. \A i \in 1 .. n : f[i] \in Int /\ g[i] \in Int
      BY <1>2, <2>1
    <3>2. PICK j \in Nat : j = n - 1 /\ n = j + 1
      OBVIOUS
    <3>3. Continues(f, f, j) /\ Continues(g, g, j)
      BY <3>1, <3>2 DEF Continues
    <3>4. /\ SumFunctionOnSet(f, 1 .. j + 1) = SumFunctionOnSet(f, 1 .. j) + f[j + 1]
          /\ SumFunctionOnSet(g, 1 .. j + 1) = SumFunctionOnSet(g, 1 .. j) + g[j + 1]
      BY <3>3, SumContinued
    <3>5. v = u + f[n] /\ b = a + g[n]
      BY <1>6, <1>7, <3>2, <3>4, Zenon
    <3>6. f[n] \in Nat /\ g[n] \in Nat
      BY <1>2
    <3>7. QED
      BY <2>2, <3>5, <3>6
  <2>4. price >= prev => u = a
    BY <1>5, <1>6, <2>1, SumSame
  <2>5. QED
    BY <2>2, <2>3, <2>4
<1>9. CASE prev >= price
  <2>1. Below(es[n], price) = 0
    BY <1>3, <1>9 DEF Below
  <2>2. v = u /\ b - v = (a - u) + amount
    BY <1>3, <1>4, <1>8, <2>1
  <2>3. Accounted(After(es, n - 1), es[n]) = [used |-> u, owed |-> (a - u) + amount]
    <3>1. Accounted(After(es, n - 1), es[n]) = [After(es, n - 1) EXCEPT !.owed = @ + amount]
      BY <1>3, <1>9, Zenon DEF Accounted
    <3>2. QED
      BY <1>6, <3>1
  <2>4. QED
    BY <1>7, <2>2, <2>3
<1>10. CASE ~(prev >= price) /\ prev + amount <= price
  <2>1. Below(es[n], price) = amount
    BY <1>3, <1>10 DEF Below, End
  <2>2. v = u + amount /\ b - v = a - u
    BY <1>3, <1>4, <1>8, <2>1
  <2>3. Accounted(After(es, n - 1), es[n]) = [used |-> u + amount, owed |-> a - u]
    <3>1. Accounted(After(es, n - 1), es[n]) = [After(es, n - 1) EXCEPT !.used = @ + amount]
      BY <1>3, <1>10, Zenon DEF Accounted
    <3>2. QED
      BY <1>6, <3>1
  <2>4. QED
    BY <1>7, <2>2, <2>3
<1>11. CASE ~(prev >= price) /\ ~(prev + amount <= price)
  <2>1. Below(es[n], price) = price - prev
    BY <1>3, <1>11 DEF Below, End
  <2>2. u = a
    BY <1>3, <1>8, <1>11
  <2>3. v = u + price - prev /\ b - v = amount - (price - prev)
    <3>1. v = (price - prev) + u /\ b = amount + u
      BY <1>4, <1>8, <2>1, <2>2
    <3>2. u \in Nat
      BY <1>8
    <3>3. QED
      BY <3>1, <3>2
  <2>4. After(es, n - 1).used = u
    BY <1>6
  <2>5. Accounted(After(es, n - 1), es[n])
          = [used |-> u + price - prev, owed |-> amount - (price - prev)]
    BY <1>3, <1>11, <2>4, Zenon DEF Accounted
  <2>6. QED
    BY <1>7, <2>3, <2>5
<1>12. QED
  BY <1>9, <1>10, <1>11

\* The loop finds how much the price uses, the rest is owed.
LEMMA FinalIs ==
  ASSUME Tiled, price \in Nat, NEW c \in Contributors
  PROVE  FinalContribution(c)
           = [used |-> Used(contributions[c], price),
              owed |-> Total(contributions[c]) - Used(contributions[c], price)]
<1>1. PICK es \in Seq(Entries) : es = contributions[c]
  BY DEF Tiled
<1>2. PICK t \in Nat : t = totalContributions
  BY DEF Tiled
<1>3. Sorted(es, t)
  BY <1>1, <1>2 DEF Tiled
<1>4. PICK m \in Nat : m = Len(es)
  OBVIOUS
<1>5. PICK h : h = [n \in 0 .. m |-> After(es, n)]
  OBVIOUS
<1>6. After(es, 0) = [used |-> 0, owed |-> 0]
  <2>1. 1 .. 0 = {}
    OBVIOUS
  <2>2. After(es, 0) = [used |-> 0, owed |-> 0 - 0]
    BY <2>1, SumEmpty, Zenon DEF After
  <2>3. QED
    BY <2>2
<1>7. \A n \in 0 .. m : h[n] = Round(h, es, n)
  <2>1. ASSUME NEW n \in 0 .. m PROVE h[n] = Round(h, es, n)
    <3>1. h[n] = After(es, n)
      BY <1>5
    <3>2. CASE n = 0
      BY <1>6, <3>1, <3>2 DEF Round
    <3>3. CASE n # 0
      <4>1. n \in 1 .. Len(es) /\ n - 1 \in 0 .. m
        BY <1>4, <3>3
      <4>2. h[n - 1] = After(es, n - 1)
        BY <1>5, <4>1
      <4>3. After(es, n) = Accounted(After(es, n - 1), es[n])
        BY <1>3, <4>1, RoundIs
      <4>4. QED
        BY <3>1, <3>3, <4>2, <4>3, Zenon DEF Round
    <3>4. QED
      BY <3>2, <3>3
  <2>2. QED
    BY <2>1
<1>8. h = [n \in 0 .. Len(es) |-> Round(h, es, n)]
  BY <1>4, <1>5, <1>7
<1>9. PICK g : g = Rounds(es)
  OBVIOUS
<1>10. g = [n \in 0 .. Len(es) |-> Round(g, es, n)]
  BY <1>8, <1>9, Zenon DEF Rounds
<1>11. \A n \in 0 .. m : g[n] = Round(g, es, n)
  BY <1>4, <1>10
<1>12. PICK N : N = {n \in 0 .. m : g[n] # h[n]}
  OBVIOUS
<1>13. N = {}
  <2>1. SUFFICES ASSUME N # {} PROVE FALSE
    OBVIOUS
  <2>2. N \subseteq Nat
    BY <1>12
  <2>3. PICK n \in N : \A k \in N : n <= k
    BY <2>1, <2>2, LeastNatural
  <2>4. n \in 0 .. m /\ g[n] # h[n]
    BY <1>12
  <2>5. n = 0 \/ g[n - 1] = h[n - 1]
    BY <1>12, <2>3, <2>4
  <2>6. Round(g, es, n) = Round(h, es, n)
    BY <2>5, Zenon DEF Round
  <2>7. QED
    BY <1>7, <1>11, <2>4, <2>6
<1>14. FinalContribution(c) = After(es, m)
  <2>1. g[m] = h[m] /\ h[m] = After(es, m)
    BY <1>5, <1>12, <1>13
  <2>2. FinalContribution(c) = g[m]
    BY <1>1, <1>4, <1>9, FinalIsLoop, Zenon
  <2>3. QED
    BY <2>1, <2>2
<1>15. After(es, m) = [used |-> Used(es, price), owed |-> Total(es) - Used(es, price)]
  BY <1>4, EntrySums, Zenon DEF After, Used
<1>16. QED
  BY <1>1, <1>14, <1>15, Zenon

\* Used and owed are amounts that add up to what was contributed.
LEMMA FinalParts ==
  ASSUME Tiled, price \in Nat, NEW c \in Contributors
  PROVE  /\ FinalContribution(c).used = Used(contributions[c], price)
         /\ FinalContribution(c).used \in Nat /\ FinalContribution(c).owed \in Nat
         /\ FinalContribution(c).used + FinalContribution(c).owed = Total(contributions[c])
         /\ Total(contributions[c]) \in Nat
<1>1. PICK es \in Seq(Entries) : es = contributions[c]
  BY DEF Tiled
<1>2. PICK u \in Nat, a \in Nat : u = Used(es, price) /\ a = Total(es) /\ u <= a
  BY EntrySums
<1>3. FinalContribution(c) = [used |-> u, owed |-> a - u]
  BY <1>1, <1>2, FinalIs
<1>4. FinalContribution(c).used = u /\ FinalContribution(c).owed = a - u
  BY <1>3
<1>5. a - u \in Nat /\ u + (a - u) = a
  BY <1>2
<1>6. QED
  BY <1>1, <1>2, <1>4, <1>5

\* All together the contributions use the price.
LEMMA PriceIsUsed ==
  ASSUME Tiled, price \in Nat, price <= totalContributions
  PROVE  SumFunction([c \in Contributors |-> FinalContribution(c).used]) = price
<1> DEFINE f == [c \in Contributors |-> FinalContribution(c).used]
           g == [c \in Contributors |-> Used(contributions[c], price)]
<1>1. \A c \in Contributors : f[c] = g[c]
  BY FinalParts
<1>2. f = g
  BY <1>1
<1>3. SumFunction(f) = SumFunctionOnSet(g, Contributors)
  <2>1. DOMAIN f = Contributors
    OBVIOUS
  <2>2. QED
    BY <1>2, <2>1, Zenon DEF SumFunction
<1>4. UsedByAll(contributions, price) = SumFunctionOnSet(g, Contributors)
  BY Zenon DEF UsedByAll
<1>5. price \in 0 .. totalContributions
  BY DEF Tiled
<1>6. UsedByAll(contributions, price) = price
  BY <1>5 DEF Tiled
<1>7. QED
  BY <1>3, <1>4, <1>6, Zenon

\* Whoever wins or loses, the contributions pay for the price.
LEMMA PriceIsCovered ==
  ASSUME OutcomeInv, Lifecycle \in {"Won", "Lost"}
  PROVE  price \in Nat /\ price <= totalContributions
<1>1. price \in Nat
  BY DEF OutcomeInv, Numbers
<1>2. ~buying.under
  BY DEF OutcomeInv, BuyingInv, Lifecycle, AuctionLifecycle, BuyLifecycle
<1>3. QED
  BY <1>1, <1>2 DEF OutcomeInv, PriceInv

\* The ETH that each contribution used and what is owed back add up to what was
\* contributed, and together the contributions used exactly the price, whatever the
\* order they came in.
THEOREM EtherIsAccounted == Spec => []EveryEtherAccounted
<1>1. ASSUME OutcomeInv, Tiled PROVE EveryEtherAccounted
  <2>1. SUFFICES ASSUME Lifecycle \in {"Won", "Lost"}
                 PROVE  /\ \A c \in Contributors :
                             FinalContribution(c).used + FinalContribution(c).owed
                               = Total(contributions[c])
                        /\ SumFunction([c \in Contributors |-> FinalContribution(c).used]) = price
    BY Zenon DEF EveryEtherAccounted
  <2>2. price \in Nat /\ price <= totalContributions
    BY <1>1, <2>1, PriceIsCovered
  <2>3. \A c \in Contributors :
          FinalContribution(c).used + FinalContribution(c).owed = Total(contributions[c])
    BY <1>1, <2>2, FinalParts
  <2>4. SumFunction([c \in Contributors |-> FinalContribution(c).used]) = price
    BY <1>1, <2>2, PriceIsUsed
  <2>5. QED
    BY <2>3, <2>4, Zenon
<1>2. QED
  BY <1>1, Start, Step, TiledAtStart, TiledStep, PTL DEF Spec

----------------------------------------------------------------------------
(* What a contribution is worth in votes                                   *)

\* The votes for what was used, and those of the recipient of the split.
UsedPart(c) == ((Bps - Split) * FinalContribution(c).used) \div Bps

SplitPart == (Split * price + Bps - 1) \div Bps

\* The votes all contributors get.
AllPower == SumFunction([c \in Contributors |-> VotingPower(c)])

\* Rounding down and rounding up.
LEMMA Rounding ==
  ASSUME NEW a \in Nat
  PROVE  /\ a \div Bps \in Nat /\ Bps * (a \div Bps) <= a /\ a <= Bps * (a \div Bps) + (Bps - 1)
         /\ (a + Bps - 1) \div Bps \in Nat
         /\ a <= Bps * ((a + Bps - 1) \div Bps)
         /\ Bps * ((a + Bps - 1) \div Bps) <= a + (Bps - 1)
BY DEF Bps

\* The split is a part, and there is none without a recipient.
LEMMA SplitIs ==
  /\ Split \in Nat /\ Split <= Bps /\ Bps - Split \in Nat
  /\ SplitRecipient \notin Contributors => Split = 0
<1>1. SplitRecipient \in Contributors \cup {None}
  BY CrowdfundAssumption
<1>2. QED
  BY <1>1, Constants DEF Split

\* The votes of one contributor.
LEMMA PowerType ==
  ASSUME Tiled, price \in Nat, NEW c \in Contributors
  PROVE  /\ UsedPart(c) \in Nat /\ SplitPart \in Nat /\ VotingPower(c) \in Nat
         /\ VotingPower(c) = UsedPart(c) + IF c = SplitRecipient THEN SplitPart ELSE 0
         /\ Bps * UsedPart(c) <= (Bps - Split) * FinalContribution(c).used
         /\ (Bps - Split) * FinalContribution(c).used <= Bps * UsedPart(c) + (Bps - 1)
<1>1. PICK k \in Nat : k = Bps - Split
  BY SplitIs
<1>2. PICK u \in Nat : u = FinalContribution(c).used
  BY FinalParts
<1>3. PICK a \in Nat : a = k * u
  OBVIOUS
<1>4. UsedPart(c) = a \div Bps
  BY <1>1, <1>2, <1>3, Zenon DEF UsedPart
<1>5. PICK b \in Nat : b = Split * price
  BY SplitIs
<1>6. SplitPart = (b + Bps - 1) \div Bps
  BY <1>5, Zenon DEF SplitPart
<1>7. UsedPart(c) \in Nat /\ SplitPart \in Nat
  BY <1>4, <1>6, Rounding
<1>8. VotingPower(c) = UsedPart(c) + IF c = SplitRecipient THEN SplitPart ELSE 0
  BY DEF VotingPower, UsedPart, SplitPart
<1>9. Bps * UsedPart(c) <= a /\ a <= Bps * UsedPart(c) + (Bps - 1)
  BY <1>4, Rounding
<1>10. QED
  BY <1>1, <1>2, <1>3, <1>7, <1>8, <1>9

\* All votes are those for what was used, and the split.
LEMMA AllPowerIs ==
  ASSUME Tiled, price \in Nat
  PROVE  /\ AllPower \in Nat
         /\ \E parts \in Nat :
              /\ parts = SumFunctionOnSet([c \in Contributors |-> UsedPart(c)], Contributors)
              /\ AllPower = parts + IF SplitRecipient \in Contributors THEN SplitPart ELSE 0
<1> DEFINE f == [c \in Contributors |-> UsedPart(c)]
           g == [c \in Contributors |-> VotingPower(c)]
<1>1. AllPower = SumFunctionOnSet(g, Contributors)
  <2>1. DOMAIN g = Contributors
    OBVIOUS
  <2>2. QED
    BY <2>1, Zenon DEF AllPower, SumFunction
<1>2. \A c \in Contributors :
        /\ f[c] \in Nat /\ g[c] \in Nat
        /\ g[c] = f[c] + IF c = SplitRecipient THEN SplitPart ELSE 0
  BY PowerType
<1>3. SplitRecipient \in Contributors => SplitPart \in Nat
  BY PowerType
<1> HIDE DEF f, g
<1>4. \A c \in Contributors : f[c] \in Int /\ f[c] >= 0 /\ g[c] \in Int /\ g[c] >= 0
  BY <1>2
<1>5. SumFunctionOnSet(f, Contributors) \in Nat /\ SumFunctionOnSet(g, Contributors) \in Nat
  BY <1>4, SumType, Constants
<1>6. CASE SplitRecipient \in Contributors
  <2>1. \A c \in Contributors \ {SplitRecipient} : f[c] = g[c]
    BY <1>2
  <2>2. SumFunctionOnSet(g, Contributors)
          = SumFunctionOnSet(f, Contributors) + g[SplitRecipient] - f[SplitRecipient]
    BY <1>4, <1>6, <2>1, SumChange, Constants
  <2>3. g[SplitRecipient] = f[SplitRecipient] + SplitPart /\ f[SplitRecipient] \in Nat
    BY <1>2, <1>6
  <2>4. SumFunctionOnSet(g, Contributors) = SumFunctionOnSet(f, Contributors) + SplitPart
    BY <1>3, <1>5, <1>6, <2>2, <2>3
  <2>5. QED
    BY <1>1, <1>5, <1>6, <2>4 DEF f
<1>7. CASE SplitRecipient \notin Contributors
  <2>1. \A c \in Contributors : f[c] = g[c]
    BY <1>2, <1>7
  <2>2. SumFunctionOnSet(g, Contributors) = SumFunctionOnSet(f, Contributors)
    BY <2>1, SumSame, Constants
  <2>3. QED
    BY <1>1, <1>5, <1>7, <2>2 DEF f
<1>8. QED
  BY <1>6, <1>7

\* Votes never pass the price, and fall short of it by less than one for each
\* contributor.
LEMMA PowerWithinPrice ==
  ASSUME Tiled, price \in Nat, price <= totalContributions
  PROVE  /\ AllPower <= price
         /\ SplitRecipient \in Contributors => price - AllPower < Cardinality(Contributors)
<1>1. PICK k \in Nat : k = Bps - Split
  BY SplitIs
<1>2. PICK parts \in Nat :
        /\ parts = SumFunctionOnSet([c \in Contributors |-> UsedPart(c)], Contributors)
        /\ AllPower = parts + IF SplitRecipient \in Contributors THEN SplitPart ELSE 0
  BY AllPowerIs
<1>3. PICK n \in Nat : n = Cardinality(Contributors)
  BY Constants, FS_CardinalityType
<1>4. Bps * parts <= k * price /\ k * price <= Bps * parts + (Bps - 1) * n
  <2> DEFINE f == [c \in Contributors |-> FinalContribution(c).used]
             g == [c \in Contributors |-> UsedPart(c)]
  <2>1. SumFunctionOnSet(f, Contributors) = price
    <3>1. DOMAIN f = Contributors
      OBVIOUS
    <3>2. SumFunction(f) = price
      BY PriceIsUsed
    <3>3. QED
      BY <3>1, <3>2, Zenon DEF SumFunction
  <2>2. \A c \in Contributors :
          /\ f[c] \in Nat /\ g[c] \in Nat
          /\ Bps * g[c] <= k * f[c] /\ k * f[c] <= Bps * g[c] + (Bps - 1)
    BY <1>1, FinalParts, PowerType
  <2> HIDE DEF f, g
  <2>3. Parts(f, g, Contributors, k, Bps)
    BY <2>2, Constants DEF Parts
  <2>4. PartsAddUp(f, g, Contributors, k, Bps)
    BY <2>3, SumOfParts, Constants
  <2>5. SumFunctionOnSet(g, Contributors) = parts
    BY <1>2, Zenon DEF g
  <2>6. QED
    BY <1>3, <2>1, <2>4, <2>5, Zenon DEF PartsAddUp
<1>5. PICK s \in Nat : s = Split /\ s + k = Bps /\ (SplitRecipient \notin Contributors => s = 0)
  BY <1>1, SplitIs, Constants
<1>6. k * price + s * price = 10000 * price /\ s * price \in Nat
  <2>1. k * price + s * price = (s + k) * price
    OBVIOUS
  <2>2. QED
    BY <1>5, <2>1, Constants
<1>7. PICK b \in Nat : b = s * price
  BY <1>6
<1>8. PICK a \in Nat : a = k * price
  OBVIOUS
<1>9. a + b = 10000 * price /\ 10000 * parts <= a /\ a <= 10000 * parts + 9999 * n
  BY <1>4, <1>6, <1>7, <1>8, Constants
<1>10. CASE SplitRecipient \in Contributors
  <2>1. PICK c \in Nat : c = SplitPart /\ b <= 10000 * c /\ 10000 * c <= b + 9999
    <3>1. SplitPart = (b + Bps - 1) \div Bps
      BY <1>5, <1>7, Zenon DEF SplitPart
    <3>2. QED
      BY <3>1, Rounding, Constants
  <2>2. AllPower = parts + c
    BY <1>2, <1>10, <2>1
  <2>3. parts + c <= price
    BY <1>9, <2>1
  <2>4. n > 0
    BY <1>3, <1>10, Constants, FS_EmptySet
  <2>5. price - (parts + c) < n
    BY <1>9, <2>1, <2>4
  <2>6. QED
    BY <1>3, <2>2, <2>3, <2>5
<1>11. CASE SplitRecipient \notin Contributors
  <2>1. AllPower = parts
    BY <1>2, <1>11
  <2>2. b = 0
    BY <1>5, <1>7, <1>11
  <2>3. parts <= price
    BY <1>9, <2>2
  <2>4. QED
    BY <1>11, <2>1, <2>3
<1>12. QED
  BY <1>10, <1>11

\* The votes of all contributors and the recipient of the split never pass the total of
\* the party, and rounding loses less than one vote for each contributor.
THEOREM PowerIsPrice == Spec => []PowerSumsToPrice
<1>1. ASSUME OutcomeInv, Tiled PROVE PowerSumsToPrice
  <2>1. SUFFICES ASSUME Lifecycle = "Won"
                 PROVE  /\ AllPower <= partyTotal
                        /\ SplitRecipient # None
                             => partyTotal - AllPower < Cardinality(Contributors)
    BY DEF PowerSumsToPrice, AllPower
  <2>2. price \in Nat /\ price <= totalContributions
    BY <1>1, <2>1, PriceIsCovered
  <2>3. partyTotal = price
    BY <1>1, <2>1
    DEF OutcomeInv, Numbers, PriceInv, PartyBacked, Lifecycle, AuctionLifecycle, BuyLifecycle
  <2>4. SplitRecipient # None => SplitRecipient \in Contributors
    BY CrowdfundAssumption
  <2>5. QED
    BY <1>1, <2>2, <2>3, <2>4, PowerWithinPrice
<1>2. QED
  BY <1>1, Start, Step, TiledAtStart, TiledStep, PTL DEF Spec

----------------------------------------------------------------------------
(* What each contributor was paid                                          *)

\* The final contribution, and the votes for it, of entries es at a price p.
AccountedAt(sum, e, p) ==
  IF e.previous >= p THEN [sum EXCEPT !.owed = @ + e.amount]
  ELSE IF e.previous + e.amount <= p THEN [sum EXCEPT !.used = @ + e.amount]
  ELSE [used |-> sum.used + p - e.previous, owed |-> e.amount - (p - e.previous)]

FinalAt(es, p) ==
  LET upTo[n \in 0 .. Len(es)] ==
        IF n = 0 THEN [used |-> 0, owed |-> 0] ELSE AccountedAt(upTo[n - 1], es[n], p)
  IN upTo[Len(es)]

PowerAt(es, p, c) ==
  ((Bps - Split) * FinalAt(es, p).used) \div Bps
  + IF c = SplitRecipient THEN (Split * p + Bps - 1) \div Bps ELSE 0

\* They depend on nothing else.
LEMMA FinalIsAt ==
  ASSUME NEW c
  PROVE  /\ FinalContribution(c) = FinalAt(contributions[c], price)
         /\ FinalContribution(c)' = FinalAt(contributions'[c], price')
         /\ VotingPower(c) = PowerAt(contributions[c], price, c)
         /\ VotingPower(c)' = PowerAt(contributions'[c], price', c)
<1>1. FinalContribution(c) = FinalAt(contributions[c], price)
  BY DEF FinalContribution, FinalAt, Accounted, AccountedAt
<1>2. FinalContribution(c)' = FinalAt(contributions'[c], price')
  BY DEF FinalContribution, FinalAt, Accounted, AccountedAt
<1>3. VotingPower(c) = PowerAt(contributions[c], price, c)
  BY <1>1, Zenon DEF VotingPower, PowerAt
<1>4. VotingPower(c)' = PowerAt(contributions'[c], price', c)
  BY <1>2, Zenon DEF VotingPower, PowerAt, Split
<1>5. QED
  BY <1>1, <1>2, <1>3, <1>4

\* Whether c has burned.
Done(c) == IF c = SplitRecipient THEN splitBurned ELSE contributions[c] # <<>> /\ c \notin nfts

\* c has got or may claim what it is owed, if it has burned.
PaidTo(c) ==
  /\ got[c] + claims[c].refund = IF Done(c) THEN FinalContribution(c).owed ELSE 0
  /\ cards[c] + claims[c].power = IF Done(c) THEN VotingPower(c) ELSE 0

Ended == Lifecycle \in {"Won", "Lost"}

PaidTypes ==
  /\ splitBurned \in BOOLEAN
  /\ nfts \subseteq Contributors
  /\ cards \in [Contributors -> Nat]
  /\ claims \in [Contributors -> [refund : Nat, power : Nat]]
  /\ got \in [Contributors -> Nat]

\* Contributors, and none that burned, hold the NFTs of the crowdfund.
Holders ==
  \A c \in Contributors :
    /\ c \in nfts => contributions[c] # <<>>
    /\ c = SplitRecipient /\ splitBurned => c \notin nfts

\* Nobody has burned.
NobodyYet ==
  /\ ~splitBurned
  /\ \A c \in Contributors : contributions[c] # <<>> => c \in nfts

PaidInv ==
  /\ PaidTypes
  /\ Holders
  /\ ~Ended => NobodyYet
  /\ \A c \in Contributors : PaidTo(c)

payVars == <<contributions, nfts, splitBurned, cards, claims, got>>

\* Nobody was paid by a crowdfund that was just created.
LEMMA PaidAtStart == Init => PaidInv
<1> SUFFICES ASSUME Init PROVE PaidInv
  OBVIOUS
<1>1. /\ contributions = [c \in Contributors |-> <<>>]
      /\ nfts = {} /\ splitBurned = FALSE
      /\ cards = [c \in Contributors |-> 0]
      /\ claims = [c \in Contributors |-> NoClaim]
      /\ got = [c \in Contributors |-> 0]
  BY DEF Init, BaseInit
<1>2. PaidTypes
  BY <1>1 DEF PaidTypes, NoClaim
<1>3. Holders /\ NobodyYet /\ \A c \in Contributors : ~Done(c)
  BY <1>1 DEF Holders, NobodyYet, Done
<1>4. \A c \in Contributors : PaidTo(c)
  BY <1>1, <1>3 DEF PaidTo, NoClaim
<1>5. QED
  BY <1>2, <1>3, <1>4 DEF PaidInv

\* Only contributing, burning and claiming touch what is paid.
LEMMA PaymentsStay ==
  ASSUME [Next]_vars
  PROVE  \/ UNCHANGED payVars
         \/ \E c \in Contributors :
              /\ \/ \E amount \in Amounts : Contributes(c, amount)
                 \/ BurnAny(c)
                 \/ Claim(c)
              /\ UNCHANGED <<kind, auctionVars, buying>>
<1>1. ASSUME NEW c \in Contributors, Member(c), UNCHANGED <<kind, auctionVars, buying>>
      PROVE  \/ UNCHANGED payVars
             \/ \E amount \in Amounts : Contributes(c, amount)
             \/ BurnAny(c)
             \/ Claim(c)
  <2>1. CASE \E own \in BOOLEAN, d \in Delegates :
               \/ OnlyDelegates(own, c, d)
               \/ \E amount \in Amounts, short \in ShortBatches :
                    Contribute(Lifecycle, own, c, d, amount, short)
    BY <2>1 DEF Contributes, OnlyDelegates, givenVars, burnVars, payVars
  <2>2. QED
    BY <1>1, <2>1 DEF Member
<1>2. ASSUME (\E amount \in Amounts : Surplus(amount)) \/ BaseTick PROVE UNCHANGED payVars
  BY <1>2 DEF Surplus, BaseTick, givenVars, burnVars, payVars
<1>3. ASSUME AuctionNext PROVE UNCHANGED payVars
  BY <1>3
  DEF AuctionNext, BidBegin, BidEnd, FinalizeBegin, FinalizeEnd, FinalizeWon, FinalizeLost,
      RollOver, OtherBids, AuctionOver, MarketSettles, Gift, Others, givenVars, burnVars,
      baseVars, payVars
<1>4. ASSUME BuyNext(kind = "batch") PROVE UNCHANGED payVars
  BY <1>4
  DEF BuyNext, BuyBegin, BuyStep, BuySkip, BuyEnd, OwnerGives, givenVars, burnVars, payVars
<1>5. ASSUME UNCHANGED vars PROVE UNCHANGED payVars
  BY <1>5 DEF vars, baseVars, givenVars, burnVars, payVars
<1>6. QED
  BY <1>1, <1>2, <1>3, <1>4, <1>5 DEF Next, Tick

\* Before the end nobody has been paid anything.
LEMMA NobodyPaid ==
  ASSUME PaidInv, NobodyYet, NEW c \in Contributors
  PROVE  got[c] = 0 /\ cards[c] = 0 /\ claims[c].refund = 0 /\ claims[c].power = 0
<1>1. got[c] \in Nat /\ cards[c] \in Nat /\ claims[c].refund \in Nat /\ claims[c].power \in Nat
  BY DEF PaidInv, PaidTypes
<1>2. ~Done(c)
  BY DEF NobodyYet, Done
<1>3. got[c] + claims[c].refund = 0 /\ cards[c] + claims[c].power = 0
  BY <1>2 DEF PaidInv, PaidTo
<1>4. QED
  BY <1>1, <1>3

\* What touches no payment changes no debt either.
LEMMA PaidAside ==
  ASSUME PaidInv, OutcomeInv, [Next]_vars, UNCHANGED payVars
  PROVE  PaidInv'
<1>1. UNCHANGED <<contributions, nfts, splitBurned, cards, claims, got>>
  BY DEF payVars
<1>2. PaidTypes' /\ Holders'
  BY <1>1 DEF PaidInv, PaidTypes, Holders
<1>3. \A c \in Contributors : Done(c)' <=> Done(c)
  BY <1>1 DEF Done
<1>4. CASE Ended
  <2>1. Ended' /\ price' = price
    BY <1>4, StepStays DEF Ended, OutcomeStays, vars, baseVars, Lifecycle, IsAuction,
       AuctionLifecycle, BuyLifecycle, auctionVars
  <2>2. ASSUME NEW c \in Contributors PROVE PaidTo(c)'
    <3>1. FinalContribution(c)' = FinalContribution(c) /\ VotingPower(c)' = VotingPower(c)
      BY <1>1, <2>1, FinalIsAt, Zenon
    <3>2. PaidTo(c)
      BY DEF PaidInv
    <3>3. QED
      BY <1>1, <1>3, <3>1, <3>2 DEF PaidTo
  <2>3. QED
    BY <1>2, <2>1, <2>2 DEF PaidInv
<1>5. CASE ~Ended
  <2>1. NobodyYet
    BY <1>5 DEF PaidInv
  <2>2. NobodyYet'
    BY <1>1, <2>1 DEF NobodyYet
  <2>3. ASSUME NEW c \in Contributors PROVE PaidTo(c)'
    <3>1. ~Done(c)'
      BY <1>3, <2>1 DEF NobodyYet, Done
    <3>2. got[c] + claims[c].refund = 0 /\ cards[c] + claims[c].power = 0
      BY <2>1, NobodyPaid
    <3>3. QED
      BY <1>1, <3>1, <3>2 DEF PaidTo
  <2>4. QED
    BY <1>2, <2>2, <2>3 DEF PaidInv
<1>6. QED
  BY <1>4, <1>5

\* Contributions come before any payment.
LEMMA PaidOnContribution ==
  ASSUME PaidInv, Tiled, NEW c \in Contributors, NEW amount \in Amounts, Contributes(c, amount)
  PROVE  PaidInv'
<1>1. /\ Lifecycle = "Active"
      /\ contributions' = [contributions EXCEPT ![c] = Entered(@, amount)]
      /\ totalContributions' = totalContributions + amount
      /\ nfts' = nfts \cup {c}
      /\ UNCHANGED <<splitBurned, cards, claims, got>>
  BY DEF Contributes, Contribute, burnVars
<1>2. amount \in Nat \ {0}
  BY Constants
<1>3. contributions'[c] # <<>>
  BY <1>1, <1>2, TiledOn DEF Grows
<1>4. \A b \in Contributors \ {c} : contributions'[b] = contributions[b]
  BY <1>1 DEF Tiled
<1>5. NobodyYet
  BY <1>1 DEF PaidInv, Ended
<1>6. NobodyYet'
  BY <1>1, <1>4, <1>5 DEF NobodyYet
<1>7. PaidTypes' /\ Holders'
  <2>1. PaidTypes'
    BY <1>1 DEF PaidInv, PaidTypes
  <2>2. Holders'
    BY <1>1, <1>3, <1>4, <1>5 DEF PaidInv, Holders, NobodyYet
  <2>3. QED
    BY <2>1, <2>2
<1>8. ASSUME NEW b \in Contributors PROVE PaidTo(b)'
  <2>1. ~Done(b)'
    BY <1>6 DEF NobodyYet, Done
  <2>2. got[b] + claims[b].refund = 0 /\ cards[b] + claims[b].power = 0
    BY <1>5, NobodyPaid
  <2>3. QED
    BY <1>1, <2>1, <2>2 DEF PaidTo
<1>9. QED
  BY <1>6, <1>7, <1>8 DEF PaidInv

\* The votes minted and escrowed are numbers.
LEMMA MintedIs ==
  ASSUME PaidTypes
  PROVE  /\ Minted = SumFunctionOnSet([c \in Contributors |-> cards[c] + claims[c].power],
                                      Contributors)
         /\ Minted \in Nat
<1> DEFINE f == [c \in Contributors |-> cards[c] + claims[c].power]
<1>1. Minted = SumFunctionOnSet(f, Contributors)
  <2>1. DOMAIN f = Contributors
    OBVIOUS
  <2>2. QED
    BY <2>1, Zenon DEF Minted, SumFunction
<1>2. \A c \in Contributors : f[c] \in Int /\ f[c] >= 0
  <2>1. ASSUME NEW c \in Contributors PROVE f[c] \in Int /\ f[c] >= 0
    <3>1. cards[c] \in Nat /\ claims[c].power \in Nat
      BY DEF PaidTypes
    <3>2. QED
      BY <3>1
  <2>2. QED
    BY <2>1
<1> HIDE DEF f
<1>3. SumFunctionOnSet(f, Contributors) \in Nat
  BY <1>2, SumType, Constants
<1>4. QED
  BY <1>1, <1>3, Zenon DEF f

\* There are votes left for whoever has not burned, so the cap of mint() cuts nothing.
LEMMA PowerIsLeft ==
  ASSUME PaidInv, Tiled, OutcomeInv, Ended, NEW c \in Contributors, ~Done(c)
  PROVE  /\ VotingPower(c) \in Nat /\ Capped(VotingPower(c)) = VotingPower(c)
         /\ price = 0 => VotingPower(c) = 0
<1> DEFINE f == [b \in Contributors |-> cards[b] + claims[b].power]
           g == [b \in Contributors |-> VotingPower(b)]
<1>1. price \in Nat /\ price <= totalContributions
  BY PriceIsCovered DEF Ended
<1>2. partyTotal = price
  BY DEF OutcomeInv, Numbers, BuyingInv, PriceInv, PartyBacked, Ended, Lifecycle,
         AuctionLifecycle, BuyLifecycle
<1>3. \A b \in Contributors : VotingPower(b) \in Nat
  BY <1>1, PowerType
<1>4. \A b \in Contributors : f[b] \in Nat /\ g[b] \in Nat /\ f[b] <= g[b]
  <2>1. ASSUME NEW b \in Contributors PROVE f[b] \in Nat /\ g[b] \in Nat /\ f[b] <= g[b]
    <3>1. f[b] = IF Done(b) THEN VotingPower(b) ELSE 0
      BY DEF PaidInv, PaidTo
    <3>2. VotingPower(b) \in Nat
      BY <1>3
    <3>3. QED
      BY <3>1, <3>2
  <2>2. QED
    BY <2>1
<1>5. f[c] = 0 /\ g[c] = VotingPower(c)
  BY DEF PaidInv, PaidTo
<1>6. Minted = SumFunctionOnSet(f, Contributors) /\ Minted \in Nat
  BY MintedIs DEF PaidInv
<1>7. AllPower = SumFunctionOnSet(g, Contributors) /\ AllPower <= price
  <2>1. DOMAIN g = Contributors
    OBVIOUS
  <2>2. AllPower <= price
    BY <1>1, PowerWithinPrice
  <2>3. QED
    BY <2>1, <2>2, Zenon DEF AllPower, SumFunction
<1>8. AllPower \in Nat
  BY <1>1, AllPowerIs
<1> HIDE DEF f, g
<1>9. PICK h : h = [b \in Contributors |-> IF b = c THEN g[c] ELSE f[b]]
  OBVIOUS
<1>10. /\ h[c] = g[c] /\ \A b \in Contributors \ {c} : f[b] = h[b]
       /\ \A b \in Contributors : f[b] \in Int /\ g[b] \in Int /\ h[b] \in Int /\ h[b] <= g[b]
  BY <1>4, <1>9
<1>11. /\ SumFunctionOnSet(h, Contributors) = SumFunctionOnSet(f, Contributors) + h[c] - f[c]
       /\ SumFunctionOnSet(h, Contributors) <= SumFunctionOnSet(g, Contributors)
  <2>1. \A b \in Contributors : f[b] \in Int /\ h[b] \in Int
    BY <1>10
  <2>2. \A b \in Contributors : h[b] \in Int /\ g[b] \in Int /\ h[b] <= g[b]
    BY <1>10
  <2>3. SumFunctionOnSet(h, Contributors) = SumFunctionOnSet(f, Contributors) + h[c] - f[c]
    BY <1>10, <2>1, SumChange, Constants
  <2>4. SumFunctionOnSet(h, Contributors) <= SumFunctionOnSet(g, Contributors)
    BY <2>2, SumMonotone, Constants
  <2>5. QED
    BY <2>3, <2>4
<1>12. PICK p \in Nat : p = VotingPower(c)
  BY <1>3
<1>13. PICK m \in Nat : m = Minted
  BY <1>6
<1>14. SumFunctionOnSet(h, Contributors) = m + p
  BY <1>5, <1>6, <1>10, <1>11, <1>12, <1>13
<1>15. m + p <= price
  <2>1. m + p <= AllPower
    BY <1>7, <1>11, <1>14, Zenon
  <2>2. QED
    BY <1>1, <1>7, <1>8, <2>1
<1>16. ~(partyTotal - Minted < p)
  BY <1>1, <1>2, <1>13, <1>15
<1>17. Capped(p) = p
  BY <1>16, Zenon DEF Capped
<1>18. price = 0 => p = 0
  BY <1>15
<1>19. QED
  BY <1>12, <1>17, <1>18, Zenon

\* Burning pays what is owed, to the contributor or into its claim.
LEMMA PaidOnBurn ==
  ASSUME PaidInv, Tiled, OutcomeInv, NEW c \in Contributors, BurnAny(c),
         UNCHANGED <<kind, auctionVars, buying>>
  PROVE  PaidInv'
<1>1. PICK received \in BOOLEAN, accepted \in BOOLEAN : Burn(Lifecycle, c, received, accepted)
  BY DEF BurnAny
<1>2. /\ Ended /\ Burned(c) /\ CardMinted(c, accepted)
      /\ claims' = [claims EXCEPT ![c] =
           [refund |-> IF received THEN @.refund ELSE FinalContribution(c).owed,
            power |-> IF accepted \/ VotingPower(c) = 0 THEN @.power
                      ELSE Capped(VotingPower(c))]]
      /\ got' = IF received THEN [got EXCEPT ![c] = @ + FinalContribution(c).owed] ELSE got
      /\ UNCHANGED <<now, expiry, contributions, price, partyTotal>>
  BY <1>1 DEF Burn, Ended
<1>3. price \in Nat /\ price <= totalContributions
  BY <1>2, PriceIsCovered DEF Ended
<1>4. ~Done(c) /\ (c \in nfts => contributions[c] # <<>>)
  BY <1>2 DEF Burned, Done, PaidInv, Holders
<1>5. PICK owed \in Nat : owed = FinalContribution(c).owed
  BY <1>3, FinalParts
<1>6. PICK power \in Nat : power = VotingPower(c) /\ Capped(VotingPower(c)) = power
  BY <1>2, <1>4, PowerIsLeft
<1>7. /\ got[c] = 0 /\ cards[c] = 0 /\ claims[c].refund = 0 /\ claims[c].power = 0
      /\ got \in [Contributors -> Nat] /\ cards \in [Contributors -> Nat]
      /\ claims \in [Contributors -> [refund : Nat, power : Nat]]
  <2>1. /\ got \in [Contributors -> Nat] /\ cards \in [Contributors -> Nat]
        /\ claims \in [Contributors -> [refund : Nat, power : Nat]]
    BY DEF PaidInv, PaidTypes
  <2>2. got[c] \in Nat /\ cards[c] \in Nat /\ claims[c].refund \in Nat /\ claims[c].power \in Nat
    BY <2>1
  <2>3. got[c] + claims[c].refund = 0 /\ cards[c] + claims[c].power = 0
    BY <1>4 DEF PaidInv, PaidTo
  <2>4. QED
    BY <2>1, <2>2, <2>3
<1>8. /\ got' \in [Contributors -> Nat]
      /\ got'[c] = (IF received THEN owed ELSE 0)
      /\ \A b \in Contributors \ {c} : got'[b] = got[b]
  <2>1. CASE received
    <3>1. got' = [got EXCEPT ![c] = @ + owed]
      BY <1>2, <1>5, <2>1
    <3>2. QED
      BY <1>7, <2>1, <3>1
  <2>2. CASE ~received
    BY <1>2, <1>7, <2>2
  <2>3. QED
    BY <2>1, <2>2
<1>9. /\ cards' \in [Contributors -> Nat]
      /\ cards'[c] = (IF accepted THEN power ELSE 0)
      /\ \A b \in Contributors \ {c} : cards'[b] = cards[b]
  <2>1. CASE accepted /\ power # 0
    <3>1. cards' = [cards EXCEPT ![c] = power]
      BY <1>2, <1>6, <2>1 DEF CardMinted
    <3>2. QED
      BY <1>7, <2>1, <3>1
  <2>2. CASE ~(accepted /\ power # 0)
    <3>1. cards' = cards
      BY <1>2, <1>6, <2>2 DEF CardMinted
    <3>2. QED
      BY <1>7, <2>2, <3>1
  <2>3. QED
    BY <2>1, <2>2
<1>10. PICK kept : kept = [refund |-> IF received THEN 0 ELSE owed,
                           power |-> IF accepted \/ power = 0 THEN 0 ELSE power]
  OBVIOUS
<1>11. claims' = [claims EXCEPT ![c] = kept]
  BY <1>2, <1>5, <1>6, <1>7, <1>10
<1>12. kept \in [refund : Nat, power : Nat]
  BY <1>10
<1>13. /\ claims' \in [Contributors -> [refund : Nat, power : Nat]]
       /\ claims'[c] = kept /\ \A b \in Contributors \ {c} : claims'[b] = claims[b]
  BY <1>7, <1>11, <1>12
<1>14. nfts' = nfts \ {c} /\ splitBurned' = (splitBurned \/ c = SplitRecipient)
  BY <1>2 DEF Burned
<1>15. PaidTypes'
  BY <1>8, <1>9, <1>13, <1>14 DEF PaidTypes, PaidInv
<1>16. Holders'
  BY <1>2, <1>14 DEF Holders, PaidInv
<1>17. Ended'
  BY <1>2 DEF Ended, Lifecycle, IsAuction, AuctionLifecycle, BuyLifecycle, auctionVars
<1>18. Done(c)' /\ \A b \in Contributors \ {c} : Done(b)' <=> Done(b)
  BY <1>2, <1>14 DEF Done, Burned, PaidInv, Holders
<1>19. \A b \in Contributors : /\ FinalContribution(b)' = FinalContribution(b)
                               /\ VotingPower(b)' = VotingPower(b)
  BY <1>2, FinalIsAt, Zenon
<1>20. ASSUME NEW b \in Contributors PROVE PaidTo(b)'
  <2>1. CASE b = c
    <3>1. got'[c] + claims'[c].refund = owed
      BY <1>8, <1>10, <1>13
    <3>2. cards'[c] + claims'[c].power = power
      BY <1>9, <1>10, <1>13
    <3>3. QED
      BY <1>5, <1>6, <1>18, <1>19, <2>1, <3>1, <3>2 DEF PaidTo
  <2>2. CASE b # c
    <3>1. PaidTo(b)
      BY DEF PaidInv
    <3>2. /\ got'[b] = got[b] /\ cards'[b] = cards[b] /\ claims'[b] = claims[b]
          /\ Done(b)' <=> Done(b)
      BY <1>8, <1>9, <1>13, <1>18, <2>2
    <3>3. QED
      BY <1>19, <3>1, <3>2 DEF PaidTo
  <2>3. QED
    BY <2>1, <2>2
<1>21. QED
  BY <1>15, <1>16, <1>17, <1>20 DEF PaidInv

\* Claiming moves what is kept to the contributor.
LEMMA PaidOnClaim ==
  ASSUME PaidInv, NEW c \in Contributors, Claim(c), UNCHANGED <<kind, auctionVars, buying>>
  PROVE  PaidInv'
<1>1. /\ claims' = [claims EXCEPT ![c] = NoClaim]
      /\ got' = [got EXCEPT ![c] = @ + claims[c].refund]
      /\ cards' = [cards EXCEPT ![c] = @ + claims[c].power]
      /\ UNCHANGED <<now, expiry, contributions, nfts, splitBurned, price, partyTotal>>
  BY DEF Claim, ClaimDeleted, givenVars
<1>2. /\ got \in [Contributors -> Nat] /\ cards \in [Contributors -> Nat]
      /\ claims \in [Contributors -> [refund : Nat, power : Nat]]
  BY DEF PaidInv, PaidTypes
<1>3. claims[c].refund \in Nat /\ claims[c].power \in Nat
  BY <1>2
<1>4. /\ got' \in [Contributors -> Nat] /\ cards' \in [Contributors -> Nat]
      /\ claims' \in [Contributors -> [refund : Nat, power : Nat]]
  BY <1>1, <1>2, <1>3 DEF NoClaim
<1>5. /\ got'[c] = got[c] + claims[c].refund /\ cards'[c] = cards[c] + claims[c].power
      /\ claims'[c].refund = 0 /\ claims'[c].power = 0
      /\ \A b \in Contributors \ {c} :
           got'[b] = got[b] /\ cards'[b] = cards[b] /\ claims'[b] = claims[b]
  BY <1>1, <1>2 DEF NoClaim
<1>6. PaidTypes'
  BY <1>1, <1>4 DEF PaidTypes, PaidInv
<1>7. Holders' /\ (NobodyYet => NobodyYet') /\ \A b \in Contributors : Done(b)' <=> Done(b)
  BY <1>1 DEF Holders, NobodyYet, Done, PaidInv
<1>8. Ended' <=> Ended
  BY <1>1 DEF Ended, Lifecycle, IsAuction, AuctionLifecycle, BuyLifecycle, auctionVars
<1>9. \A b \in Contributors : /\ FinalContribution(b)' = FinalContribution(b)
                              /\ VotingPower(b)' = VotingPower(b)
  BY <1>1, FinalIsAt, Zenon
<1>10. ASSUME NEW b \in Contributors PROVE PaidTo(b)'
  <2>1. /\ got'[b] + claims'[b].refund = got[b] + claims[b].refund
        /\ cards'[b] + claims'[b].power = cards[b] + claims[b].power
    <3>1. CASE b = c
      <4>1. got'[c] + 0 = got[c] + claims[c].refund /\ cards'[c] + 0 = cards[c] + claims[c].power
        BY <1>4, <1>5
      <4>2. QED
        BY <1>5, <3>1, <4>1
    <3>2. CASE b # c
      BY <1>5, <3>2
    <3>3. QED
      BY <3>1, <3>2
  <2>2. PaidTo(b)
    BY DEF PaidInv
  <2>3. QED
    BY <1>7, <1>9, <2>1, <2>2 DEF PaidTo
<1>11. QED
  BY <1>6, <1>7, <1>8, <1>10 DEF PaidInv

\* Every step pays what is owed and no more.
LEMMA PaidStep == PaidInv /\ Tiled /\ OutcomeInv /\ [Next]_vars => PaidInv'
<1>1. SUFFICES ASSUME PaidInv, Tiled, OutcomeInv, [Next]_vars PROVE PaidInv'
  OBVIOUS
<1>2. CASE UNCHANGED payVars
  BY <1>1, <1>2, PaidAside, Zenon
<1>3. ASSUME NEW c \in Contributors, UNCHANGED <<kind, auctionVars, buying>>,
             (\E amount \in Amounts : Contributes(c, amount)) \/ BurnAny(c) \/ Claim(c)
      PROVE  PaidInv'
  <2>1. CASE \E amount \in Amounts : Contributes(c, amount)
    BY <1>1, <2>1, PaidOnContribution
  <2>2. CASE BurnAny(c)
    BY <1>1, <1>3, <2>2, PaidOnBurn
  <2>3. CASE Claim(c)
    BY <1>1, <1>3, <2>3, PaidOnClaim
  <2>4. QED
    BY <1>3, <2>1, <2>2, <2>3
<1>4. QED
  BY <1>1, <1>2, <1>3, PaymentsStay

\* Whoever has burned got its refund and its power once, or can claim them; who has not
\* got neither.
THEOREM OwedIsPaid == Spec => []PaidWhatIsOwed
<1>1. PaidInv => PaidWhatIsOwed
  BY DEF PaidInv, PaidTo, Done, PaidWhatIsOwed
<1>2. QED
  BY <1>1, Start, Step, TiledAtStart, TiledStep, PaidAtStart, PaidStep, PTL DEF Spec

----------------------------------------------------------------------------
(* The market                                                              *)

MarketTypes ==
  /\ kind \in Kinds
  /\ bidStatus \in {"Active", "Busy", "Finalized"}
  /\ auctionId \in Tokens \cup {0}
  /\ maximumBid \in Nat
  /\ auctions \in [Tokens -> [bidder : {"none", "us", "other"}, amount : Nat, over : BOOLEAN]]
  /\ call \in [op : {"none", "bid", "finalize"}, lastBid : Nat,
               lc : {"none", "Active", "Expired"}]
  /\ place \in [Tokens -> {"market", "us", "other", "party"}]
  /\ buying \in [under : BOOLEAN, left : SUBSET Tokens, bought : SUBSET Tokens, spent : Nat,
                 min : Nat, all : BOOLEAN]

\* The crowdfund's only bid is the price, in its only auction, and that the market
\* settled the auction cannot escape finalize().
OurBid(t) ==
  auctions[t].bidder = "us" =>
    /\ IsAuction /\ t = auctionId
    /\ price = auctions[t].amount /\ price # 0
    /\ bidStatus # "Finalized" => place[t] \in {"market", "us"}
    /\ call.op = "finalize" => place[t] = "us"

\* Bidding, the crowdfund has no bid yet, and the NFT stays in the market.
Bidding ==
  call.op = "bid" =>
    /\ place[auctionId] = "market"
    /\ auctions[auctionId].bidder # "us"
    /\ price # 0

MarketInv ==
  /\ MarketTypes
  /\ \A t \in Tokens : OurBid(t) /\ (auctions[t].over => auctions[t].bidder # "none")
  /\ Bidding

\* A crowdfund that was just created has not bid.
LEMMA MarketAtStart == Init => MarketInv
<1> SUFFICES ASSUME Init PROVE MarketInv
  OBVIOUS
<1>1. /\ kind \in Kinds
      /\ bidStatus = "Active"
      /\ auctions = [t \in Tokens |-> NoBid] /\ call = NoCall
      /\ place = [t \in Tokens |-> "market"] /\ buying = NotBuying
  BY DEF Init, BaseInit, AuctionInit, NoAuction
<1>2. auctionId \in Tokens \cup {0} /\ maximumBid \in Nat
  BY AuctionAssumption DEF Init, AuctionInit, NoAuction
<1>3. MarketTypes
  BY <1>1, <1>2 DEF MarketTypes, NoBid, NoCall, NotBuying
<1>4. \A t \in Tokens : auctions[t].bidder = "none" /\ ~auctions[t].over
  BY <1>1 DEF NoBid
<1>5. QED
  BY <1>1, <1>3, <1>4 DEF MarketInv, OurBid, Bidding, NoCall

\* Who contributes, burns, claims or gives ETH does not touch the market.
LEMMA MarketAside ==
  ASSUME MarketInv, UNCHANGED <<kind, auctionVars, buying, place, price>>
  PROVE  MarketInv'
BY DEF MarketInv, MarketTypes, OurBid, Bidding, IsAuction, auctionVars

\* bid() bids in its auction.
LEMMA MarketOnBid ==
  ASSUME MarketInv, OutcomeInv, IsAuction, UNCHANGED buying,
         (\E amount \in Bids : BidBegin(amount)) \/ BidEnd
  PROVE  MarketInv'
<1>1. ASSUME NEW amount \in Bids, BidBegin(amount) PROVE MarketInv'
  <2>1. /\ UNCHANGED <<kind, auctionId, maximumBid, auctions, place>>
        /\ bidStatus' = "Busy" /\ price' = amount /\ amount \in Nat /\ amount # 0
        /\ call' = [NoCall EXCEPT !.op = "bid"]
        /\ place[auctionId] = "market" /\ auctions[auctionId].bidder # "us"
    BY <1>1, AuctionAssumption DEF BidBegin
  <2>2. call' = [op |-> "bid", lastBid |-> 0, lc |-> "none"]
    BY <2>1 DEF NoCall
  <2>3. MarketTypes'
    <3>1. call' \in [op : {"none", "bid", "finalize"}, lastBid : Nat,
                     lc : {"none", "Active", "Expired"}]
      BY <2>2
    <3>2. UNCHANGED <<kind, auctionId, maximumBid, auctions, place, buying>> /\ bidStatus' = "Busy"
      BY <2>1
    <3>3. QED
      BY <3>1, <3>2 DEF MarketInv, MarketTypes
  <2>4. \A t \in Tokens : auctions[t].bidder # "us"
    BY <2>1 DEF MarketInv, OurBid
  <2>5. QED
    BY <2>1, <2>2, <2>3, <2>4 DEF MarketInv, OurBid, Bidding, IsAuction
<1>2. ASSUME BidEnd PROVE MarketInv'
  <2>1. /\ UNCHANGED <<kind, auctionId, maximumBid, place, price>>
        /\ bidStatus' = "Active" /\ call' = NoCall
        /\ auctions' = [auctions EXCEPT ![auctionId] =
                          [@ EXCEPT !.bidder = "us", !.amount = price]]
        /\ place[auctionId] = "market" /\ auctions[auctionId].bidder # "us" /\ price # 0
    BY <1>2 DEF BidEnd, baseVars, MarketInv, Bidding
  <2>2. /\ auctionId \in Tokens /\ price \in Nat
        /\ auctions \in [Tokens -> [bidder : {"none", "us", "other"}, amount : Nat,
                                    over : BOOLEAN]]
    BY DEF OutcomeInv, Numbers, MarketInv, MarketTypes
  <2>3. PICK bid : bid = [auctions[auctionId] EXCEPT !.bidder = "us", !.amount = price]
    OBVIOUS
  <2>4. /\ bid \in [bidder : {"none", "us", "other"}, amount : Nat, over : BOOLEAN]
        /\ bid.bidder = "us" /\ bid.amount = price
    BY <2>2, <2>3
  <2>5. auctions' = [auctions EXCEPT ![auctionId] = bid]
    BY <2>1, <2>3
  <2>6. MarketTypes'
    BY <2>1, <2>2, <2>4, <2>5 DEF MarketInv, MarketTypes, NoCall
  <2>7. /\ auctions'[auctionId] = bid
        /\ \A t \in Tokens \ {auctionId} : auctions'[t] = auctions[t]
    BY <2>2, <2>5
  <2>8. \A t \in Tokens : OurBid(t)' /\ (auctions'[t].over => auctions'[t].bidder # "none")
    <3>1. ASSUME NEW t \in Tokens
          PROVE  OurBid(t)' /\ (auctions'[t].over => auctions'[t].bidder # "none")
      <4>1. CASE t = auctionId
        BY <2>1, <2>4, <2>7, <4>1 DEF OurBid, IsAuction, NoCall
      <4>2. CASE t # auctionId
        BY <2>7, <4>2 DEF MarketInv, OurBid
      <4>3. QED
        BY <4>1, <4>2
    <3>2. QED
      BY <3>1
  <2>9. QED
    BY <2>1, <2>6, <2>8 DEF MarketInv, Bidding, NoCall
<1>3. QED
  BY <1>1, <1>2

\* finalize() settles an auction the crowdfund leads, so it is lost or rolled over only
\* without a bid.
LEMMA MarketOnFinalize ==
  ASSUME MarketInv, OutcomeInv, IsAuction, UNCHANGED buying, FinalizeBegin \/ FinalizeEnd
  PROVE  MarketInv'
<1>0. auctionId \in Tokens /\ price \in Nat
  BY DEF OutcomeInv, Numbers
<1>1. ASSUME FinalizeBegin PROVE MarketInv'
  <2>1. /\ UNCHANGED <<kind, auctionId, maximumBid, auctions, price>>
        /\ bidStatus' = "Busy"
        /\ call' = [op |-> "finalize", lastBid |-> price, lc |-> AuctionLifecycle]
        /\ AuctionLifecycle \in {"Active", "Expired"}
        /\ Settles => auctions[auctionId].over
        /\ place' = IF Settles THEN Settled(auctionId) ELSE place
    BY <1>1 DEF FinalizeBegin
  <2>2. place' \in [Tokens -> {"market", "us", "other", "party"}]
    <3>1. CASE Settles
      <4>1. auctions[auctionId].bidder \in {"us", "other"}
        BY <1>0, <2>1, <3>1 DEF MarketInv, MarketTypes
      <4>2. QED
        BY <2>1, <3>1, <4>1 DEF Settled, MarketInv, MarketTypes
    <3>2. CASE ~Settles
      BY <2>1, <3>2 DEF MarketInv, MarketTypes
    <3>3. QED
      BY <3>1, <3>2
  <2>3. MarketTypes'
    BY <1>0, <2>1, <2>2 DEF MarketInv, MarketTypes
  <2>4. bidStatus = "Active"
    BY <2>1 DEF AuctionLifecycle, MarketInv, MarketTypes
  <2>5. auctions[auctionId].bidder = "us" => place'[auctionId] = "us"
    <3>1. SUFFICES ASSUME auctions[auctionId].bidder = "us" PROVE place'[auctionId] = "us"
      OBVIOUS
    <3>2. price # 0 /\ place[auctionId] \in {"market", "us"}
      BY <1>0, <2>4, <3>1 DEF MarketInv, OurBid
    <3>3. CASE place[auctionId] = "market"
      <4>1. Settles
        BY <3>1, <3>2, <3>3 DEF Settles
      <4>2. QED
        BY <1>0, <2>1, <3>1, <4>1 DEF Settled, MarketInv, MarketTypes
    <3>4. CASE place[auctionId] = "us"
      <4>1. ~Settles
        BY <3>4 DEF Settles
      <4>2. QED
        BY <2>1, <3>4, <4>1
    <3>5. QED
      BY <3>2, <3>3, <3>4
  <2>6. \A t \in Tokens : OurBid(t)'
    BY <2>1, <2>5 DEF MarketInv, OurBid, IsAuction
  <2>7. QED
    BY <2>1, <2>3, <2>6 DEF MarketInv, Bidding
<1>2. call.op = "finalize" /\ ~Wins(call.lastBid) => \A t \in Tokens : auctions[t].bidder # "us"
  BY DEF Wins, OutcomeInv, CallInv, MarketInv, OurBid
<1>3. ASSUME FinalizeWon PROVE MarketInv'
  <2>1. /\ UNCHANGED <<kind, auctionId, maximumBid, auctions, price>>
        /\ bidStatus' = "Finalized" /\ call' = NoCall
        /\ place' = [t \in Tokens |-> IF t \in {auctionId} THEN "party" ELSE place[t]]
    BY <1>3 DEF FinalizeWon, PartyCreated
  <2>2. MarketTypes'
    BY <2>1 DEF MarketInv, MarketTypes, NoCall
  <2>3. \A t \in Tokens : OurBid(t)'
    BY <2>1 DEF MarketInv, OurBid, IsAuction, NoCall
  <2>4. QED
    BY <2>1, <2>2, <2>3 DEF MarketInv, Bidding, NoCall
<1>4. ASSUME FinalizeLost PROVE MarketInv'
  <2>1. /\ UNCHANGED <<kind, auctionId, maximumBid, auctions, place>>
        /\ bidStatus' = "Finalized" /\ call' = NoCall
        /\ \A t \in Tokens : auctions[t].bidder # "us"
    BY <1>2, <1>4 DEF FinalizeLost
  <2>2. MarketTypes'
    BY <2>1 DEF MarketInv, MarketTypes, NoCall
  <2>3. QED
    BY <2>1, <2>2 DEF MarketInv, OurBid, Bidding, NoCall
<1>5. ASSUME NEW t \in Tokens, NEW m \in MaximumBids, RollOver(t, m) PROVE MarketInv'
  <2>1. /\ UNCHANGED <<kind, auctions, place>>
        /\ auctionId' = t /\ maximumBid' = m /\ m \in Nat
        /\ bidStatus' = "Active" /\ call' = NoCall
        /\ \A u \in Tokens : auctions[u].bidder # "us"
    BY <1>2, <1>5, AuctionAssumption DEF RollOver
  <2>2. MarketTypes'
    BY <2>1 DEF MarketInv, MarketTypes, NoCall
  <2>3. QED
    BY <2>1, <2>2 DEF MarketInv, OurBid, Bidding, NoCall
<1>6. QED
  BY <1>1, <1>3, <1>4, <1>5 DEF FinalizeEnd

\* The market gives an NFT it has to the highest bidder.
LEMMA MarketOnOthers ==
  ASSUME MarketInv, UNCHANGED buying, NEW t \in Tokens,
         \/ \E amount \in OthersBids : OtherBids(t, amount)
         \/ AuctionOver(t) \/ MarketSettles(t) \/ Gift(t)
  PROVE  MarketInv'
<1>1. Others(t) /\ UNCHANGED <<kind, price, bidStatus, auctionId, maximumBid, call>>
  BY DEF OtherBids, AuctionOver, MarketSettles, Gift, Others
<1>2. call.op = "none"
  BY <1>1 DEF Others, NoCall
<1>3. /\ auctions \in [Tokens -> [bidder : {"none", "us", "other"}, amount : Nat,
                                  over : BOOLEAN]]
      /\ place \in [Tokens -> {"market", "us", "other", "party"}]
  BY DEF MarketInv, MarketTypes
<1>4. ASSUME NEW amount \in OthersBids, OtherBids(t, amount) PROVE MarketInv'
  <2>1. /\ place' = place /\ amount \in Nat
        /\ auctions' = [auctions EXCEPT ![t] = [@ EXCEPT !.bidder = "other", !.amount = amount]]
    BY <1>4, AuctionAssumption DEF OtherBids
  <2>2. PICK bid : bid = [auctions[t] EXCEPT !.bidder = "other", !.amount = amount]
    OBVIOUS
  <2>3. /\ bid \in [bidder : {"none", "us", "other"}, amount : Nat, over : BOOLEAN]
        /\ bid.bidder = "other"
    BY <1>3, <2>1, <2>2
  <2>4. auctions' = [auctions EXCEPT ![t] = bid]
    BY <2>1, <2>2
  <2>5. auctions'[t] = bid /\ \A u \in Tokens \ {t} : auctions'[u] = auctions[u]
    BY <1>3, <2>4
  <2>6. MarketTypes'
    BY <1>1, <1>3, <2>1, <2>3, <2>4 DEF MarketInv, MarketTypes
  <2>7. QED
    BY <1>1, <1>2, <2>1, <2>3, <2>5, <2>6 DEF MarketInv, OurBid, Bidding, IsAuction
<1>5. ASSUME AuctionOver(t) PROVE MarketInv'
  <2>1. /\ place' = place /\ auctions[t].bidder # "none"
        /\ auctions' = [auctions EXCEPT ![t].over = TRUE]
    BY <1>5 DEF AuctionOver
  <2>2. /\ auctions' \in [Tokens -> [bidder : {"none", "us", "other"}, amount : Nat,
                                     over : BOOLEAN]]
        /\ \A u \in Tokens : auctions'[u].bidder = auctions[u].bidder
                             /\ auctions'[u].amount = auctions[u].amount
        /\ \A u \in Tokens \ {t} : auctions'[u] = auctions[u]
    BY <1>3, <2>1
  <2>3. MarketTypes'
    BY <1>1, <1>3, <2>1, <2>2 DEF MarketInv, MarketTypes
  <2>4. QED
    BY <1>1, <1>2, <2>1, <2>2, <2>3 DEF MarketInv, OurBid, Bidding, IsAuction
<1>6. ASSUME MarketSettles(t) PROVE MarketInv'
  <2>1. /\ auctions' = auctions /\ auctions[t].over
        /\ place' = [place EXCEPT ![t] = auctions[t].bidder]
    BY <1>6 DEF MarketSettles, Settled
  <2>2. auctions[t].bidder \in {"us", "other"}
    BY <1>3, <2>1 DEF MarketInv
  <2>3. /\ place' \in [Tokens -> {"market", "us", "other", "party"}]
        /\ place'[t] = auctions[t].bidder /\ \A u \in Tokens \ {t} : place'[u] = place[u]
    BY <1>3, <2>1, <2>2
  <2>4. MarketTypes'
    BY <1>1, <1>3, <2>1, <2>3 DEF MarketInv, MarketTypes
  <2>5. QED
    BY <1>1, <1>2, <2>1, <2>3, <2>4 DEF MarketInv, OurBid, Bidding, IsAuction
<1>7. ASSUME Gift(t) PROVE MarketInv'
  <2>1. auctions' = auctions /\ place' = [place EXCEPT ![t] = "us"]
    BY <1>7 DEF Gift
  <2>2. /\ place' \in [Tokens -> {"market", "us", "other", "party"}]
        /\ place'[t] = "us" /\ \A u \in Tokens \ {t} : place'[u] = place[u]
    BY <1>3, <2>1
  <2>3. MarketTypes'
    BY <1>1, <1>3, <2>1, <2>2 DEF MarketInv, MarketTypes
  <2>4. QED
    BY <1>1, <1>2, <2>1, <2>2, <2>3 DEF MarketInv, OurBid, Bidding, IsAuction
<1>8. QED
  BY <1>4, <1>5, <1>6, <1>7


\* Whoever buys does not bid.
LEMMA MarketOnBuying ==
  ASSUME MarketInv, OutcomeInv, ~IsAuction, BuyNext(kind = "batch"),
         UNCHANGED <<kind, auctionVars>>
  PROVE  MarketInv'
<1> DEFINE Buyings == [under : BOOLEAN, left : SUBSET Tokens, bought : SUBSET Tokens,
                       spent : Nat, min : Nat, all : BOOLEAN]
<1>1. /\ UNCHANGED <<bidStatus, auctionId, maximumBid, auctions, call>>
      /\ \A t \in Tokens : auctions[t].bidder # "us"
      /\ call.op = "none"
  BY DEF auctionVars, MarketInv, OurBid, OutcomeInv, CallInv, IsAuction
<1>2. /\ place \in [Tokens -> {"market", "us", "other", "party"}]
      /\ buying \in Buyings
  BY DEF MarketInv, MarketTypes
<1>3. ASSUME /\ place' \in [Tokens -> {"market", "us", "other", "party"}]
             /\ buying' \in Buyings
      PROVE  MarketInv'
  <2>1. MarketTypes'
    BY <1>1, <1>3 DEF MarketInv, MarketTypes
  <2>2. QED
    BY <1>1, <2>1 DEF MarketInv, OurBid, Bidding
<1>4. ASSUME NEW S \in SUBSET Tokens, NEW min \in 1 .. Cardinality(Tokens),
             BuyBegin(kind = "batch", S, min)
      PROVE  MarketInv'
  <2>1. min \in Nat
    <3>1. Cardinality(Tokens) \in Nat
      BY CrowdfundAssumption, FS_CardinalityType
    <3>2. QED
      BY <3>1
  <2>2. place' = place
        /\ buying' = [NotBuying EXCEPT !.under = TRUE, !.left = S, !.min = min,
                                       !.all = min >= Cardinality(S)]
    BY <1>4 DEF BuyBegin
  <2>3. PICK all \in BOOLEAN : all = (min >= Cardinality(S))
    <3>1. Cardinality(S) \in Nat
      BY CrowdfundAssumption, FS_Subset, FS_CardinalityType
    <3>2. (min >= Cardinality(S)) \in BOOLEAN
      BY <2>1, <3>1
    <3>3. QED
      BY <3>2
  <2>4. buying' = [under |-> TRUE, left |-> S, bought |-> {}, spent |-> 0, min |-> min,
                   all |-> all]
    BY <2>2, <2>3 DEF NotBuying
  <2>5. buying' \in Buyings
    BY <2>1, <2>4
  <2>6. QED
    BY <1>2, <1>3, <2>2, <2>5
<1>5. ASSUME NEW t \in Tokens, NEW amount \in Prices, BuyStep(kind = "batch", t, amount)
      PROVE  MarketInv'
  <2>1. /\ amount \in Nat
        /\ place' = [place EXCEPT ![t] = "us"]
        /\ buying' = [buying EXCEPT !.left = @ \ {t}, !.bought = @ \cup {t}, !.spent = @ + amount]
    BY <1>5, BuyAssumption DEF BuyStep
  <2>2. buying.left \ {t} \in SUBSET Tokens /\ buying.bought \cup {t} \in SUBSET Tokens
        /\ buying.spent + amount \in Nat
    BY <1>2, <2>1
  <2>3. buying' \in Buyings
    BY <1>2, <2>1, <2>2
  <2>4. place' \in [Tokens -> {"market", "us", "other", "party"}]
    BY <1>2, <2>1
  <2>5. QED
    BY <1>3, <2>3, <2>4
<1>6. ASSUME NEW t \in Tokens, BuySkip(t) PROVE MarketInv'
  <2>1. place' = place /\ buying' = [buying EXCEPT !.left = @ \ {t}]
    BY <1>6 DEF BuySkip
  <2>2. buying' \in Buyings
    BY <1>2, <2>1
  <2>3. QED
    BY <1>2, <1>3, <2>1, <2>2
<1>7. ASSUME NEW t \in Tokens, OwnerGives(t) PROVE MarketInv'
  <2>1. buying' = buying /\ place' = [place EXCEPT ![t] = "us"]
    BY <1>7 DEF OwnerGives
  <2>2. QED
    BY <1>2, <1>3, <2>1
<1>8. ASSUME BuyEnd PROVE MarketInv'
  <2>1. /\ buying' = NotBuying
        /\ \/ place' = place
           \/ place' = [t \in Tokens |-> IF t \in buying.bought THEN "party" ELSE place[t]]
    BY <1>8 DEF BuyEnd, BuyWon, BuyFree, PartyCreated
  <2>2. buying' \in Buyings
    BY <2>1 DEF NotBuying
  <2>3. place' \in [Tokens -> {"market", "us", "other", "party"}]
    BY <1>2, <2>1
  <2>4. QED
    BY <1>3, <2>2, <2>3
<1>9. QED
  BY <1>4, <1>5, <1>6, <1>7, <1>8 DEF BuyNext

\* Every step keeps what the crowdfund has with the market.
LEMMA MarketHolds == MarketInv /\ OutcomeInv /\ [Next]_vars => MarketInv'
<1> SUFFICES ASSUME MarketInv, OutcomeInv, [Next]_vars PROVE MarketInv'
  OBVIOUS
<1>1. CASE UNCHANGED <<kind, auctionVars, buying, place, price>>
  BY <1>1, MarketAside
<1>2. ASSUME NEW c \in Contributors, Member(c) PROVE UNCHANGED <<place, price>>
  BY <1>2 DEF Member, OnlyDelegates, Contribute, BurnAny, Burn, Claim
<1>3. ASSUME (\E amount \in Amounts : Surplus(amount)) \/ BaseTick PROVE UNCHANGED <<place, price>>
  BY <1>3 DEF Surplus, BaseTick
<1>4. CASE UNCHANGED vars
  BY <1>1, <1>4 DEF vars, baseVars
<1>5. CASE AuctionNext /\ UNCHANGED buying
  BY <1>5, MarketOnBid, MarketOnFinalize, MarketOnOthers DEF AuctionNext
<1>6. CASE ~IsAuction /\ BuyNext(kind = "batch") /\ UNCHANGED <<kind, auctionVars>>
  BY <1>6, MarketOnBuying
<1>7. QED
  BY <1>1, <1>2, <1>3, <1>4, <1>5, <1>6 DEF Next, Tick

----------------------------------------------------------------------------
(* The values of the variables                                             *)

\* What no other invariant says the values of.
RestTypes ==
  /\ delegationsByContributor \in [Contributors -> Delegates \cup {None}]
  /\ partyDelegate \in [Contributors \cup {Self} -> Contributors \cup {None}]
  /\ stray \in Nat
  /\ balance \in Nat

\* A crowdfund starts without ETH and delegates.
LEMMA RestAtStart == Init => RestTypes
BY DEF Init, BaseInit, RestTypes

\* What keeps the ETH and the delegates.
LEMMA RestAside ==
  ASSUME RestTypes,
         UNCHANGED <<delegationsByContributor, partyDelegate, stray>>, balance' \in Nat
  PROVE  RestTypes'
BY DEF RestTypes

\* Whoever votes for somebody is a contributor, and no card gives two delegates.
LEMMA JoinedType ==
  ASSUME RestTypes, NEW owner \in Contributors \cup {Self}, NEW d \in Contributors
  PROVE  Joined(owner, d) \in [Contributors \cup {Self} -> Contributors \cup {None}]
BY DEF Joined, RestTypes

\* Contributors choose delegates, and never take more ETH than there is.
LEMMA RestOnMember ==
  ASSUME RestTypes, Tiled, OutcomeInv, PaidInv, NEW c \in Contributors, Member(c)
  PROVE  RestTypes'
<1>1. balance \in Nat /\ stray \in Nat
  BY DEF RestTypes
<1>2. ASSUME NEW own, NEW d \in Delegates
      PROVE  Delegated(own, c, d) \in [Contributors -> Delegates \cup {None}]
  BY DEF Delegated, RestTypes
<1>3. ASSUME NEW own \in BOOLEAN, NEW d \in Delegates, OnlyDelegates(own, c, d) PROVE RestTypes'
  <2>1. /\ delegationsByContributor' = Delegated(own, c, d)
        /\ UNCHANGED <<partyDelegate, stray, balance>>
    BY <1>3 DEF OnlyDelegates, burnVars, givenVars
  <2>2. QED
    BY <1>2, <2>1 DEF RestTypes
<1>4. ASSUME NEW own \in BOOLEAN, NEW d \in Delegates, NEW amount \in Amounts,
             NEW short \in ShortBatches, Contribute(Lifecycle, own, c, d, amount, short)
      PROVE  RestTypes'
  <2>1. /\ delegationsByContributor' = Delegated(own, c, d)
        /\ UNCHANGED <<partyDelegate, stray>>
        /\ short <= amount /\ balance' = balance + (amount - short)
    BY <1>4 DEF Contribute, burnVars, givenVars
  <2>2. amount \in Nat /\ short \in Nat
    BY CrowdfundAssumption, Constants
  <2>3. balance' \in Nat
    BY <1>1, <2>1, <2>2
  <2>4. QED
    BY <1>2, <2>1, <2>3 DEF RestTypes
<1>5. ASSUME NEW received \in BOOLEAN, NEW accepted \in BOOLEAN,
             Burn(Lifecycle, c, received, accepted)
      PROVE  RestTypes'
  <2>1. PICK owed : owed = FinalContribution(c).owed
    OBVIOUS
  <2>2. owed \in Nat
    BY <2>1, FinalParts DEF OutcomeInv, Numbers
  <2>3. /\ received => owed <= balance
        /\ balance' = IF received THEN balance - owed ELSE balance
        /\ UNCHANGED <<delegationsByContributor, stray>>
        /\ CardMinted(c, accepted)
    BY <1>5, <2>1 DEF Burn
  <2>4. balance' \in Nat
    BY <1>1, <2>2, <2>3
  <2>5. PICK d \in Contributors :
          d = IF delegationsByContributor[c] = None THEN c ELSE delegationsByContributor[c]
    BY Constants DEF RestTypes
  <2>6. partyDelegate' \in {partyDelegate, Joined(c, d), Joined(Self, d)}
    BY <2>3, <2>5 DEF CardMinted
  <2>7. partyDelegate' \in [Contributors \cup {Self} -> Contributors \cup {None}]
    <3>1. /\ Joined(c, d) \in [Contributors \cup {Self} -> Contributors \cup {None}]
          /\ Joined(Self, d) \in [Contributors \cup {Self} -> Contributors \cup {None}]
      BY JoinedType
    <3>2. partyDelegate \in [Contributors \cup {Self} -> Contributors \cup {None}]
      BY DEF RestTypes
    <3>3. QED
      BY <2>6, <3>1, <3>2
  <2>8. QED
    BY <2>3, <2>4, <2>7 DEF RestTypes
<1>6. ASSUME Claim(c) PROVE RestTypes'
  <2>1. PICK kept : kept = claims[c]
    OBVIOUS
  <2>2. /\ kept.refund <= balance /\ balance' = balance - kept.refund
        /\ partyDelegate' \in {partyDelegate, Joined(c, c)}
        /\ UNCHANGED <<delegationsByContributor, stray>>
    BY <1>6, <2>1 DEF Claim, givenVars
  <2>3. kept.refund \in Nat
    BY <2>1 DEF PaidInv, PaidTypes
  <2>4. balance' \in Nat
    BY <1>1, <2>2, <2>3
  <2>5. partyDelegate' \in [Contributors \cup {Self} -> Contributors \cup {None}]
    BY <2>2, JoinedType DEF RestTypes
  <2>6. QED
    BY <2>2, <2>4, <2>5 DEF RestTypes
<1>7. QED
  BY <1>3, <1>4, <1>5, <1>6 DEF Member, BurnAny

\* Nobody takes more ETH than there is.
LEMMA RestStep ==
  RestTypes /\ MarketInv /\ PaidInv /\ Tiled /\ OutcomeInv /\ [Next]_vars => RestTypes'
<1> SUFFICES ASSUME RestTypes, MarketInv, PaidInv, Tiled, OutcomeInv, [Next]_vars
             PROVE  RestTypes'
  OBVIOUS
<1>1. balance \in Nat /\ stray \in Nat /\ now \in Nat
  BY DEF RestTypes, OutcomeInv, Numbers
<1>2. CASE \E c \in Contributors : Member(c)
  BY <1>2, RestOnMember
<1>3. CASE \E amount \in Amounts : Surplus(amount)
  <2>1. PICK amount \in Amounts : Surplus(amount)
    BY <1>3
  <2>2. /\ balance' = balance + amount /\ stray' = stray + amount
        /\ UNCHANGED <<delegationsByContributor, partyDelegate>>
    BY <2>1 DEF Surplus, burnVars
  <2>3. amount \in Nat
    BY Constants
  <2>4. balance' \in Nat /\ stray' \in Nat
    BY <1>1, <2>2, <2>3
  <2>5. QED
    BY <2>2, <2>4 DEF RestTypes
<1>4. CASE BaseTick \/ UNCHANGED vars
  BY <1>1, <1>4, RestAside DEF BaseTick, vars, baseVars, burnVars, givenVars
<1>5. CASE IsAuction /\ ((\E amount \in Bids : BidBegin(amount)) \/ BidEnd \/ FinalizeBegin
                         \/ FinalizeEnd)
  <2>1. ASSUME NEW amount \in Bids, BidBegin(amount) PROVE RestTypes'
    <3>1. /\ amount \in Nat /\ amount <= balance /\ balance' = balance - amount
          /\ UNCHANGED <<delegationsByContributor, partyDelegate, stray>>
      BY <2>1, AuctionAssumption DEF BidBegin, burnVars, givenVars
    <3>2. balance' \in Nat
      BY <1>1, <3>1
    <3>3. QED
      BY <3>1, <3>2, RestAside
  <2>2. ASSUME BidEnd \/ FinalizeBegin \/ FinalizeEnd
        PROVE  UNCHANGED <<delegationsByContributor, partyDelegate, stray, balance>>
    BY <2>2 DEF BidEnd, FinalizeBegin, FinalizeEnd, FinalizeWon, FinalizeLost, RollOver,
                burnVars, givenVars, baseVars
  <2>3. QED
    BY <1>1, <1>5, <2>1, <2>2, RestAside
<1>6. ASSUME NEW t \in Tokens,
             (\E amount \in OthersBids : OtherBids(t, amount)) \/ AuctionOver(t) \/ MarketSettles(t)
             \/ Gift(t)
      PROVE  RestTypes'
  <2>1. UNCHANGED <<delegationsByContributor, partyDelegate, stray>>
    BY <1>6 DEF OtherBids, AuctionOver, MarketSettles, Gift, Others, burnVars, givenVars
  <2>2. PICK back \in Nat : back = IF auctions[t].bidder = "us" THEN auctions[t].amount ELSE 0
    BY DEF MarketInv, MarketTypes
  <2>3. balance' = balance \/ balance' = balance + back
    BY <1>6, <2>2 DEF OtherBids, AuctionOver, MarketSettles, Gift
  <2>4. balance' \in Nat
    BY <1>1, <2>3
  <2>5. QED
    BY <2>1, <2>4, RestAside
<1>7. CASE BuyNext(kind = "batch")
  <2>1. ASSUME NEW t \in Tokens, NEW amount \in Prices, BuyStep(kind = "batch", t, amount)
        PROVE  RestTypes'
    <3>1. /\ amount \in Nat /\ amount <= balance /\ balance' = balance - amount
          /\ UNCHANGED <<delegationsByContributor, partyDelegate, stray>>
      BY <2>1, BuyAssumption DEF BuyStep, burnVars, givenVars
    <3>2. balance' \in Nat
      BY <1>1, <3>1
    <3>3. QED
      BY <3>1, <3>2, RestAside
  <2>2. ASSUME NEW t \in Tokens, BuySkip(t) PROVE RestTypes'
    <3>1. /\ balance' = balance - 0
          /\ UNCHANGED <<delegationsByContributor, partyDelegate, stray>>
      BY <2>2 DEF BuySkip, SkipSpends, burnVars, givenVars
    <3>2. QED
      BY <1>1, <3>1, RestAside
  <2>3. ASSUME \/ \E S, min : BuyBegin(kind = "batch", S, min)
               \/ \E t \in Tokens : OwnerGives(t)
               \/ BuyEnd
        PROVE  UNCHANGED <<delegationsByContributor, partyDelegate, stray, balance>>
    BY <2>3 DEF BuyBegin, OwnerGives, BuyEnd, burnVars, givenVars
  <2>4. QED
    BY <1>1, <1>7, <2>1, <2>2, <2>3, RestAside DEF BuyNext
<1>8. QED
  BY <1>2, <1>3, <1>4, <1>5, <1>6, <1>7 DEF Next, Tick, AuctionNext

\* The variables have the values the code's types give them.
THEOREM TypeCorrect == Spec => []TypeOK
<1>1. Tiled /\ OutcomeInv /\ PaidInv /\ MarketInv /\ RestTypes => TypeOK
  BY DEF Tiled, OutcomeInv, Numbers, PaidInv, PaidTypes, MarketInv, MarketTypes, RestTypes, TypeOK
<1>2. QED
  BY <1>1, Start, Step, TiledAtStart, TiledStep, PaidAtStart, PaidStep, MarketAtStart,
     MarketHolds, RestAtStart, RestStep, PTL DEF Spec

----------------------------------------------------------------------------
(* The price of a win                                                      *)

\* The price was bid in the auction at hand, and only the NFT of that one goes to the party.
LatestInv ==
  IsAuction =>
    /\ price # 0 /\ call.op # "bid" => /\ auctions[auctionId].bidder # "none"
                                       /\ price <= auctions[auctionId].amount
    /\ partyTotal # 0 => place[auctionId] = "party"

\* A new crowdfund has no price.
LEMMA LatestAtStart == Init => LatestInv
BY DEF Init, BaseInit, AuctionInit, NoAuction, IsAuction, LatestInv

\* What leaves the auction and the price alone.
LEMMA LatestAside ==
  ASSUME LatestInv, UNCHANGED <<kind, price, partyTotal, place, auctionId, auctions>>,
         call' = call
  PROVE  LatestInv'
BY DEF LatestInv, IsAuction

\* A bid that goes on becomes the highest of the auction with the price.
LEMMA LatestOnBid ==
  ASSUME LatestInv, OutcomeInv, TypeOK, IsAuction, (\E amount \in Bids : BidBegin(amount)) \/ BidEnd
  PROVE  LatestInv'
<1>1. bidStatus # "Finalized" /\ partyTotal = 0 /\ partyTotal' = 0
  BY DEF BidBegin, BidEnd, baseVars, AuctionLifecycle, OutcomeInv, CallInv, PriceInv, PartyBacked
<1>2. ASSUME NEW amount \in Bids, BidBegin(amount) PROVE LatestInv'
  BY <1>1, <1>2 DEF BidBegin, LatestInv
<1>3. ASSUME BidEnd PROVE LatestInv'
  <2>1. auctionId \in Tokens /\ price \in Nat
    BY DEF TypeOK, OutcomeInv, Numbers
  <2>2. /\ auctions' = [auctions EXCEPT ![auctionId] = [@ EXCEPT !.bidder = "us", !.amount = price]]
        /\ UNCHANGED <<auctionId, price>>
    BY <1>3 DEF BidEnd, baseVars, givenVars
  <2>3. auctions'[auctionId].bidder = "us" /\ auctions'[auctionId].amount = price
    BY <2>1, <2>2 DEF TypeOK
  <2>4. price <= price
    BY <2>1
  <2>5. QED
    BY <1>1, <2>2, <2>3, <2>4 DEF LatestInv
<1>4. QED
  BY <1>2, <1>3

\* finalize() wins the NFT of this auction, or gives the price up.
LEMMA LatestOnFinalize ==
  ASSUME LatestInv, OutcomeInv, TypeOK, IsAuction, FinalizeBegin \/ FinalizeEnd
  PROVE  LatestInv'
<1>1. bidStatus # "Finalized" /\ partyTotal = 0 /\ auctionId \in Tokens
  BY DEF FinalizeBegin, FinalizeEnd, FinalizeWon, FinalizeLost, RollOver, AuctionLifecycle,
         OutcomeInv, Numbers, CallInv, PriceInv, PartyBacked
<1>2. ASSUME FinalizeBegin PROVE LatestInv'
  <2>1. UNCHANGED <<kind, price, partyTotal, auctionId, auctions>> /\ call.op # "bid"
    BY <1>2 DEF FinalizeBegin, AuctionLifecycle, OutcomeInv, CallInv
  <2>2. QED
    BY <1>1, <2>1 DEF LatestInv
<1>3. ASSUME FinalizeWon PROVE LatestInv'
  <2>1. /\ UNCHANGED <<kind, price, auctionId, auctions>> /\ call.op # "bid"
        /\ place' = [t \in Tokens |-> IF t \in {auctionId} THEN "party" ELSE place[t]]
    BY <1>3 DEF FinalizeWon, PartyCreated
  <2>2. place'[auctionId] = "party"
    BY <1>1, <2>1
  <2>3. QED
    BY <2>1, <2>2 DEF LatestInv
<1>4. ASSUME FinalizeLost PROVE LatestInv'
  BY <1>1, <1>4 DEF FinalizeLost, PriceOfLoss, LatestInv
<1>5. ASSUME NEW t \in Tokens, NEW m \in MaximumBids, RollOver(t, m) PROVE LatestInv'
  BY <1>1, <1>5 DEF RollOver, PriceAfterRollOver, LatestInv
<1>6. QED
  BY <1>2, <1>3, <1>4, <1>5 DEF FinalizeEnd

\* The others only bid more, and move no NFT of a party.
LEMMA LatestOnOthers ==
  ASSUME LatestInv, OutcomeInv, TypeOK, IsAuction, NEW t \in Tokens,
         \/ \E amount \in OthersBids : OtherBids(t, amount)
         \/ AuctionOver(t) \/ MarketSettles(t) \/ Gift(t)
  PROVE  LatestInv'
<1>1. /\ UNCHANGED <<kind, price, partyTotal, auctionId, call>> /\ call.op # "bid"
      /\ auctionId \in Tokens
  <2>1. Others(t)
    BY DEF OtherBids, AuctionOver, MarketSettles, Gift
  <2>2. UNCHANGED <<kind, price, partyTotal, auctionId, call>> /\ call = NoCall
    BY <2>1 DEF Others
  <2>3. NoCall.op # "bid"
    BY DEF NoCall
  <2>4. QED
    BY <2>2, <2>3 DEF OutcomeInv, Numbers
<1>2. PICK u \in Tokens : u = auctionId
  BY <1>1
<1>3. PICK q \in Nat, r \in Nat : q = price /\ r = auctions[u].amount
  BY <1>2 DEF TypeOK
<1>4. /\ place \in [Tokens -> {"market", "us", "other", "party"}]
      /\ auctions \in [Tokens -> [bidder : {"none", "us", "other"}, amount : Nat, over : BOOLEAN]]
  BY DEF TypeOK
<1>5. ASSUME price # 0
      PROVE  auctions'[u].bidder # "none" /\ price <= auctions'[u].amount
  <2>1. auctions[u].bidder # "none" /\ q <= r
    BY <1>1, <1>2, <1>3, <1>5 DEF LatestInv
  <2>2. ASSUME NEW amount \in OthersBids, OtherBids(t, amount), t = u
        PROVE  auctions'[u].bidder = "other" /\ auctions'[u].amount = amount /\ q <= amount
    <3>1. amount \in Nat /\ amount >= r + 1
      BY <1>3, <2>1, <2>2, AuctionAssumption DEF OtherBids, MinimumBid
    <3>2. auctions' = [auctions EXCEPT ![t] = [@ EXCEPT !.bidder = "other", !.amount = amount]]
      BY <2>2 DEF OtherBids
    <3>3. auctions'[u].bidder = "other" /\ auctions'[u].amount = amount
      BY <1>4, <2>2, <3>2
    <3>4. QED
      BY <1>3, <2>1, <3>1, <3>3
  <2>3. ASSUME NEW amount \in OthersBids, OtherBids(t, amount), t # u
        PROVE  auctions'[u] = auctions[u]
    BY <1>4, <2>3 DEF OtherBids
  <2>4. ASSUME AuctionOver(t) \/ MarketSettles(t) \/ Gift(t)
        PROVE  auctions'[u].bidder = auctions[u].bidder /\ auctions'[u].amount = auctions[u].amount
    BY <1>4, <2>4 DEF AuctionOver, MarketSettles, Gift
  <2>5. QED
    BY <1>3, <2>1, <2>2, <2>3, <2>4
<1>6. ASSUME partyTotal # 0 PROVE place'[u] = "party"
  <2>1. place[u] = "party"
    BY <1>2, <1>6 DEF LatestInv
  <2>2. place'[u] = place[u]
    BY <1>4, <2>1 DEF OtherBids, AuctionOver, MarketSettles, Gift, Settled
  <2>3. QED
    BY <2>1, <2>2
<1>7. QED
  BY <1>1, <1>2, <1>5, <1>6 DEF LatestInv

\* Every step keeps the price that of the auction at hand.
LEMMA LatestStep == LatestInv /\ OutcomeInv /\ TypeOK /\ [Next]_vars => LatestInv'
<1> SUFFICES ASSUME LatestInv, OutcomeInv, TypeOK, [Next]_vars PROVE LatestInv'
  OBVIOUS
<1>1. CASE UNCHANGED <<kind, auctionVars, price, partyTotal, place>>
  BY <1>1, LatestAside DEF auctionVars
<1>2. ASSUME NEW c \in Contributors, Member(c) PROVE UNCHANGED <<price, partyTotal, place>>
  BY <1>2 DEF Member, OnlyDelegates, Contribute, BurnAny, Burn, Claim, givenVars
<1>3. ASSUME (\E amount \in Amounts : Surplus(amount)) \/ BaseTick
      PROVE  UNCHANGED <<price, partyTotal, place>>
  BY <1>3 DEF Surplus, BaseTick, givenVars
<1>4. CASE UNCHANGED vars
  BY <1>1, <1>4 DEF vars, baseVars
<1>5. CASE IsAuction /\ AuctionNext
  BY <1>5, LatestOnBid, LatestOnFinalize, LatestOnOthers DEF AuctionNext
<1>6. CASE ~IsAuction /\ AuctionNext
  BY <1>6 DEF AuctionNext, OtherBids, AuctionOver, MarketSettles, Gift, Others
<1>7. CASE ~IsAuction /\ UNCHANGED kind
  BY <1>7 DEF LatestInv, IsAuction
<1>8. QED
  BY <1>1, <1>2, <1>3, <1>4, <1>5, <1>6, <1>7 DEF Next, Tick

\* The invariants of the outcome and of the price make a win.
LEMMA WinNow == OutcomeInv /\ LatestInv => WonHoldsNft
<1> SUFFICES ASSUME OutcomeInv, LatestInv PROVE WonHoldsNft
  OBVIOUS
<1>1. /\ Lifecycle = "Won" => /\ \E t \in Tokens : place[t] = "party"
                             /\ price = partyTotal /\ price <= totalContributions
                             /\ partyTotal # 0
      /\ Lifecycle = "Lost" => price = 0 /\ partyTotal = 0
  BY DEF OutcomeInv, Numbers, BuyingInv, PriceInv, PartyBacked, Lifecycle, AuctionLifecycle,
         BuyLifecycle
<1>2. ASSUME Lifecycle = "Won", IsAuction
      PROVE  place[auctionId] = "party" /\ price <= auctions[auctionId].amount
  <2>1. call.op # "bid"
    BY <1>2 DEF Lifecycle, AuctionLifecycle, OutcomeInv, CallInv
  <2>2. QED
    BY <1>1, <1>2, <2>1 DEF LatestInv
<1>3. QED
  BY <1>1, <1>2 DEF WonHoldsNft

\* A crowdfund has won exactly if there is a party, which then holds an NFT and has the
\* price, paid from the contributions, as its total.  In an auction that NFT is the one of
\* the last auction, and the price was bid in it: no bid of an earlier one becomes the price.
THEOREM WinIsBacked == Spec => []WonHoldsNft
<1>1. OutcomeInv /\ LatestInv => WonHoldsNft
  BY WinNow
<1>2. QED
  BY <1>1, Start, Step, LatestAtStart, LatestStep, TypeCorrect, PTL DEF Spec

----------------------------------------------------------------------------
(* The ETH of the crowdfund                                                *)

\* What the contributors got back.
Repaid == SumFunctionOnSet(got, Contributors)

\* What is with the market or went to it for good.
Out ==
  IF IsAuction
  THEN IF call.op = "bid" THEN price
       ELSE IF auctions[auctionId].bidder = "us" THEN auctions[auctionId].amount ELSE 0
  ELSE IF buying.under THEN buying.spent ELSE price

\* All ETH was contributed or is nobody's, and is still there, came back or went out.
MoneyInv == balance + (Repaid + Out) = totalContributions + stray

\* Both are amounts of ETH.
LEMMA RepaidType ==
  ASSUME PaidTypes PROVE Repaid \in Nat
<1>1. \A c \in Contributors : got[c] \in Int /\ got[c] >= 0
  BY DEF PaidTypes
<1>2. QED
  BY <1>1, SumType, Constants DEF Repaid

\* What went out is an amount.
LEMMA OutType ==
  ASSUME MarketInv, OutcomeInv PROVE Out \in Nat
<1>1. price \in Nat /\ buying.spent \in Nat /\ (IsAuction => auctionId \in Tokens)
  BY DEF OutcomeInv, Numbers
<1>2. IsAuction => auctions[auctionId].amount \in Nat
  BY <1>1 DEF MarketInv, MarketTypes
<1>3. QED
  BY <1>1, <1>2 DEF Out

\* The ETH a contributor gets is added to what came back.
LEMMA RepaidMore ==
  ASSUME PaidTypes, NEW c \in Contributors, NEW amount \in Nat,
         got' = [got EXCEPT ![c] = @ + amount]
  PROVE  Repaid' = Repaid + amount
<1>1. PICK new : new = [got EXCEPT ![c] = @ + amount]
  OBVIOUS
<1>2. got \in [Contributors -> Nat] /\ got[c] \in Nat
  BY DEF PaidTypes
<1>3. /\ new \in [Contributors -> Nat]
      /\ new[c] = got[c] + amount
      /\ \A b \in Contributors \ {c} : got[b] = new[b]
  BY <1>1, <1>2
<1>4. SumFunctionOnSet(new, Contributors)
        = SumFunctionOnSet(got, Contributors) + new[c] - got[c]
  <2>1. \A b \in Contributors : got[b] \in Int /\ new[b] \in Int
    BY <1>2, <1>3
  <2>2. QED
    BY <1>3, <2>1, SumChange, Constants
<1>5. Repaid' = SumFunctionOnSet(new, Contributors)
  <2>1. got' = new
    BY <1>1
  <2>2. QED
    BY <2>1, Zenon DEF Repaid
<1>6. PICK s \in Nat, t \in Nat, a \in Nat, b \in Nat :
        s = Repaid /\ t = new[c] /\ a = got[c] /\ b = amount
  BY <1>2, <1>3, RepaidType
<1>7. Repaid' = s + t - a /\ t = a + b
  BY <1>3, <1>4, <1>5, <1>6 DEF Repaid
<1>8. s + t - a = s + b
  BY <1>6, <1>7
<1>9. QED
  BY <1>6, <1>7, <1>8

\* No ETH is made or lost: it moves between the crowdfund, the market and whoever got it
\* back.
LEMMA MoneyMoves ==
  ASSUME MoneyInv, NEW b \in Nat, NEW r \in Nat, NEW o \in Nat, NEW t \in Nat, NEW s \in Nat,
         b = balance, r = Repaid, o = Out, t = totalContributions, s = stray
  PROVE  /\ b + (r + o) = t + s
         /\ balance' + (Repaid' + Out') = totalContributions' + stray' => MoneyInv'
BY DEF MoneyInv

\* A crowdfund starts with nothing.
LEMMA MoneyAtStart == Init => MoneyInv
<1> SUFFICES ASSUME Init PROVE MoneyInv
  OBVIOUS
<1>1. /\ got = [c \in Contributors |-> 0]
      /\ balance = 0 /\ totalContributions = 0 /\ stray = 0 /\ price = 0
      /\ auctions = [t \in Tokens |-> NoBid] /\ call = NoCall /\ buying = NotBuying
      /\ IsAuction => auctionId \in Tokens
  BY AuctionAssumption DEF Init, BaseInit, AuctionInit, NoAuction
<1>2. Repaid = 0
  <2>1. \A c \in Contributors : got[c] = 0
    BY <1>1
  <2>2. QED
    BY <2>1, SumOfZeros, Constants DEF Repaid
<1>3. Out = 0
  BY <1>1 DEF Out, NoBid, NoCall, NotBuying
<1>4. QED
  BY <1>1, <1>2, <1>3 DEF MoneyInv

\* What contributors pay in and take out.
LEMMA MoneyOnMember ==
  ASSUME ShortBatches = {0}, MoneyInv, RestTypes, MarketInv, PaidInv, Tiled, OutcomeInv,
         NEW c \in Contributors, Member(c), UNCHANGED <<kind, auctionVars, buying>>
  PROVE  MoneyInv'
<1>1. PICK b \in Nat, r \in Nat, o \in Nat, t \in Nat, s \in Nat :
        b = balance /\ r = Repaid /\ o = Out /\ t = totalContributions /\ s = stray
  BY RepaidType, OutType DEF RestTypes, PaidInv, Tiled
<1>2. /\ b + (r + o) = t + s
      /\ balance' + (Repaid' + Out') = totalContributions' + stray' => MoneyInv'
  BY <1>1, MoneyMoves
<1>3. Out' = o
  <2>1. UNCHANGED price
    BY DEF Member, OnlyDelegates, Contribute, BurnAny, Burn, Claim
  <2>2. QED
    BY <1>1, <2>1 DEF Out, IsAuction, auctionVars
<1>4. ASSUME UNCHANGED got PROVE Repaid' = r
  BY <1>1, <1>4, Zenon DEF Repaid
<1>5. ASSUME NEW own \in BOOLEAN, NEW d \in Delegates, OnlyDelegates(own, c, d) PROVE MoneyInv'
  <2>1. UNCHANGED <<balance, totalContributions, stray, got>>
    BY <1>5 DEF OnlyDelegates, burnVars, givenVars
  <2>2. QED
    BY <1>1, <1>2, <1>3, <1>4, <2>1
<1>6. ASSUME NEW own \in BOOLEAN, NEW d \in Delegates, NEW amount \in Amounts,
             NEW short \in ShortBatches, Contribute(Lifecycle, own, c, d, amount, short)
      PROVE  MoneyInv'
  <2>1. /\ balance' = balance + (amount - 0) /\ totalContributions' = totalContributions + amount
        /\ UNCHANGED <<stray, got>>
    BY <1>6 DEF Contribute, burnVars
  <2>2. amount \in Nat
    BY Constants
  <2>3. balance' = b + amount /\ totalContributions' = t + amount /\ stray' = s /\ Repaid' = r
    BY <1>1, <1>4, <2>1, <2>2
  <2>4. (b + amount) + (r + o) = (t + amount) + s
    BY <1>2, <2>2
  <2>5. QED
    BY <1>2, <1>3, <2>3, <2>4
<1>7. ASSUME NEW amount \in Nat, amount <= b, balance' = b - amount,
             got' = [got EXCEPT ![c] = @ + amount], UNCHANGED <<totalContributions, stray>>
      PROVE  MoneyInv'
  <2>1. Repaid' = r + amount
    BY <1>1, <1>7, RepaidMore DEF PaidInv
  <2>2. (b - amount) + ((r + amount) + o) = t + s
    BY <1>2, <1>7
  <2>3. QED
    BY <1>1, <1>2, <1>3, <1>7, <2>1, <2>2
<1>8. ASSUME NEW received \in BOOLEAN, NEW accepted \in BOOLEAN,
             Burn(Lifecycle, c, received, accepted)
      PROVE  MoneyInv'
  <2>1. PICK owed \in Nat : owed = FinalContribution(c).owed
    BY FinalParts DEF OutcomeInv, Numbers
  <2>2. /\ received => owed <= balance
        /\ balance' = IF received THEN balance - owed ELSE balance
        /\ got' = IF received THEN [got EXCEPT ![c] = @ + owed] ELSE got
        /\ UNCHANGED <<totalContributions, stray>>
    BY <1>8, <2>1 DEF Burn
  <2>3. CASE received
    BY <1>1, <1>7, <2>1, <2>2, <2>3
  <2>4. CASE ~received
    BY <1>1, <1>2, <1>3, <1>4, <2>2, <2>4
  <2>5. QED
    BY <2>3, <2>4
<1>9. ASSUME Claim(c) PROVE MoneyInv'
  <2>1. PICK back \in Nat : back = claims[c].refund
    BY DEF PaidInv, PaidTypes
  <2>2. /\ back <= balance /\ balance' = balance - back
        /\ got' = [got EXCEPT ![c] = @ + back]
        /\ UNCHANGED <<totalContributions, stray>>
    BY <1>9, <2>1 DEF Claim, givenVars
  <2>3. QED
    BY <1>1, <1>7, <2>1, <2>2
<1>10. QED
  BY <1>5, <1>6, <1>8, <1>9 DEF Member, BurnAny

\* A bid goes to the market, and comes back whole when somebody outbids it.
LEMMA MoneyOnAuction ==
  ASSUME MoneyInv, RestTypes, MarketInv, PaidInv, Tiled, OutcomeInv,
         AuctionNext, UNCHANGED buying
  PROVE  MoneyInv'
<1>1. PICK b \in Nat, r \in Nat, o \in Nat, t \in Nat, s \in Nat :
        b = balance /\ r = Repaid /\ o = Out /\ t = totalContributions /\ s = stray
  BY RepaidType, OutType DEF RestTypes, PaidInv, Tiled
<1>2. /\ b + (r + o) = t + s
      /\ balance' + (Repaid' + Out') = totalContributions' + stray' => MoneyInv'
  BY <1>1, MoneyMoves
<1>3. /\ UNCHANGED <<kind, totalContributions, stray, got>>
      /\ IsAuction
  BY DEF AuctionNext, BidBegin, BidEnd, FinalizeBegin, FinalizeEnd, FinalizeWon, FinalizeLost,
         RollOver, OtherBids, AuctionOver, MarketSettles, Gift, Others, burnVars, givenVars,
         baseVars
<1>4. Repaid' = r /\ totalContributions' = t /\ stray' = s /\ IsAuction'
  <2>1. Repaid' = Repaid
    BY <1>3, Zenon DEF Repaid
  <2>2. QED
    BY <1>1, <1>3, <2>1 DEF IsAuction
<1>5. auctionId \in Tokens /\ price \in Nat
  BY <1>3 DEF OutcomeInv, Numbers
<1>6. ASSUME balance' = b, Out' = o PROVE MoneyInv'
  BY <1>2, <1>4, <1>6
<1>7. ASSUME NEW amount \in Bids, BidBegin(amount) PROVE MoneyInv'
  <2>1. /\ amount \in Nat /\ amount <= b /\ balance' = b - amount
        /\ price' = amount /\ call'.op = "bid"
        /\ auctions[auctionId].bidder # "us" /\ bidStatus # "Busy"
    BY <1>1, <1>7, AuctionAssumption DEF BidBegin, NoCall, AuctionLifecycle
  <2>2. Out = 0
    BY <1>3, <2>1 DEF Out, OutcomeInv, CallInv
  <2>3. Out' = amount
    BY <1>4, <2>1 DEF Out
  <2>4. (b - amount) + (r + amount) = t + s
    BY <1>1, <1>2, <2>1, <2>2
  <2>5. QED
    BY <1>2, <1>4, <2>1, <2>3, <2>4
<1>8. ASSUME BidEnd PROVE MoneyInv'
  <2>1. /\ balance' = b /\ call.op = "bid" /\ call'.op = "none" /\ UNCHANGED <<price, auctionId>>
        /\ auctions' = [auctions EXCEPT ![auctionId] =
                          [@ EXCEPT !.bidder = "us", !.amount = price]]
    BY <1>1, <1>8 DEF BidEnd, baseVars, NoCall
  <2>2. auctions'[auctionId].bidder = "us" /\ auctions'[auctionId].amount = price
    <3>1. /\ auctions \in [Tokens -> [bidder : {"none", "us", "other"}, amount : Nat,
                                      over : BOOLEAN]]
      BY DEF MarketInv, MarketTypes
    <3>2. PICK bid : bid = [auctions[auctionId] EXCEPT !.bidder = "us", !.amount = price]
      OBVIOUS
    <3>3. bid.bidder = "us" /\ bid.amount = price
      BY <1>5, <3>1, <3>2
    <3>4. auctions'[auctionId] = bid
      BY <1>5, <2>1, <3>1, <3>2
    <3>5. QED
      BY <3>3, <3>4
  <2>3. Out' = price /\ Out = price
    BY <1>3, <1>4, <2>1, <2>2 DEF Out
  <2>4. QED
    BY <1>1, <1>6, <2>1, <2>3
<1>9. ASSUME FinalizeBegin PROVE MoneyInv'
  <2>1. /\ balance' = b /\ UNCHANGED <<price, auctionId, auctions>>
        /\ call'.op = "finalize" /\ bidStatus # "Busy"
    BY <1>1, <1>9 DEF FinalizeBegin, AuctionLifecycle
  <2>2. call.op # "bid"
    BY <2>1 DEF OutcomeInv, CallInv
  <2>3. Out' = Out
    BY <1>3, <1>4, <2>1, <2>2 DEF Out
  <2>4. QED
    BY <1>1, <1>6, <2>1, <2>3
<1>10. ASSUME FinalizeWon \/ FinalizeLost PROVE MoneyInv'
  <2>1. /\ balance' = b /\ UNCHANGED <<auctionId, auctions>>
        /\ call.op = "finalize" /\ call'.op = "none"
    BY <1>1, <1>10 DEF FinalizeWon, FinalizeLost, NoCall
  <2>2. Out' = Out
    BY <1>3, <1>4, <2>1 DEF Out
  <2>3. QED
    BY <1>1, <1>6, <2>1, <2>2
<1>11. ASSUME NEW u \in Tokens, NEW m \in MaximumBids, RollOver(u, m) PROVE MoneyInv'
  <2>1. /\ balance' = b /\ auctionId' = u /\ auctions' = auctions
        /\ call.op = "finalize" /\ call'.op = "none" /\ ~Wins(call.lastBid)
    BY <1>1, <1>11 DEF RollOver, NoCall
  <2>2. \A v \in Tokens : auctions[v].bidder # "us"
    BY <2>1 DEF Wins, OutcomeInv, CallInv, MarketInv, OurBid
  <2>3. Out' = 0 /\ Out = 0
    BY <1>3, <1>4, <1>5, <2>1, <2>2 DEF Out
  <2>4. QED
    BY <1>1, <1>6, <2>1, <2>3
<1>12. ASSUME NEW u \in Tokens, Others(u) PROVE call.op = "none" /\ call'.op = "none"
                                                /\ UNCHANGED <<price, auctionId>>
  BY <1>12 DEF Others, NoCall
<1>13. ASSUME NEW u \in Tokens, NEW amount \in OthersBids, OtherBids(u, amount) PROVE MoneyInv'
  <2>1. /\ Others(u)
        /\ auctions' = [auctions EXCEPT ![u] = [@ EXCEPT !.bidder = "other", !.amount = amount]]
        /\ balance' = b + IF auctions[u].bidder = "us" THEN auctions[u].amount ELSE 0
    BY <1>1, <1>13 DEF OtherBids
  <2>2. auctions \in [Tokens -> [bidder : {"none", "us", "other"}, amount : Nat, over : BOOLEAN]]
    BY DEF MarketInv, MarketTypes
  <2>3. /\ auctions'[u].bidder = "other"
        /\ \A v \in Tokens \ {u} : auctions'[v] = auctions[v]
    <3>1. PICK bid : bid = [auctions[u] EXCEPT !.bidder = "other", !.amount = amount]
      OBVIOUS
    <3>2. bid.bidder = "other"
      BY <2>2, <3>1
    <3>3. auctions' = [auctions EXCEPT ![u] = bid]
      BY <2>1, <3>1
    <3>4. QED
      BY <2>2, <3>2, <3>3
  <2>4. CASE auctions[u].bidder = "us"
    <3>1. u = auctionId
      BY <2>4 DEF MarketInv, OurBid
    <3>2. Out = auctions[u].amount /\ Out' = 0
      BY <1>3, <1>4, <1>12, <2>1, <2>3, <2>4, <3>1 DEF Out
    <3>3. balance' = b + o
      BY <1>1, <2>1, <2>4, <3>2
    <3>4. (b + o) + (r + 0) = t + s
      BY <1>2
    <3>5. QED
      BY <1>2, <1>4, <3>2, <3>3, <3>4
  <2>5. CASE auctions[u].bidder # "us"
    <3>1. balance' = b
      BY <2>1, <2>5
    <3>2. Out' = Out
      <4>1. CASE u = auctionId
        BY <1>3, <1>4, <1>12, <2>1, <2>3, <2>5, <4>1 DEF Out
      <4>2. CASE u # auctionId
        <5>1. auctions'[auctionId] = auctions[auctionId]
          BY <1>5, <2>3, <4>2
        <5>2. call.op = "none" /\ call'.op = "none" /\ auctionId' = auctionId
          BY <1>12, <2>1
        <5>3. QED
          BY <1>3, <1>4, <5>1, <5>2 DEF Out
      <4>3. QED
        BY <4>1, <4>2
    <3>3. QED
      BY <1>1, <1>6, <3>1, <3>2
  <2>6. QED
    BY <2>4, <2>5
<1>14. ASSUME NEW u \in Tokens, AuctionOver(u) \/ MarketSettles(u) \/ Gift(u) PROVE MoneyInv'
  <2>1. /\ Others(u) /\ balance' = b
        /\ auctions' = auctions \/ auctions' = [auctions EXCEPT ![u].over = TRUE]
    BY <1>1, <1>14 DEF AuctionOver, MarketSettles, Gift
  <2>2. auctions \in [Tokens -> [bidder : {"none", "us", "other"}, amount : Nat, over : BOOLEAN]]
    BY DEF MarketInv, MarketTypes
  <2>3. \A v \in Tokens : /\ auctions'[v].bidder = auctions[v].bidder
                          /\ auctions'[v].amount = auctions[v].amount
    BY <2>1, <2>2
  <2>4. Out' = Out
    BY <1>3, <1>4, <1>5, <1>12, <2>1, <2>3 DEF Out
  <2>5. QED
    BY <1>1, <1>6, <2>1, <2>4
<1>15. QED
  BY <1>7, <1>8, <1>9, <1>10, <1>11, <1>13, <1>14 DEF AuctionNext, FinalizeEnd

\* What is paid for an NFT is gone.
LEMMA MoneyOnBuying ==
  ASSUME MoneyInv, RestTypes, MarketInv, PaidInv, Tiled, OutcomeInv,
         ~IsAuction, BuyNext(kind = "batch"), UNCHANGED <<kind, auctionVars>>
  PROVE  MoneyInv'
<1>1. PICK b \in Nat, r \in Nat, o \in Nat, t \in Nat, s \in Nat :
        b = balance /\ r = Repaid /\ o = Out /\ t = totalContributions /\ s = stray
  BY RepaidType, OutType DEF RestTypes, PaidInv, Tiled
<1>2. /\ b + (r + o) = t + s
      /\ balance' + (Repaid' + Out') = totalContributions' + stray' => MoneyInv'
  BY <1>1, MoneyMoves
<1>3. UNCHANGED <<totalContributions, stray, got>>
  BY DEF BuyNext, BuyBegin, BuyStep, BuySkip, OwnerGives, BuyEnd, burnVars, givenVars
<1>4. Repaid' = r /\ totalContributions' = t /\ stray' = s /\ ~IsAuction'
  <2>1. Repaid' = Repaid
    BY <1>3, Zenon DEF Repaid
  <2>2. QED
    BY <1>1, <1>3, <2>1 DEF IsAuction
<1>5. ASSUME balance' = b, Out' = o PROVE MoneyInv'
  BY <1>2, <1>4, <1>5
<1>6. buying \in [under : BOOLEAN, left : SUBSET Tokens, bought : SUBSET Tokens,
                  spent : Nat, min : Nat, all : BOOLEAN]
  BY DEF MarketInv, MarketTypes
<1>7. ASSUME NEW S, NEW min, BuyBegin(kind = "batch", S, min) PROVE MoneyInv'
  <2>1. /\ balance' = b /\ price = 0
        /\ buying' = [NotBuying EXCEPT !.under = TRUE, !.left = S, !.min = min,
                                       !.all = min >= Cardinality(S)]
    BY <1>1, <1>7 DEF BuyBegin, BuyLifecycle
  <2>2. buying'.under /\ buying'.spent = 0
    BY <2>1 DEF NotBuying
  <2>3. Out = 0 /\ Out' = 0
    BY <1>4, <2>1, <2>2 DEF Out, OutcomeInv, BuyingInv
  <2>4. QED
    BY <1>1, <1>5, <2>1, <2>3
<1>8. ASSUME NEW u \in Tokens, NEW amount \in Prices, BuyStep(kind = "batch", u, amount)
      PROVE  MoneyInv'
  <2>1. /\ amount \in Nat /\ amount <= b /\ balance' = b - amount
        /\ buying.under
        /\ buying' = [buying EXCEPT !.left = @ \ {u}, !.bought = @ \cup {u}, !.spent = @ + amount]
    BY <1>1, <1>8, BuyAssumption DEF BuyStep, OutcomeInv, BuyingInv
  <2>2. buying'.under /\ buying'.spent = buying.spent + amount
    BY <1>6, <2>1
  <2>3. Out' = o + amount
    BY <1>1, <1>4, <2>1, <2>2 DEF Out
  <2>4. (b - amount) + (r + (o + amount)) = t + s
    BY <1>2, <2>1
  <2>5. QED
    BY <1>2, <1>4, <2>1, <2>3, <2>4
<1>9. ASSUME NEW u \in Tokens, BuySkip(u) \/ OwnerGives(u) PROVE MoneyInv'
  <2>1. /\ balance' = b \/ balance' = balance - 0
        /\ price' = price
        /\ buying' = buying \/ buying' = [buying EXCEPT !.left = @ \ {u}]
    BY <1>1, <1>9 DEF BuySkip, OwnerGives, SkipSpends
  <2>2. buying'.under = buying.under /\ buying'.spent = buying.spent
    BY <1>6, <2>1
  <2>3. Out' = Out
    BY <1>4, <2>1, <2>2 DEF Out
  <2>4. QED
    BY <1>1, <1>5, <2>1, <2>3
<1>10. ASSUME BuyEnd PROVE MoneyInv'
  <2>1. /\ balance' = b /\ buying.under /\ ~buying'.under
        /\ price' = buying.spent
    BY <1>1, <1>10 DEF BuyEnd, BuyWon, BuyFree, NotBuying
  <2>2. Out' = Out
    BY <1>4, <2>1 DEF Out
  <2>3. QED
    BY <1>1, <1>5, <2>1, <2>2
<1>11. QED
  BY <1>7, <1>8, <1>9, <1>10 DEF BuyNext

\* Every step keeps the ETH accounted for, if no batch credits more than it sends.
LEMMA MoneyStep ==
  ASSUME ShortBatches = {0}
  PROVE  MoneyInv /\ RestTypes /\ MarketInv /\ PaidInv /\ Tiled /\ OutcomeInv /\ [Next]_vars
           => MoneyInv'
<1> SUFFICES ASSUME MoneyInv, RestTypes, MarketInv, PaidInv, Tiled, OutcomeInv, [Next]_vars
             PROVE  MoneyInv'
  OBVIOUS
<1>1. CASE (\E c \in Contributors : Member(c)) /\ UNCHANGED <<kind, auctionVars, buying>>
  BY <1>1, MoneyOnMember
<1>2. CASE AuctionNext /\ UNCHANGED buying
  BY <1>2, MoneyOnAuction
<1>3. CASE ~IsAuction /\ BuyNext(kind = "batch") /\ UNCHANGED <<kind, auctionVars>>
  BY <1>3, MoneyOnBuying
<1>4. ASSUME UNCHANGED <<kind, auctionVars, buying, price, got>> PROVE Out' = Out /\ Repaid' = Repaid
  <2>1. Out' = Out
    BY <1>4 DEF Out, IsAuction, auctionVars
  <2>2. Repaid' = Repaid
    BY <1>4, Zenon DEF Repaid
  <2>3. QED
    BY <2>1, <2>2
<1>5. CASE (\E amount \in Amounts : Surplus(amount)) /\ UNCHANGED <<kind, auctionVars, buying>>
  <2>1. PICK amount \in Amounts : Surplus(amount)
    BY <1>5
  <2>2. /\ balance' = balance + amount /\ stray' = stray + amount
        /\ UNCHANGED <<totalContributions, price, got>>
    BY <2>1 DEF Surplus, burnVars
  <2>3. PICK b \in Nat, r \in Nat, o \in Nat, t \in Nat, s \in Nat, a \in Nat :
          /\ b = balance /\ r = Repaid /\ o = Out /\ t = totalContributions /\ s = stray
          /\ a = amount
    BY RepaidType, OutType, Constants DEF RestTypes, PaidInv, Tiled
  <2>4. (b + a) + (r + o) = t + (s + a)
    BY <2>3 DEF MoneyInv
  <2>5. QED
    BY <1>4, <1>5, <2>2, <2>3, <2>4 DEF MoneyInv
<1>6. CASE (BaseTick /\ UNCHANGED <<kind, auctionVars, buying>>) \/ UNCHANGED vars
  <2>1. UNCHANGED <<kind, auctionVars, buying, price, got, balance, stray, totalContributions>>
    BY <1>6 DEF BaseTick, vars, baseVars, burnVars, givenVars
  <2>2. QED
    BY <1>4, <2>1 DEF MoneyInv
<1>7. QED
  BY <1>1, <1>2, <1>3, <1>5, <1>6 DEF Next, Tick

\* At the end no more than the price is out.
LEMMA OutIsPrice ==
  ASSUME MarketInv, OutcomeInv, Ended PROVE Out <= price
<1>1. price \in Nat
  BY DEF OutcomeInv, Numbers
<1>2. CASE IsAuction
  <2>1. bidStatus = "Finalized"
    BY <1>2 DEF Ended, Lifecycle, AuctionLifecycle
  <2>2. call.op # "bid"
    BY <2>1 DEF OutcomeInv, CallInv
  <2>3. auctionId \in Tokens
    BY <1>2 DEF OutcomeInv, Numbers
  <2>4. auctions[auctionId].bidder = "us" => price = auctions[auctionId].amount
    BY <2>3 DEF MarketInv, OurBid
  <2>5. QED
    BY <1>1, <1>2, <2>2, <2>4 DEF Out
<1>3. CASE ~IsAuction
  <2>1. ~buying.under
    BY <1>3 DEF Ended, Lifecycle, BuyLifecycle, OutcomeInv, BuyingInv
  <2>2. QED
    BY <1>1, <1>3, <2>1 DEF Out
<1>4. QED
  BY <1>2, <1>3

\* What c is owed back.
Owed(c) == FinalContribution(c).owed

AllOwed == SumFunctionOnSet([c \in Contributors |-> Owed(c)], Contributors)

\* What is above the price is owed back.
LEMMA AllOwedIs ==
  ASSUME Tiled, price \in Nat, price <= totalContributions
  PROVE  AllOwed \in Nat /\ AllOwed + price = totalContributions
<1> DEFINE f == [c \in Contributors |-> Owed(c)]
           g == [c \in Contributors |-> FinalContribution(c).used]
           h == [c \in Contributors |-> Used(contributions[c], totalContributions)]
<1>1. \A c \in Contributors : Owed(c) \in Nat /\ FinalContribution(c).used \in Nat
  BY FinalParts DEF Owed
<1>2. ASSUME NEW c \in Contributors
      PROVE  Used(contributions[c], totalContributions) = Owed(c) + FinalContribution(c).used
  <2>1. PICK t \in Nat : t = totalContributions
    BY DEF Tiled
  <2>2. contributions[c] \in Seq(Entries) /\ Sorted(contributions[c], t)
    BY <2>1 DEF Tiled
  <2>3. Used(contributions[c], t) = Total(contributions[c])
    BY <2>2, BeyondTheEnd
  <2>4. /\ FinalContribution(c).used + FinalContribution(c).owed = Total(contributions[c])
        /\ FinalContribution(c).used \in Nat /\ FinalContribution(c).owed \in Nat
    BY FinalParts
  <2>5. FinalContribution(c).owed + FinalContribution(c).used = Total(contributions[c])
    BY <2>4
  <2>6. QED
    BY <2>1, <2>3, <2>5 DEF Owed
<1>3. \A c \in Contributors : f[c] \in Int /\ f[c] >= 0 /\ g[c] \in Int /\ h[c] = f[c] + g[c]
  BY <1>1, <1>2
<1>4. SumFunctionOnSet(g, Contributors) = price
  <2>1. SumFunction(g) = price
    BY PriceIsUsed
  <2>2. DOMAIN g = Contributors
    OBVIOUS
  <2>3. QED
    BY <2>1, <2>2, Zenon DEF SumFunction
<1>5. SumFunctionOnSet(h, Contributors) = totalContributions
  <2>1. UsedByAll(contributions, totalContributions) = SumFunctionOnSet(h, Contributors)
    BY Zenon DEF UsedByAll
  <2>2. totalContributions \in 0 .. totalContributions
    BY DEF Tiled
  <2>3. UsedByAll(contributions, totalContributions) = totalContributions
    BY <2>2, Zenon DEF Tiled
  <2>4. QED
    BY <2>1, <2>3, Zenon
<1>6. AllOwed = SumFunctionOnSet(f, Contributors)
  BY Zenon DEF AllOwed
<1> HIDE DEF f, g, h
<1>7. Together(f, g, h, Contributors)
  BY <1>3 DEF Together
<1>8. SumFunctionOnSet(f, Contributors) \in Nat
  BY <1>3, SumType, Constants
<1>9. SumFunctionOnSet(h, Contributors)
        = SumFunctionOnSet(f, Contributors) + SumFunctionOnSet(g, Contributors)
  BY <1>7, SumTogether, Constants
<1>10. QED
  BY <1>4, <1>5, <1>6, <1>8, <1>9

\* What came back, can be claimed or is owed to whoever still has an NFT was owed.
LEMMA DebtsAreOwed ==
  ASSUME PaidInv, Tiled, OutcomeInv
  PROVE  Outstanding \in Nat /\ Repaid \in Nat /\ AllOwed \in Nat /\ Repaid + Outstanding <= AllOwed
<1> DEFINE f == [c \in Contributors |-> claims[c].refund]
           g == [c \in nfts |-> FinalContribution(c).owed]
           h == [c \in Contributors |-> IF c \in nfts THEN Owed(c) ELSE 0]
           fh == [c \in Contributors |-> f[c] + h[c]]
           all == [c \in Contributors |-> got[c] + fh[c]]
           w == [c \in Contributors |-> Owed(c)]
<1>1. /\ nfts \subseteq Contributors
      /\ \A c \in Contributors : got[c] \in Nat /\ claims[c].refund \in Nat
  BY DEF PaidInv, PaidTypes
<1>2. \A c \in Contributors : Owed(c) \in Nat
  BY FinalParts DEF Owed, OutcomeInv, Numbers
<1>3. ASSUME NEW c \in Contributors PROVE got[c] + (f[c] + h[c]) <= Owed(c)
  <2>1. got[c] + claims[c].refund = IF Done(c) THEN Owed(c) ELSE 0
    BY DEF PaidInv, PaidTo, Owed
  <2>2. c \in nfts => ~Done(c)
    BY DEF PaidInv, Holders, Done
  <2>3. PICK a \in Nat, b \in Nat, o \in Nat : a = got[c] /\ b = claims[c].refund /\ o = Owed(c)
    BY <1>1, <1>2
  <2>4. CASE c \in nfts
    <3>1. a + b = 0
      BY <2>1, <2>2, <2>3, <2>4
    <3>2. a + (b + o) <= o
      BY <2>3, <3>1
    <3>3. QED
      BY <2>3, <2>4, <3>2
  <2>5. CASE c \notin nfts
    <3>1. a + b = o \/ a + b = 0
      BY <2>1, <2>3
    <3>2. a + (b + 0) <= o
      BY <2>3, <3>1
    <3>3. QED
      BY <2>3, <2>5, <3>2
  <2>6. QED
    BY <2>4, <2>5
<1>4. \A c \in Contributors :
        /\ f[c] \in Int /\ f[c] >= 0 /\ h[c] \in Int /\ h[c] >= 0
        /\ got[c] \in Int /\ got[c] >= 0 /\ w[c] \in Int /\ w[c] >= 0
        /\ fh[c] \in Int /\ all[c] \in Int /\ all[c] <= w[c]
        /\ fh[c] = f[c] + h[c] /\ all[c] = got[c] + fh[c]
  BY <1>1, <1>2, <1>3
<1>5. \A c \in nfts : g[c] \in Int /\ h[c] = g[c]
  BY <1>1, <1>2 DEF Owed
<1>6. \A c \in Contributors \ nfts : h[c] = 0
  OBVIOUS
<1>7. Outstanding = SumFunctionOnSet(f, Contributors) + SumFunctionOnSet(g, nfts)
  <2>1. DOMAIN f = Contributors /\ DOMAIN g = nfts
    OBVIOUS
  <2>2. QED
    BY <2>1, Zenon DEF Outstanding, SumFunction
<1>8. AllOwed = SumFunctionOnSet(w, Contributors)
  BY Zenon DEF AllOwed
<1> HIDE DEF f, g, h, fh, all, w
<1>9. SumFunctionOnSet(h, Contributors) = SumFunctionOnSet(g, nfts)
  <2>1. nfts \in SUBSET Contributors
    BY <1>1
  <2>2. QED
    BY <1>5, <1>6, <2>1, SumRestricted, Constants
<1>10. SumFunctionOnSet(fh, Contributors)
         = SumFunctionOnSet(f, Contributors) + SumFunctionOnSet(h, Contributors)
  <2>1. Together(f, h, fh, Contributors)
    BY <1>4 DEF Together
  <2>2. QED
    BY <2>1, SumTogether, Constants
<1>11. SumFunctionOnSet(all, Contributors)
         = SumFunctionOnSet(got, Contributors) + SumFunctionOnSet(fh, Contributors)
  <2>1. Together(got, fh, all, Contributors)
    BY <1>4 DEF Together
  <2>2. QED
    BY <2>1, SumTogether, Constants
<1>12. SumFunctionOnSet(all, Contributors) <= SumFunctionOnSet(w, Contributors)
  BY <1>4, SumMonotone, Constants
<1>13. /\ SumFunctionOnSet(f, Contributors) \in Nat /\ SumFunctionOnSet(h, Contributors) \in Nat
       /\ SumFunctionOnSet(got, Contributors) \in Nat /\ SumFunctionOnSet(w, Contributors) \in Nat
  BY <1>4, SumType, Constants
<1>14. QED
  BY <1>7, <1>8, <1>9, <1>10, <1>11, <1>12, <1>13 DEF Repaid

\* If nobody credits more in a batch than is sent with it, the ETH of a crowdfund that was
\* won or lost covers what it owes, in whatever order refunds are paid and claimed.
THEOREM RefundsAreCovered ==
  ASSUME ShortBatches = {0}
  PROVE  Spec => []Solvent
<1>1. ASSUME MoneyInv, RestTypes, MarketInv, PaidInv, Tiled, OutcomeInv PROVE Solvent
  <2>1. SUFFICES ASSUME Ended PROVE Outstanding + stray <= balance
    BY Zenon DEF Solvent, Ended
  <2>2. price \in Nat /\ price <= totalContributions
    BY <1>1, <2>1, PriceIsCovered DEF Ended
  <2>3. AllOwed + price = totalContributions
    BY <1>1, <2>2, AllOwedIs
  <2>4. Outstanding \in Nat /\ Repaid \in Nat /\ AllOwed \in Nat /\ Repaid + Outstanding <= AllOwed
    BY <1>1, DebtsAreOwed
  <2>5. Out \in Nat /\ Out <= price
    BY <1>1, <2>1, OutType, OutIsPrice
  <2>6. balance \in Nat /\ stray \in Nat
    BY <1>1 DEF RestTypes
  <2>7. balance + (Repaid + Out) = totalContributions + stray
    BY <1>1 DEF MoneyInv
  <2>8. PICK q \in Nat, r \in Nat, a \in Nat, o \in Nat, b \in Nat, s \in Nat, p \in Nat :
          /\ q = Outstanding /\ r = Repaid /\ a = AllOwed /\ o = Out /\ b = balance /\ s = stray
          /\ p = price
    BY <2>2, <2>4, <2>5, <2>6
  <2>9. b + (r + o) = (a + p) + s /\ r + q <= a /\ o <= p
    BY <2>3, <2>4, <2>5, <2>7, <2>8
  <2>10. q + s <= b
    BY <2>8, <2>9
  <2>11. QED
    BY <2>8, <2>10
<1>2. MoneyInv /\ RestTypes /\ MarketInv /\ PaidInv /\ Tiled /\ OutcomeInv /\ [Next]_vars
        => MoneyInv'
  BY MoneyStep
<1>3. QED
  BY <1>1, <1>2, Start, Step, TiledAtStart, TiledStep, PaidAtStart, PaidStep, MarketAtStart,
     MarketHolds, RestAtStart, RestStep, MoneyAtStart, PTL DEF Spec
=============================================================================
