------------------------------ MODULE Crowdfund ------------------------------
(***************************************************************************)
(* What the crowdfunds that acquire an NFT have in common (Crowdfund with  *)
(* its soulbound CrowdfundNFT): contributions kept in the order in which   *)
(* they came, the share of each that a price uses up, burning the NFT for  *)
(* a refund and a governance card, and the claims on what could not be     *)
(* delivered.                                                              *)
(*                                                                         *)
(* A call that reverts changes nothing and is no step.  Of the party only  *)
(* its total, its cards and its delegates are seen.  The life cycle is a   *)
(* parameter of the operations: each kind of crowdfund has its own.        *)
(***************************************************************************)
EXTENDS Integers, FiniteSets, Functions, Sequences, SequencesExt

CONSTANTS
  Contributors,
  None,                   \* address(0)
  Self,                   \* the crowdfund
  Delegates,              \* who may be named as a delegate
  Amounts,                \* the amounts of ETH that are sent at once
  MinContribution,        \* CrowdfundOptions
  MaxContribution,
  SplitRecipient,
  SplitBps,
  Duration,
  Tokens,                 \* the NFTs to be had
  ShortBatches,           \* what the caller of a batch may send too little
  MaxSurplus,             \* bound on stray
  MaxTime                 \* bound on block.timestamp

Bps == 10000

\* _initialize checks the split; amounts stay far below 2^96 / Bps.
ASSUME CrowdfundAssumption ==
  /\ IsFiniteSet(Contributors) /\ IsFiniteSet(Tokens)
  /\ {MinContribution, MaxContribution, SplitBps, Duration, MaxSurplus, MaxTime} \subseteq Nat
  /\ SplitBps <= Bps
  /\ Amounts \subseteq Nat \ {0}
  /\ ShortBatches \subseteq Nat
  /\ SplitRecipient \in Contributors \cup {None}
  /\ Delegates \subseteq Contributors
  /\ None # Self
  /\ {None, Self} \cap Contributors = {}

VARIABLES
  now,                      \* block.timestamp
  expiry,
  contributions,            \* _contributionsByContributor
  totalContributions,
  delegationsByContributor,
  nfts,                     \* the owners of a crowdfund NFT
  splitBurned,              \* _splitRecipientHasBurned
  price,                    \* _getFinalPrice(): lastBid or settledPrice
  place,                    \* where each NFT is: market, us, other or party
  partyTotal,               \* totalVotingPower of the party, 0 while there is none
  cards,                    \* the power of the card each contributor got
  partyDelegate,            \* delegationsByVoter of the party
  claims,                   \* the refund and the card kept for each contributor
  balance,                  \* the ETH of the crowdfund
  stray,                    \* the ETH that is nobody's contribution
  got                       \* the ETH each contributor got back

givenVars == <<contributions, totalContributions, nfts, stray>>
burnVars == <<splitBurned, cards, partyDelegate, claims, got>>
baseVars ==
  <<now, expiry, givenVars, delegationsByContributor, price, place, partyTotal, balance,
    burnVars>>

NoClaim == [refund |-> 0, power |-> 0]

BaseInit ==
  /\ now = 1
  /\ expiry = 1 + Duration
  /\ contributions = [c \in Contributors |-> <<>>]
  /\ totalContributions = 0
  /\ delegationsByContributor = [c \in Contributors |-> None]
  /\ nfts = {}
  /\ splitBurned = FALSE
  /\ price = 0
  /\ place = [t \in Tokens |-> "market"]
  /\ partyTotal = 0
  /\ cards = [c \in Contributors |-> 0]
  /\ partyDelegate = [c \in Contributors \cup {Self} |-> None]
  /\ claims = [c \in Contributors |-> NoClaim]
  /\ balance = 0
  /\ stray = 0
  /\ got = [c \in Contributors |-> 0]

Total(entries) == SumFunction([i \in DOMAIN entries |-> entries[i].amount])

----------------------------------------------------------------------------
(* Contributing                                                            *)

\* _setDelegate: one's own choice always, that of another only the first.
Delegated(own, c, d) ==
  IF own \/ delegationsByContributor[c] = None
  THEN [delegationsByContributor EXCEPT ![c] = d]
  ELSE delegationsByContributor

\* Seeded bug: the last entry grows whatever others contributed since.
Entered_AlwaysReused(entries, amount) ==
  IF entries # <<>>
  THEN Append(Front(entries), [Last(entries) EXCEPT !.amount = @ + amount])
  ELSE <<[previous |-> totalContributions, amount |-> amount]>>

\* The contributions of one contributor with one more.  Without others in
\* between its last entry grows.
Entered(entries, amount) ==
  IF entries # <<>> /\ Last(entries).previous + Last(entries).amount = totalContributions
  THEN Append(Front(entries), [Last(entries) EXCEPT !.amount = @ + amount])
  ELSE Append(entries, [previous |-> totalContributions, amount |-> amount])

\* contribute and contributeFor; own: c is the sender.  A leg of batchContributeFor
\* is a call of the crowdfund to itself, and what its caller did not send (short)
\* is taken from the crowdfund's own ETH.
Contribute(lc, own, c, d, amount, short) ==
  /\ lc = "Active"
  /\ LET sum == Total(contributions[c]) + amount
     IN MinContribution <= sum /\ sum <= MaxContribution
  /\ short <= amount
  /\ short > 0 => ~own /\ short <= balance
  /\ delegationsByContributor' = Delegated(own, c, d)
  /\ contributions' = [contributions EXCEPT ![c] = Entered(@, amount)]
  /\ totalContributions' = totalContributions + amount
  /\ nfts' = nfts \cup {c}
  /\ balance' = balance + amount - short
  /\ UNCHANGED <<now, expiry, price, place, partyTotal, stray, burnVars>>

\* A contribution of nothing is accepted in every stage and sets the delegate.
OnlyDelegates(own, c, d) ==
  /\ delegationsByContributor' = Delegated(own, c, d)
  /\ UNCHANGED <<now, expiry, givenVars, price, place, partyTotal, balance, burnVars>>

\* ETH that nobody is credited for: failed legs of a batch, receive().
Surplus(amount) ==
  /\ stray + amount <= MaxSurplus
  /\ stray' = stray + amount
  /\ balance' = balance + amount
  /\ UNCHANGED <<now, expiry, contributions, totalContributions, nfts, delegationsByContributor, price, place, partyTotal,
                 burnVars>>

----------------------------------------------------------------------------
(* What a contributor gets in the end                                      *)

\* Seeded bug: what comes after the price is not told apart.
Accounted_BelowOnly(sum, e) ==
  IF e.previous + e.amount <= price THEN [sum EXCEPT !.used = @ + e.amount]
  ELSE [used |-> sum.used + price - e.previous, owed |-> e.amount - (price - e.previous)]

\* One entry more: used below the price, owed above it.
Accounted(sum, e) ==
  IF e.previous >= price THEN [sum EXCEPT !.owed = @ + e.amount]
  ELSE IF e.previous + e.amount <= price THEN [sum EXCEPT !.used = @ + e.amount]
  ELSE [used |-> sum.used + price - e.previous, owed |-> e.amount - (price - e.previous)]

\* _getFinalContribution
FinalContribution(c) ==
  LET entries == contributions[c]
      upTo[n \in 0 .. Len(entries)] ==
        IF n = 0 THEN [used |-> 0, owed |-> 0] ELSE Accounted(upTo[n - 1], entries[n])
  IN upTo[Len(entries)]

Split == IF SplitRecipient = None THEN 0 ELSE SplitBps

\* Seeded bug: the recipient's part is rounded up and the others' part too.
VotingPower_RoundedUp(c) ==
  ((Bps - Split) * FinalContribution(c).used + Bps - 1) \div Bps
  + IF c = SplitRecipient THEN (Split * price + Bps - 1) \div Bps ELSE 0

VotingPower(c) ==
  ((Bps - Split) * FinalContribution(c).used) \div Bps
  + IF c = SplitRecipient THEN (Split * price + Bps - 1) \div Bps ELSE 0

\* mintedVotingPower
Minted == SumFunction([c \in Contributors |-> cards[c] + claims[c].power])

\* PartyGovernanceNFT.mint: no more than what is left of the total.
Capped(power) == IF partyTotal - Minted < power THEN partyTotal - Minted ELSE power

\* Who votes with the power of an owner that gets a card; d counts if it has no delegate.
Joined(owner, d) ==
  IF partyDelegate[owner] = None THEN [partyDelegate EXCEPT ![owner] = d] ELSE partyDelegate

\* Seeded bug: the crowdfund NFT stays.
Burned_KeepsNft(c) ==
  /\ IF c = SplitRecipient THEN ~splitBurned ELSE c \in nfts
  /\ splitBurned' = (splitBurned \/ c = SplitRecipient)
  /\ UNCHANGED nfts

\* The recipient of the split burns once, with or without an NFT; others their NFT.
Burned(c) ==
  /\ IF c = SplitRecipient THEN ~splitBurned ELSE c \in nfts
  /\ splitBurned' = (splitBurned \/ c = SplitRecipient)
  /\ nfts' = nfts \ {c}

\* The card of c: minted to c, or to the crowdfund if c does not accept it.
CardMinted(c, accepted) ==
  LET power == VotingPower(c)
      d == IF delegationsByContributor[c] = None THEN c ELSE delegationsByContributor[c]
  IN IF power = 0 THEN UNCHANGED <<cards, partyDelegate>>
     ELSE IF accepted
     THEN cards' = [cards EXCEPT ![c] = Capped(power)] /\ partyDelegate' = Joined(c, d)
     ELSE UNCHANGED cards /\ partyDelegate' = Joined(Self, d)

\* _burn of c by anyone.  received and accepted: whether c takes its ETH and its
\* card.  What a failing call of c did is undone, so the order of the calls does
\* not show; that NFTs are burned first does, in Burned.
Burn(lc, c, received, accepted) ==
  LET owed == FinalContribution(c).owed
      power == VotingPower(c)
  IN /\ lc = "Lost" \/ (lc = "Won" /\ partyTotal # 0)
     /\ Burned(c)
     /\ received => owed <= balance
     /\ CardMinted(c, accepted)
     /\ claims' = [claims EXCEPT ![c] =
          [refund |-> IF received THEN @.refund ELSE owed,
           power |-> IF accepted \/ power = 0 THEN @.power ELSE Capped(power)]]
     /\ balance' = IF received THEN balance - owed ELSE balance
     /\ got' = IF received THEN [got EXCEPT ![c] = @ + owed] ELSE got
     /\ UNCHANGED <<now, expiry, contributions, totalContributions, stray,
                    delegationsByContributor, price, place, partyTotal>>

ClaimDeleted(c) == [claims EXCEPT ![c] = NoClaim]

\* claim: the refund and the card go to an address that takes them.
Claim(c) ==
  LET kept == claims[c]
  IN /\ kept # NoClaim
     /\ kept.refund <= balance
     /\ claims' = ClaimDeleted(c)
     /\ balance' = balance - kept.refund
     /\ got' = [got EXCEPT ![c] = @ + kept.refund]
     /\ cards' = [cards EXCEPT ![c] = @ + kept.power]
     /\ partyDelegate' = IF kept.power = 0 THEN partyDelegate ELSE Joined(c, c)
     /\ UNCHANGED <<now, expiry, givenVars, delegationsByContributor, splitBurned, price,
                    place, partyTotal>>

\* _createParty for the price in p: the party holds the NFTs in S.
PartyCreated(p, S) ==
  /\ partyTotal' = p
  /\ place' = [t \in Tokens |-> IF t \in S THEN "party" ELSE place[t]]

BaseTick ==
  /\ now < MaxTime
  /\ now' = now + 1
  /\ UNCHANGED <<expiry, givenVars, delegationsByContributor, price, place, partyTotal,
                 balance, burnVars>>

=============================================================================
