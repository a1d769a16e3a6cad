------------------------- MODULE ReraiseETHCrowdfund -------------------------
(***************************************************************************)
(* The crowdfund that raises more ETH for an existing party                *)
(* (ReraiseETHCrowdfund).  A contributor holds pending power and one       *)
(* crowdfund NFT; once finalized it claims governance cards for them, and  *)
(* the limits on a contribution are then limits on a card.                 *)
(*                                                                         *)
(* A claim is one step although the party calls the contributor with each  *)
(* card it mints: pending power and NFT are taken before, so a claim from  *)
(* within finds nothing, and what others do from within they may do before *)
(* or after as well.                                                       *)
(***************************************************************************)
EXTENDS ETHCrowdfundBase

CONSTANT MaxSplit         \* bound on the cards claimed at once

ASSUME MaxSplitAssumption == MaxSplit \in Nat \ {0}

VARIABLES pendingVotingPower,
          nfts,           \* the owners of a crowdfund NFT
          burned          \* history: the power on cards their owners burned

vars == <<baseVars, pendingVotingPower, nfts, burned>>

Init ==
  /\ BaseInit
  /\ pendingVotingPower = [c \in Contributors |-> 0]
  /\ nfts = {}
  /\ burned = 0

\* Credits c; the NFT comes with the first pending power, and to mint a second
\* one reverts.
Credited(c, power) ==
  /\ pendingVotingPower' = [pendingVotingPower EXCEPT ![c] = @ + power]
  /\ pendingVotingPower[c] = 0 => c \notin nfts
  /\ nfts' = nfts \cup {c}

\* _contribute by s for c.
Contribute(s, c, amount, d) ==
  /\ s = Self => Excess(amount) = 0
  /\ Contributed(s, c, amount, d)
  /\ LET power == PowerFor(Counted(amount))
     IN \/ /\ ~ReachesCap(amount)
           /\ Credited(c, power)
           /\ UNCHANGED credit
        \/ /\ ReachesCap(amount)
           /\ credit' = [NoCredit EXCEPT !.contributor = c, !.power = power]
           /\ UNCHANGED <<pendingVotingPower, nfts>>
  /\ UNCHANGED partyVars

ContributeReturn ==
  /\ credit # NoCredit
  /\ Credited(credit.contributor, credit.power)
  /\ credit' = NoCredit
  /\ UNCHANGED <<now, expiry, totalContributions, delegationsByContributor, eth, partyTotal,
                 partyVars>>

\* Seeded bug: the NFT is not burned.
TakeFrom_KeepsNft(c) ==
  /\ c \in nfts
  /\ pendingVotingPower' = [pendingVotingPower EXCEPT ![c] = 0]
  /\ UNCHANGED nfts

\* Takes the NFT and the pending power of c.
TakeFrom(c) ==
  /\ c \in nfts
  /\ nfts' = nfts \ {c}
  /\ pendingVotingPower' = [pendingVotingPower EXCEPT ![c] = 0]

\* The contribution that power stands for in the checks of the claims.
Equivalent(power) == (power * Bps) \div ExchangeRateBps

\* claim(t, c), by anyone: all pending power on a new card or on card t of c.
Claim(c, t) ==
  /\ Lifecycle = "Finalized"
  /\ pendingVotingPower[c] > 0
  /\ Equivalent(pendingVotingPower[c]) <= MaxContribution
  /\ TakeFrom(c)
  /\ Grant(c, t, pendingVotingPower[c], delegationsByContributor[c])
  /\ UNCHANGED <<now, expiry, totalContributions, delegationsByContributor, eth, partyTotal,
                 credit>>

\* The ways to share out power over at most MaxSplit cards.
Splits(power) ==
  UNION {{s \in [1 .. n -> 1 .. power] : SumFunction(s) = power} : n \in 1 .. MaxSplit}

WithinLimits(power) ==
  MinContribution <= Equivalent(power) /\ Equivalent(power) <= MaxContribution

\* Whether c can share out its pending power as split.
MaySplit(c, split) ==
  /\ Lifecycle = "Finalized"
  /\ pendingVotingPower[c] > 0
  /\ \A i \in DOMAIN split : WithinLimits(split[i])

\* claimMultiple(split, c), by anyone; entries of no power are skipped.
ClaimMultiple(c, split) ==
  /\ MaySplit(c, split)
  /\ TakeFrom(c)
  /\ MintCards(c, split, delegationsByContributor[c])
  /\ UNCHANGED <<now, expiry, totalContributions, delegationsByContributor, eth, partyTotal,
                 credit>>

\* Seeded bug: the refunded power stays pending.
Refunded_Again(c) == UNCHANGED <<pendingVotingPower, nfts>>

Refunded(c) == TakeFrom(c)

\* refund(c), by anyone.
Refund(c) ==
  LET amount == RefundFor(pendingVotingPower[c])
  IN /\ Lifecycle = "Lost"
     /\ amount > 0
     /\ eth.crowdfund >= amount
     /\ Refunded(c)
     /\ eth' = [eth EXCEPT !.crowdfund = @ - amount, !.contributors = @ + amount]
     /\ UNCHANGED <<now, expiry, totalContributions, delegationsByContributor, partyTotal,
                    partyVars, credit>>

ClaimAny(c) ==
  \/ \E t \in 0 .. Len(cards) : Claim(c, t)
  \/ /\ Lifecycle = "Finalized"
     /\ \E split \in Splits(pendingVotingPower[c]) : ClaimMultiple(c, split)

\* The owner of a party card burns it: the power is gone.
BurnPartyCard(c, t) ==
  /\ Burn(c, t)
  /\ burned' = burned + cards[t].power
  /\ UNCHANGED <<pendingVotingPower, nfts>>

\* What touches no pending power and no cards but to hand them on.
Aside ==
  /\ \/ \E s \in Contributors \cup {Self}, c, d \in Contributors : OnlyDelegates(s, c, d)
     \/ \E amount \in Amounts : LegFails(amount)
     \/ \E isHost \in BOOLEAN : Finalize(isHost)
     \/ \E c, to \in Contributors, t \in Cards : Transfer(c, to, t)
     \/ BaseTick
  /\ UNCHANGED <<pendingVotingPower, nfts>>

Operations ==
  \/ \E s \in Contributors \cup {Self}, c, d \in Contributors, amount \in Amounts :
       Contribute(s, c, amount, d)
  \/ ContributeReturn
  \/ \E c \in Contributors : ClaimAny(c) \/ Refund(c)
  \/ Aside

Next ==
  \/ Operations /\ UNCHANGED burned
  \/ \E c \in Contributors, t \in Cards : BurnPartyCard(c, t)

Spec == Init /\ [][Next]_vars

\* Transactions end, blocks follow, and somebody calls what anyone may call.
FairSpec ==
  /\ Spec
  /\ WF_vars(ContributeReturn /\ UNCHANGED burned)
  /\ WF_vars(BaseTick /\ UNCHANGED <<pendingVotingPower, nfts, burned>>)
  /\ WF_vars(Finalize(FALSE) /\ UNCHANGED <<pendingVotingPower, nfts, burned>>)
  /\ \A c \in Contributors : WF_vars((ClaimAny(c) \/ Refund(c)) /\ UNCHANGED burned)

----------------------------------------------------------------------------
(* Properties                                                              *)

\* The values each variable takes.
TypeOK ==
  /\ BaseTypeOK
  /\ pendingVotingPower \in [Contributors -> Nat]
  /\ nfts \subseteq Contributors
  /\ burned \in Nat

\* Until it is finalized the crowdfund holds enough for every refund it would
\* owe if it were lost.
RefundsFunded ==
  expiry # 0 =>
    eth.crowdfund >= SumFunction([c \in Contributors |-> RefundFor(pendingVotingPower[c])])

\* Who has pending power has the NFT that claims it, and no one else has one.
NftsMatchPower == \A c \in Contributors : c \in nfts <=> pendingVotingPower[c] > 0

\* Every unit of power that was paid for is pending, on its way, on a card or burned
\* with one by its owner, and what is not yet on a card still fits under the total of
\* the party.
PowerArrives ==
  LET owed == SumFunction(pendingVotingPower) + credit.power
  IN expiry = 0 =>
       /\ owed + partyMinted + burned - StartMinted = PowerFor(totalContributions)
       /\ owed <= partyTotal - partyMinted

\* The powers one card may have in claimMultiple, up to power: all from some least
\* to some greatest one.
CardPowers(power) == {w \in 1 .. power : WithinLimits(w)}

\* Too much power for one card in claim(), and no number of cards of claimMultiple
\* can hold just this power.
Stuck(c) ==
  LET power == pendingVotingPower[c]
  IN /\ Equivalent(power) > MaxContribution
     /\ ~\E n \in 1 .. power, least, greatest \in CardPowers(power) :
            n * least <= power /\ power <= n * greatest

\* In the end the crowdfund has paid out or is lost, and whoever waits for power or
\* for a refund no longer can get it: it has more pending power than one card may
\* have, and no sum of cards within the limits matches it.
AllSettled ==
  <>[](/\ (expiry = 0 /\ credit = NoCredit) \/ Lifecycle = "Lost"
       /\ \A c \in Contributors :
            pendingVotingPower[c] = 0 \/ (Lifecycle = "Finalized" /\ Stuck(c)))

=============================================================================
