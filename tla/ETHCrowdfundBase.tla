-------------------------- MODULE ETHCrowdfundBase --------------------------
(***************************************************************************)
(* What the crowdfunds that raise ETH for a party have in common           *)
(* (ETHCrowdfundBase): options, life cycle, the arithmetic between ETH and *)
(* voting power, the contribution that reaches the cap, and finalize().    *)
(*                                                                         *)
(* A contribution that reaches the cap pays the party, the recipient of    *)
(* the funding split and its own sender before the crowdfund credits it.   *)
(* They may call back, so the credit is kept in "credit" until the calls   *)
(* return.  A call that reverts changes nothing and is no step.  Of the    *)
(* party only its cards, its power and its members' delegates are seen.    *)
(***************************************************************************)
EXTENDS Integers, FiniteSets, Functions, Sequences

CONSTANTS
  Contributors,
  None,                   \* address(0)
  MinContribution,        \* ETHCrowdfundOptions
  MaxContribution,
  MinTotalContributions,
  MaxTotalContributions,
  ExchangeRateBps,
  FundingSplitBps,        \* 0 when there is no recipient
  Duration,
  Amounts,                \* the amounts of ETH that are sent at once
  StartTotal,             \* totalVotingPower and mintedVotingPower of the party
  StartMinted,            \* when the crowdfund starts,
  StartHolder,            \* and the member who holds all of it, if any
  ContributeToCards,      \* ~disableContributingForExistingCard
  Self,                   \* the crowdfund, which calls itself for each leg of a batch
  MaxCards,               \* bound on the cards of the party
  MaxHeld,                \* bound on the ETH that failed legs leave behind
  MaxTime                 \* bound on block.timestamp

Bps == 10000

\* _initialize checks the order of the limits and that there is a cap, but not
\* the split; amounts stay far below 2^96 / Bps.
ASSUME OptionsAssumption ==
  /\ IsFiniteSet(Contributors)
  /\ {MinContribution, MaxContribution, MinTotalContributions, Duration,
      FundingSplitBps, StartTotal, StartMinted} \subseteq Nat
  /\ {MaxTotalContributions, ExchangeRateBps, MaxTime} \subseteq Nat \ {0}
  /\ MinContribution <= MaxContribution
  /\ MinTotalContributions <= MaxTotalContributions
  /\ FundingSplitBps < Bps
  /\ Amounts \subseteq Nat \ {0}
  /\ None # Self
  /\ {None, Self} \cap Contributors = {}
  /\ StartMinted <= StartTotal
  /\ StartHolder \in Contributors \cup {None}

VARIABLES
  now,                      \* block.timestamp
  expiry,                   \* 0 once finalized
  totalContributions,
  delegationsByContributor,
  eth,                      \* balances: crowdfund, party, recipient; what the
                            \* contributors have got back beyond what they paid
  partyTotal,               \* totalVotingPower of the party
  partyMinted,              \* mintedVotingPower of the party
  cards,                    \* owner and power of each card; no owner once burned
  partyDelegate,            \* delegationsByVoter of the party
  credit                    \* a contribution that waits for calls to return

partyVars == <<partyMinted, cards, partyDelegate>>
baseVars ==
  <<now, expiry, totalContributions, delegationsByContributor, eth, partyTotal,
    partyVars, credit>>

NoCredit == [contributor |-> None, power |-> 0, card |-> 0, delegate |-> None]

BaseInit ==
  /\ now = 1
  /\ expiry = 1 + Duration
  /\ totalContributions = 0
  /\ delegationsByContributor = [c \in Contributors |-> None]
  /\ eth = [crowdfund |-> 0, party |-> 0, recipient |-> 0, contributors |-> 0]
  /\ partyTotal = StartTotal
  /\ partyMinted = StartMinted
  /\ cards = IF StartHolder = None THEN <<>>
             ELSE <<[owner |-> StartHolder, power |-> StartMinted]>>
  /\ partyDelegate = [c \in Contributors |-> IF c = StartHolder THEN c ELSE None]
  /\ credit = NoCredit

\* getCrowdfundLifecycle.
Lifecycle ==
  IF expiry = 0 THEN "Finalized"
  ELSE IF now < expiry THEN "Active"
  ELSE IF totalContributions >= MinTotalContributions THEN "Won"
  ELSE "Lost"

----------------------------------------------------------------------------
(* ETH and voting power                                                    *)

FeeOf(amount) == (amount * FundingSplitBps) \div Bps

\* Seeded bug: the split is not taken off what the contributor gets power for.
PowerFor_Gross(amount) == (amount * ExchangeRateBps) \div Bps

PowerFor(amount) == ((amount - FeeOf(amount)) * ExchangeRateBps) \div Bps

\* Seeded bug: the refund is computed in power, not in ETH.
RefundFor_InPower(power) == (power * Bps) \div (Bps - FundingSplitBps)

\* _calculateRefundAmount.
RefundFor(power) ==
  (((power * Bps) \div ExchangeRateBps) * Bps) \div (Bps - FundingSplitBps)

----------------------------------------------------------------------------
(* Contributions                                                           *)

\* The delegate of c after s contributed for it: others only choose the first.
DelegateAfter(s, c, d) ==
  IF s = c \/ delegationsByContributor[c] = None THEN d ELSE delegationsByContributor[c]

Accepts(amount) ==
  Lifecycle = "Active" /\ MinContribution <= amount /\ amount <= MaxContribution

\* Seeded bug: the contribution at hand is not counted.
ReachesCap_Before(amount) == totalContributions >= MaxTotalContributions

ReachesCap(amount) == totalContributions + amount >= MaxTotalContributions

Excess(amount) ==
  IF ReachesCap(amount) THEN totalContributions + amount - MaxTotalContributions ELSE 0

\* Seeded bug: the excess is sent back and counted too.
Counted_Excess(amount) == amount

Counted(amount) == amount - Excess(amount)

\* Seeded bug: the crowdfund that paid out stays open.
Closed_Never == expiry

\* The expiry of a finalized crowdfund.
Closed == 0

\* _finalize with total contributions, of which sent arrive in this very call.
PayOut(sent, total, excess) ==
  /\ eth.crowdfund + sent >= total + excess
  /\ expiry' = Closed
  /\ partyTotal' = partyTotal + (total * ExchangeRateBps) \div Bps
  /\ eth' = [crowdfund |-> eth.crowdfund + sent - total - excess,
             party |-> eth.party + total - FeeOf(total),
             recipient |-> eth.recipient + FeeOf(total),
             contributors |-> eth.contributors - sent + excess]

\* _processContribution of s for c, up to the calls when it reaches the cap.
Contributed(s, c, amount, d) ==
  /\ Accepts(amount)
  /\ delegationsByContributor' = [delegationsByContributor EXCEPT ![c] = DelegateAfter(s, c, d)]
  /\ IF ReachesCap(amount)
     THEN /\ totalContributions' = MaxTotalContributions
          /\ PayOut(amount, MaxTotalContributions, Excess(amount))
     ELSE /\ totalContributions' = totalContributions + amount
          /\ eth' = [eth EXCEPT !.crowdfund = @ + amount, !.contributors = @ - amount]
          /\ UNCHANGED <<expiry, partyTotal>>
  /\ UNCHANGED now

\* A contribution of nothing only sets the delegate, at any time.
OnlyDelegates(s, c, d) ==
  /\ delegationsByContributor' = [delegationsByContributor EXCEPT ![c] = DelegateAfter(s, c, d)]
  /\ UNCHANGED <<now, expiry, totalContributions, eth, partyTotal, partyVars, credit>>

\* A leg of batchContributeFor that fails while the batch goes on: the crowdfund
\* called itself and keeps the leg's ETH.
LegFails(amount) ==
  /\ eth.crowdfund + amount <= MaxHeld
  /\ eth' = [eth EXCEPT !.crowdfund = @ + amount, !.contributors = @ - amount]
  /\ UNCHANGED <<now, expiry, totalContributions, delegationsByContributor, partyTotal,
                 partyVars, credit>>

\* Seeded bug: a crowdfund that is won still waits for a host.
MayFinalize_Host(isHost) ==
  Lifecycle \in {"Active", "Won"} /\ isHost /\ totalContributions >= MinTotalContributions

\* finalize(): by a host early, by anyone once won.
MayFinalize(isHost) ==
  \/ Lifecycle = "Active" /\ isHost /\ totalContributions >= MinTotalContributions
  \/ Lifecycle = "Won"

Finalize(isHost) ==
  /\ MayFinalize(isHost)
  /\ PayOut(0, totalContributions, 0)
  /\ UNCHANGED <<now, totalContributions, delegationsByContributor, partyVars, credit>>

\* Time passes between transactions only.
BaseTick ==
  /\ credit = NoCredit
  /\ now < MaxTime
  /\ now' = now + 1
  /\ UNCHANGED <<expiry, totalContributions, delegationsByContributor, eth, partyTotal,
                 partyVars, credit>>

----------------------------------------------------------------------------
(* The party                                                               *)

Cards == DOMAIN cards

Owns(c, t) == t \in Cards /\ cards[t].owner = c

\* What is granted of power, with minted handed out so far: no more than is left
\* of the total once there is one.
Granted(power, minted) ==
  IF partyTotal # 0 /\ partyTotal - minted < power THEN partyTotal - minted ELSE power

\* Who first gets or loses power delegates to d, if nobody was chosen before.
Joined(c, d) == [partyDelegate EXCEPT ![c] = IF @ = None THEN d ELSE @]

\* party.mint: a new card for each of powers.
MintCards(c, powers, d) ==
  LET minted[n \in 0 .. Len(powers)] ==
        IF n = 0 THEN partyMinted ELSE minted[n - 1] + Granted(powers[n], minted[n - 1])
  IN /\ Len(cards) + Len(powers) <= MaxCards
     /\ partyMinted' = minted[Len(powers)]
     /\ cards' = cards \o [n \in 1 .. Len(powers) |->
                            [owner |-> c, power |-> Granted(powers[n], minted[n - 1])]]
     /\ partyDelegate' = Joined(c, d)

\* party.addVotingPower
AddPower(c, t, power) ==
  LET granted == Granted(power, partyMinted)
  IN /\ ContributeToCards
     /\ Owns(c, t)
     /\ partyMinted' = partyMinted + granted
     /\ cards' = [cards EXCEPT ![t].power = @ + granted]
     /\ partyDelegate' = Joined(c, c)

\* power for c on a new card, or on its card t.
Grant(c, t, power, d) ==
  IF t = 0 THEN MintCards(c, <<power>>, d) ELSE AddPower(c, t, power)

\* A contribution of c does not go through when its card is gone at the end, so
\* the paths on which the callbacks move it are no steps.
Movable(c, t) == Owns(c, t) /\ (credit # NoCredit => t # credit.card)

Transfer(c, to, t) ==
  /\ c # to
  /\ Movable(c, t)
  /\ cards' = [cards EXCEPT ![t].owner = to]
  /\ partyDelegate' = [partyDelegate EXCEPT ![c] = IF @ = None THEN c ELSE @,
                                           ![to] = IF @ = None THEN to ELSE @]
  /\ UNCHANGED <<now, expiry, totalContributions, delegationsByContributor, eth,
                 partyTotal, partyMinted, credit>>

\* Removes card t; its owner keeps a delegate.
BurnCard(t) ==
  /\ partyMinted' = partyMinted - cards[t].power
  /\ cards' = [cards EXCEPT ![t] = [owner |-> None, power |-> 0]]
  /\ partyDelegate' = Joined(cards[t].owner, cards[t].owner)

\* The owner burns a card: nothing is refunded.
Burn(c, t) ==
  /\ Movable(c, t)
  /\ BurnCard(t)
  /\ UNCHANGED <<now, expiry, totalContributions, delegationsByContributor, eth,
                 partyTotal, credit>>

BaseTypeOK ==
  /\ now \in 1 .. MaxTime
  /\ expiry \in {0, 1 + Duration}
  /\ totalContributions \in 0 .. MaxTotalContributions
  /\ delegationsByContributor \in [Contributors -> Contributors \cup {None}]
  /\ DOMAIN eth = {"crowdfund", "party", "recipient", "contributors"}
  /\ {eth.crowdfund, eth.party, eth.recipient, -eth.contributors} \subseteq Nat
  /\ {partyTotal, partyMinted, credit.power, credit.card} \subseteq Nat
  /\ cards \in Seq([owner : Contributors \cup {None}, power : Nat])
  /\ partyDelegate \in [Contributors -> Contributors \cup {None}]
  /\ {credit.contributor, credit.delegate} \subseteq Contributors \cup {None}

\* The party and the recipient of the split get the contributions exactly once,
\* when the crowdfund is finalized, and nothing of them before; the total voting
\* power grows by all of them, the split included.
PaidOutOnce ==
  LET paid == IF expiry = 0 THEN totalContributions ELSE 0
  IN /\ eth.party + eth.recipient = paid
     /\ eth.recipient = FeeOf(paid)
     /\ partyTotal = StartTotal + (paid * ExchangeRateBps) \div Bps

=============================================================================
