-------------------------- MODULE TokenDistributor --------------------------
(***************************************************************************)
(* The escrow that pays out distributions (TokenDistributor).  One token,  *)
(* native or ERC20, that several parties distribute: the distributor keeps *)
(* all of it in one balance and tells a new deposit from what it holds for *)
(* others only by the balance it has stored.                               *)
(*                                                                         *)
(* A transfer runs foreign code: that of the recipient of ETH after it has *)
(* moved, or the hooks of an ERC777 token before and after.  "transfers"   *)
(* is the stack of transfers under way, the innermost last.                *)
(***************************************************************************)
EXTENDS Integers, FiniteSets, Functions, Sequences, SequencesExt

CONSTANTS
  Parties,
  Cards,              \* the token ids of a party
  Honest,             \* the parties with the shares below; the others may say anything
  Share,              \* getDistributionShareOf of an honest party
  AnyShares,          \* shares that another party may answer
  Scale,              \* 1e18
  MaxUint,            \* type(uint256).max, more than there is of the token
  Amounts,            \* the amounts of the token that are sent at once
  FeeBps,             \* the fees a distribution may be created with
  MaxDistributions,   \* bound on all distributions
  MaxBalance,         \* bound on what the distributor holds
  MaxDepth            \* bound on the nesting of transfers

ASSUME DistributorAssumption ==
  /\ Honest \subseteq Parties
  /\ IsFiniteSet(Parties) /\ IsFiniteSet(Cards)
  /\ Share \in [Cards -> Nat]
  /\ AnyShares \subseteq Nat
  /\ {Scale, MaxUint} \subseteq Nat \ {0}
  /\ Amounts \subseteq Nat \ {0}
  /\ FeeBps \subseteq 0 .. 10000
  /\ {MaxDistributions, MaxBalance, MaxDepth} \subseteq Nat
  /\ MaxBalance < MaxUint

ASSUME SharesAssumption == SumFunctionOnSet(Share, Cards) <= Scale

VARIABLES
  balance,            \* what the distributor holds of the token
  storedBalance,      \* _storedBalances[token]
  distributions,      \* per party, in the order of their ids
  transfers

vars == <<balance, storedBalance, distributions, transfers>>

Init ==
  /\ balance = 0
  /\ storedBalance = 0
  /\ distributions = [p \in Parties |-> <<>>]
  /\ transfers = <<>>

----------------------------------------------------------------------------
(* Creation                                                                *)

\* A plain transfer to the distributor.
Donate(amount) ==
  /\ balance + amount <= MaxBalance
  /\ balance' = balance + amount
  /\ UNCHANGED <<storedBalance, distributions, transfers>>

FeeOf(supply, bps) == (supply * bps) \div 10000

MemberSupply(supply, bps) == supply - FeeOf(supply, bps)

\* "claimed" is hasPartyTokenClaimed; "paid" is a history of what each card got.
NewDistribution(supply, bps) ==
  [memberSupply |-> MemberSupply(supply, bps), fee |-> FeeOf(supply, bps),
   remainingMemberSupply |-> MemberSupply(supply, bps), wasFeeClaimed |-> FALSE,
   claimed |-> {}, paid |-> [c \in Cards |-> 0]]

\* create{Native,Erc20}Distribution for party p, with what the caller sent just
\* before.  The subtraction reverts when it underflows.
CreateDistribution(p, sent, bps) ==
  LET current == balance + sent
      supply == current - storedBalance
  IN /\ supply > 0
     /\ current <= MaxBalance
     /\ SumFunction([q \in Parties |-> Len(distributions[q])]) < MaxDistributions
     /\ balance' = current
     /\ storedBalance' = current
     /\ distributions' = [distributions EXCEPT ![p] = Append(@, NewDistribution(supply, bps))]
     /\ UNCHANGED transfers

----------------------------------------------------------------------------
(* Transfers                                                               *)

\* Seeded bug: no guard while the transfer runs.
GuardBalance_Reduced(stored) == stored

\* The stored balance while the transfer runs.
GuardBalance(stored) == MaxUint

\* _transfer, up to the foreign code.  moved: whether the tokens have left by then.
StartTransfer(amount, moved) ==
  LET stored == storedBalance - amount
  IN /\ Len(transfers) < MaxDepth
     /\ stored >= 0
     /\ storedBalance' = GuardBalance(stored)
     /\ transfers' = Append(transfers, [amount |-> amount, stored |-> stored, moved |-> moved])
     /\ IF moved THEN balance >= amount /\ balance' = balance - amount
        ELSE UNCHANGED balance

\* The tokens of the innermost transfer move between its hooks.
MoveTokens ==
  /\ transfers # <<>>
  /\ ~Last(transfers).moved
  /\ balance >= Last(transfers).amount
  /\ balance' = balance - Last(transfers).amount
  /\ transfers' = [transfers EXCEPT ![Len(transfers)].moved = TRUE]
  /\ UNCHANGED <<storedBalance, distributions>>

FinishTransfer ==
  /\ transfers # <<>>
  /\ Last(transfers).moved
  /\ storedBalance' = Last(transfers).stored
  /\ transfers' = Front(transfers)
  /\ UNCHANGED <<balance, distributions>>

----------------------------------------------------------------------------
(* Claims                                                                  *)

\* Seeded bug: a share of what remains, so that late claims are smaller.
BaseOf_Remaining(dist) == dist.remainingMemberSupply

\* What a share is a share of.
BaseOf(dist) == dist.memberSupply

\* getClaimAmount, rounded up.
ClaimAmount(dist, share) == (share * BaseOf(dist) + Scale - 1) \div Scale

\* Seeded bug: the cap is not applied.
Capped_Not(dist, amount) == amount

\* At most what remains, or a party could pay out more than its supply.
Capped(dist, amount) == Min({amount, dist.remainingMemberSupply})

\* Seeded bug: the card is marked only if something is left for others.
Marked_IfLeft(dist, c, amount) ==
  IF amount < dist.remainingMemberSupply THEN dist.claimed \cup {c} ELSE dist.claimed

\* The cards that have claimed once c has claimed amount.
Marked(dist, c, amount) == dist.claimed \cup {c}

\* What getDistributionShareOf of party p may answer for card c.
SharesOf(p, c) == IF p \in Honest THEN {Share[c]} ELSE AnyShares

\* Card c is paid amount of a distribution.
Claimed(dist, c, amount) ==
  [dist EXCEPT !.claimed = Marked(dist, c, amount),
               !.remainingMemberSupply = @ - amount,
               !.paid[c] = @ + amount]

\* claim, by the owner of card c, to which the party answers share.
Claim(p, d, c, share, moved) ==
  LET dist == distributions[p][d]
      amount == Capped(dist, ClaimAmount(dist, share))
  IN /\ c \notin dist.claimed
     /\ distributions' = [distributions EXCEPT ![p][d] = Claimed(dist, c, amount)]
     /\ StartTransfer(amount, moved)

\* claimFee, by the recipient of the fee.
ClaimFee(p, d, moved) ==
  /\ ~distributions[p][d].wasFeeClaimed
  /\ distributions' = [distributions EXCEPT ![p][d].wasFeeClaimed = TRUE]
  /\ StartTransfer(distributions[p][d].fee, moved)

Next ==
  \/ \E amount \in Amounts : Donate(amount)
  \/ \E p \in Parties, sent \in Amounts \cup {0}, bps \in FeeBps : CreateDistribution(p, sent, bps)
  \/ \E p \in Parties, moved \in BOOLEAN : \E d \in DOMAIN distributions[p] :
       \/ \E c \in Cards : \E share \in SharesOf(p, c) : Claim(p, d, c, share, moved)
       \/ ClaimFee(p, d, moved)
  \/ MoveTokens
  \/ FinishTransfer

Spec == Init /\ [][Next]_vars

----------------------------------------------------------------------------
(* Properties                                                              *)

DistributionValues ==
  [memberSupply : Nat, fee : Nat, remainingMemberSupply : Nat, wasFeeClaimed : BOOLEAN,
   claimed : SUBSET Cards, paid : [Cards -> Nat]]

\* The values each variable takes.
TypeOK ==
  /\ balance \in 0 .. MaxBalance
  /\ storedBalance \in 0 .. MaxUint
  /\ distributions \in [Parties -> Seq(DistributionValues)]
  /\ \A p \in Parties : \A d \in DOMAIN distributions[p] :
       distributions[p][d].remainingMemberSupply <= distributions[p][d].memberSupply
  /\ transfers \in Seq([amount : Nat, stored : 0 .. MaxUint, moved : BOOLEAN])

\* What a distribution still has to pay.
Owed(dist) == dist.remainingMemberSupply + (IF dist.wasFeeClaimed THEN 0 ELSE dist.fee)

\* What the distributions ds of a party still have to pay.
OwedBy(ds) == SumFunctionOnSet([d \in DOMAIN ds |-> Owed(ds[d])], DOMAIN ds)

\* What all of them have.
TotalOwed(all) == SumFunctionOnSet([p \in Parties |-> OwedBy(all[p])], Parties)

\* What the transfers ts have yet to move.
InTransit(ts) ==
  SumFunctionOnSet([i \in DOMAIN ts |-> IF ts[i].moved THEN 0 ELSE ts[i].amount], DOMAIN ts)

\* All distributions together never owe more than the distributor holds, whoever
\* creates and claims while a transfer is under way: no party is paid with what
\* was deposited by another.
Covered == TotalOwed(distributions) + InTransit(transfers) <= balance

\* A card is paid its share once, in whatever order and however deep in each
\* other the claims come: at most its share rounded up, and no less than it
\* rounded down but for one unit for each card that rounded up before.
PaidItsShare ==
  \A p \in Honest : \A d \in DOMAIN distributions[p] : \A c \in Cards :
    LET dist == distributions[p][d]
        exact == Share[c] * dist.memberSupply
        paid == dist.paid[c] * Scale
    IN /\ paid < exact + Scale
       /\ c \in dist.claimed => paid >= exact - Scale * (Cardinality(dist.claimed) - 1)

\* What a party says about its shares costs only its own distributions: each
\* pays its members no more than it was created with, and a card at most once.
OwnSupplyOnly ==
  [][\A p \in Parties : \A d \in DOMAIN distributions[p] :
       LET was == distributions[p][d]
           is == distributions'[p][d]
       IN /\ SumFunctionOnSet(is.paid, Cards) = is.memberSupply - is.remainingMemberSupply
          /\ \A c \in was.claimed : is.paid[c] = was.paid[c]
          /\ is.paid # was.paid => was.claimed # is.claimed]_vars

=============================================================================
