----------------------------- MODULE BuyCrowdfund -----------------------------
(***************************************************************************)
(* The crowdfunds that buy NFTs by calls of their caller's choice          *)
(* (BuyCrowdfundBase): one NFT (BuyCrowdfund, CollectionBuyCrowdfund) or   *)
(* several, some of which may fail (CollectionBatchBuyCrowdfund).          *)
(*                                                                         *)
(* The calls may call back, so buying is a step to begin, one for each     *)
(* NFT and one to end.  As a transaction that fails is no step, the        *)
(* conditions at its end already bind the calls.                           *)
(***************************************************************************)
EXTENDS Crowdfund

CONSTANTS
  MaximumPrice,
  Prices,                 \* what is paid for an NFT, 0 when it comes for free
  MaxUint96               \* the price while buying

ASSUME BuyAssumption ==
  /\ MaximumPrice \in Nat
  /\ {0, 1} \subseteq Prices /\ Prices \subseteq Nat
  /\ MaxUint96 \in Nat \ {0}

VARIABLE buying             \* what buy() or batchBuy() keep on their stack

NotBuying == [under |-> FALSE, left |-> {}, bought |-> {}, spent |-> 0, min |-> 0, all |-> FALSE]

\* getCrowdfundLifecycle
BuyLifecycle ==
  IF price # 0 THEN IF partyTotal # 0 THEN "Won" ELSE "Busy"
  ELSE IF now >= expiry THEN "Lost" ELSE "Active"

\* buy of one NFT, or batchBuy of the NFTs in S of which at least min must be had.
BuyBegin(batch, S, min) ==
  /\ BuyLifecycle = "Active"
  /\ S \subseteq Tokens /\ S # {}
  /\ IF batch
     THEN /\ 0 < min /\ min <= Cardinality(S)
          /\ totalContributions > 0 /\ balance > 0 /\ MaximumPrice > 0
     ELSE Cardinality(S) = 1 /\ min = 1
  /\ price' = MaxUint96
  /\ buying' = [NotBuying EXCEPT !.under = TRUE, !.left = S, !.min = min,
                                 !.all = min >= Cardinality(S)]
  /\ UNCHANGED <<now, expiry, givenVars, delegationsByContributor, place, partyTotal, balance,
                 burnVars>>

\* _finalize: no more than was contributed.
Spendable(spent) == spent <= totalContributions

\* Whether a batch with so much spent once the NFTs in left are dealt with goes on.
NotForFree(batch, left, spent) == batch /\ left = {} => spent > 0

\* _buy of t for amount: the NFT is there when the call returns.
BuyStep(batch, t, amount) ==
  /\ t \in buying.left
  /\ amount <= MaximumPrice /\ amount <= balance
  /\ Spendable(buying.spent + amount)
  /\ NotForFree(batch, buying.left \ {t}, buying.spent + amount)
  /\ balance' = balance - amount
  /\ place' = [place EXCEPT ![t] = "us"]
  /\ buying' = [buying EXCEPT !.left = @ \ {t}, !.bought = @ \cup {t}, !.spent = @ + amount]
  /\ UNCHANGED <<now, expiry, givenVars, delegationsByContributor, price, partyTotal, burnVars>>

\* What a call that did not bring the NFT may have spent.
SkipSpends == 0

\* The call for t fails or does not bring the NFT, and the others are still enough.
BuySkip(t) ==
  /\ t \in buying.left
  /\ ~buying.all
  /\ Cardinality(buying.bought) + Cardinality(buying.left) > buying.min
  /\ NotForFree(TRUE, buying.left \ {t}, buying.spent)
  /\ balance >= SkipSpends
  /\ balance' = balance - SkipSpends
  /\ buying' = [buying EXCEPT !.left = @ \ {t}]
  /\ UNCHANGED <<now, expiry, givenVars, delegationsByContributor, price, place, partyTotal,
                 burnVars>>

\* _finalize: a party for what was paid for, a loss when it came for free.
BuyWon ==
  /\ buying.spent # 0
  /\ price' = buying.spent
  /\ PartyCreated(buying.spent, buying.bought)
  /\ UNCHANGED expiry

BuyFree ==
  /\ buying.spent = 0
  /\ price' = 0
  /\ expiry' = now
  /\ UNCHANGED <<partyTotal, place>>

BuyEnd ==
  /\ buying.under /\ buying.left = {}
  /\ BuyWon \/ BuyFree
  /\ buying' = NotBuying
  /\ UNCHANGED <<now, givenVars, delegationsByContributor, balance, burnVars>>

\* The owner of an NFT gives it to the crowdfund.
OwnerGives(t) ==
  /\ ~buying.under
  /\ place[t] = "market"
  /\ place' = [place EXCEPT ![t] = "us"]
  /\ UNCHANGED <<now, expiry, givenVars, delegationsByContributor, price, partyTotal, balance,
                 burnVars, buying>>

BuyNext(batch) ==
  \/ \E S \in SUBSET Tokens, min \in 1 .. Cardinality(Tokens) : BuyBegin(batch, S, min)
  \/ \E t \in Tokens : \E amount \in Prices : BuyStep(batch, t, amount)
  \/ \E t \in Tokens : BuySkip(t) \/ OwnerGives(t)
  \/ BuyEnd

=============================================================================
