------------------------- MODULE InitialETHCrowdfund -------------------------
(***************************************************************************)
(* The crowdfund that raises the first ETH of a new party                  *)
(* (InitialETHCrowdfund).  Contributors get their cards at once, while the *)
(* party has no total voting power; the cards are refunded and burned when *)
(* the crowdfund is lost.                                                  *)
(***************************************************************************)
EXTENDS ETHCrowdfundBase

\* _createParty: a party without votes and cards.
ASSUME NewPartyAssumption == StartTotal = 0 /\ StartHolder = None

vars == baseVars

Init == BaseInit

\* _contribute by s for c, on a new card (t = 0) or on card t of c.
\* batchContribute is a sequence of these, batchContributeFor one of calls of the
\* crowdfund to itself, which cannot be sent back an excess.
Contribute(s, c, t, amount, d) ==
  /\ s = Self => Excess(amount) = 0
  /\ Contributed(s, c, amount, d)
  /\ LET power == PowerFor(Counted(amount))
     IN \/ /\ ~ReachesCap(amount)
           /\ Grant(c, t, power, d)
           /\ UNCHANGED credit
        \/ /\ ReachesCap(amount)
           /\ IF t = 0 THEN Len(cards) < MaxCards ELSE ContributeToCards /\ Owns(c, t)
           /\ credit' = [contributor |-> c, power |-> power, card |-> t, delegate |-> d]
           /\ UNCHANGED partyVars

ContributeReturn ==
  /\ credit # NoCredit
  /\ Grant(credit.contributor, credit.card, credit.power, credit.delegate)
  /\ credit' = NoCredit
  /\ UNCHANGED <<now, expiry, totalContributions, delegationsByContributor, eth, partyTotal>>

\* refund(t), by anyone.  The crowdfund may burn while the party has no total.
Refund(t) ==
  LET amount == RefundFor(cards[t].power)
  IN /\ Lifecycle = "Lost"
     /\ partyTotal = 0
     /\ cards[t].owner # None
     /\ amount > 0
     /\ eth.crowdfund >= amount
     /\ BurnCard(t)
     /\ eth' = [eth EXCEPT !.crowdfund = @ - amount, !.contributors = @ + amount]
     /\ UNCHANGED <<now, expiry, totalContributions, delegationsByContributor, partyTotal,
                    credit>>

Tick == BaseTick

Next ==
  \/ \E s \in Contributors \cup {Self}, c, d \in Contributors :
       \/ OnlyDelegates(s, c, d)
       \/ \E t \in 0 .. Len(cards), amount \in Amounts : Contribute(s, c, t, amount, d)
  \/ ContributeReturn
  \/ \E amount \in Amounts : LegFails(amount)
  \/ \E isHost \in BOOLEAN : Finalize(isHost)
  \/ \E t \in Cards : Refund(t)
  \/ \E c \in Contributors, t \in Cards : Burn(c, t) \/ \E to \in Contributors : Transfer(c, to, t)
  \/ Tick

Spec == Init /\ [][Next]_vars

\* Transactions end, blocks follow, and somebody calls what anyone may call.
FairSpec ==
  /\ Spec
  /\ WF_vars(ContributeReturn)
  /\ WF_vars(Tick)
  /\ WF_vars(Finalize(FALSE))
  /\ WF_vars(\E t \in Cards : Refund(t))

----------------------------------------------------------------------------
(* Properties                                                              *)

\* The values each variable takes.
TypeOK == BaseTypeOK

\* Until it is finalized the crowdfund holds enough for every refund it would
\* owe if it were lost, whatever was contributed, failed, burned or refunded.
RefundsFunded ==
  expiry # 0 => eth.crowdfund >= SumFunction([t \in Cards |-> RefundFor(cards[t].power)])

\* Nobody has power that was not paid for: all cards, and what is about to be
\* granted, are within what the contributions buy after the split.
PowerIsBought ==
  /\ partyMinted = SumFunction([t \in Cards |-> cards[t].power])
  /\ partyMinted + credit.power <= PowerFor(totalContributions)

\* In the end the crowdfund is finalized or every card that is worth something
\* has been refunded.
Ends ==
  <>(\/ expiry = 0 /\ credit = NoCredit
     \/ Lifecycle = "Lost" /\ \A t \in Cards : RefundFor(cards[t].power) = 0)

\* A contributor who gets the first card of the party on a contribution delegates
\* to whom the crowdfund has on record, as contributeFor() documents.
InitialDelegateIsOnlyInitial ==
  [][\A c \in Contributors :
       partyDelegate[c] = None /\ partyDelegate'[c] # None /\ Len(cards') > Len(cards)
       => partyDelegate'[c] = delegationsByContributor'[c]]_vars

=============================================================================
