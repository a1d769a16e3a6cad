--------------------- MODULE InitialETHCrowdfund_proofs ---------------------
(***************************************************************************)
(* InitialETHCrowdfund pays out exactly once, sells no power that is not   *)
(* paid for and keeps the ETH for its refunds, for every choice of         *)
(* options, contributors and amounts, with the calls back that a           *)
(* contribution which reaches the cap makes.                               *)
(***************************************************************************)
EXTENDS InitialETHCrowdfund, ETHCrowdfundBase_proofs

\* Every step of an initial crowdfund keeps what it was paid accounted for.
LEMMA PaidStep == PaidInv /\ [Next]_vars => PaidInv'
  <1> SUFFICES ASSUME PaidInv, [Next]_vars PROVE PaidInv'
    OBVIOUS
  <1>1. ASSUME NEW s, NEW c, NEW d, OnlyDelegates(s, c, d) PROVE PaidInv'
    BY <1>1, StillPays DEF OnlyDelegates
  <1>2. ASSUME NEW s, NEW c, NEW d, NEW t, NEW amount \in Amounts, Contribute(s, c, t, amount, d)
        PROVE  PaidInv'
    BY <1>2, ContributedPays DEF Contribute
  <1>3. ASSUME ContributeReturn PROVE PaidInv'
    BY <1>3, StillPays DEF ContributeReturn
  <1>4. ASSUME NEW amount \in Amounts, LegFails(amount) PROVE PaidInv'
    BY <1>4, LegFailsPays
  <1>5. ASSUME NEW isHost \in BOOLEAN, Finalize(isHost) PROVE PaidInv'
    BY <1>5, FinalizePays
  <1>6. ASSUME NEW t \in Cards, Refund(t) PROVE PaidInv'
    BY <1>6, RefundPays DEF Refund
  <1>7. ASSUME NEW c, NEW t, Burn(c, t) PROVE PaidInv'
    BY <1>7, StillPays DEF Burn
  <1>8. ASSUME NEW c, NEW to, NEW t, Transfer(c, to, t) PROVE PaidInv'
    BY <1>8, StillPays DEF Transfer
  <1>9. ASSUME Tick PROVE PaidInv'
    BY <1>9, TickPays DEF Tick
  <1>10. CASE UNCHANGED vars
    BY <1>10, StillPays DEF vars, baseVars
  <1> QED
    BY <1>1, <1>2, <1>3, <1>4, <1>5, <1>6, <1>7, <1>8, <1>9, <1>10 DEF Next

\* The party and the recipient of the split are paid the contributions exactly
\* once, and the party's total voting power grows with that payment only.
THEOREM PaysOnce == Spec => []PaidOutOnce
  <1>1. PaidInv => PaidOutOnce
    BY DEF PaidInv
  <1> QED
    BY <1>1, PaidStart, PaidStep, PTL DEF Spec, Init


----------------------------------------------------------------------------
(* The invariant                                                           *)

\* All power that was granted is on the cards, and it and what waits to be granted was paid
\* for.  What each contribution and refund rounds away cannot exceed what the sum does only
\* if no contribution is rounded: then the ETH is there for all refunds, too.
BoughtInv ==
  /\ LedgerInv /\ CardsTyped /\ CreditTyped
  /\ partyMinted = CardSum(cards)
  /\ PaidFor(partyMinted + credit.power, totalContributions)
  /\ Even => /\ EvenFor(totalContributions)
             /\ PaidFor(partyMinted + credit.power, Net(totalContributions))
             /\ expiry # 0 => Backed(partyMinted, eth.crowdfund)

\* What is granted fits under the total of the party: there is none before the payout, and
\* the payout counts the split as well.
LEMMA GrantsFit ==
  ASSUME BoughtInv
  PROVE  /\ partyTotal \in Nat /\ credit.power \in Nat /\ totalContributions \in Nat
         /\ eth.crowdfund \in Nat /\ partyMinted \in Nat
         /\ expiry # 0 => partyTotal = 0 /\ credit = NoCredit /\ credit.power = 0
         /\ expiry = 0 => partyMinted + credit.power <= partyTotal
<1>1. /\ LedgerInv /\ CardsTyped /\ CreditTyped
      /\ PaidFor(partyMinted + credit.power, totalContributions)
  BY DEF BoughtInv
<1>2. PICK m \in Nat, p \in Nat, t \in Nat, w \in Nat :
        m = partyMinted /\ p = credit.power /\ t = totalContributions /\ w = eth.crowdfund
  BY <1>1 DEF LedgerInv, PaidInv, Balances, CardsTyped, CreditTyped
<1>3. StartTotal = 0
  BY NewPartyAssumption
<1>4. /\ partyTotal \in Nat
      /\ expiry # 0 => partyTotal = StartTotal
      /\ \A n \in Nat : expiry = 0 /\ n * Bps <= t * ExchangeRateBps => StartTotal + n <= partyTotal
  BY <1>1, <1>2, TotalIs
<1>5. PICK n \in Nat : n = m + p
  OBVIOUS
<1>6. n * Bps <= t * ExchangeRateBps
  BY <1>1, <1>2, <1>5, Zenon DEF PaidFor
<1>7. expiry = 0 => StartTotal + n <= partyTotal
  BY <1>4, <1>6
<1>8. expiry = 0 => partyMinted + credit.power <= partyTotal
  <2>1. 0 + n = n
    OBVIOUS
  <2>2. QED
    BY <1>2, <1>3, <1>5, <1>7, <2>1
<1>9. expiry # 0 => credit = NoCredit /\ credit.power = 0
  <2>1. NoCredit.power = 0
    BY DEF NoCredit
  <2>2. QED
    BY <1>1, <2>1 DEF CreditTyped
<1>10. QED
  BY <1>2, <1>3, <1>4, <1>8, <1>9

\* A new crowdfund has sold nothing.
LEMMA BoughtAtStart == Init => BoughtInv
<1> SUFFICES ASSUME Init PROVE BoughtInv
  OBVIOUS
<1>1. BaseInit
  BY DEF Init
<1>2. LedgerInv /\ CardsTyped /\ CreditTyped /\ credit.power = 0
  BY <1>1, LedgerAtStart, TypesAtStart
<1>3. StartTotal = 0 /\ StartHolder = None /\ StartMinted = 0
  BY NewPartyAssumption, Constants
<1>4. partyMinted = 0 /\ cards = <<>> /\ totalContributions = 0 /\ eth.crowdfund = 0
  BY <1>1, <1>3 DEF BaseInit
<1>5. CardSum(cards) = 0
  <2>1. 1 .. Len(cards) = {}
    BY <1>4
  <2>2. QED
    BY <2>1, SumEmpty, Zenon DEF CardSum
<1>6. partyMinted + credit.power = 0
  BY <1>2, <1>4
<1>7. PaidFor(partyMinted + credit.power, totalContributions)
  BY <1>4, <1>6, NothingCosts, Zenon
<1>8. EvenFor(totalContributions) /\ PaidFor(partyMinted + credit.power, Net(totalContributions))
  BY <1>4, <1>6, NothingCosts, Zenon
<1>9. Backed(partyMinted, eth.crowdfund)
  BY <1>4, NothingCosts, Zenon
<1>10. QED
  BY <1>2, <1>4, <1>5, <1>7, <1>8, <1>9 DEF BoughtInv

\* What sells nothing keeps the invariant if the ETH for the refunds stays.
LEMMA BoughtKept ==
  ASSUME BoughtInv, LedgerInv', CardsTyped', CreditTyped', partyMinted' = CardSum(cards'),
         totalContributions' = totalContributions,
         partyMinted' + credit'.power <= partyMinted + credit.power,
         Even /\ expiry' # 0 => Backed(partyMinted', eth'.crowdfund)
  PROVE  BoughtInv'
<1>1. PICK n \in Nat, m \in Nat, t \in Nat :
        n = partyMinted + credit.power /\ m = partyMinted' + credit'.power /\ t = totalContributions
  <2>1. partyMinted + credit.power \in Nat
    BY GrantsFit
  <2>2. partyMinted' \in Nat /\ credit'.power \in Nat
    BY DEF CardsTyped, CreditTyped
  <2>3. partyMinted' + credit'.power \in Nat
    BY <2>2
  <2>4. totalContributions \in Nat
    BY GrantsFit
  <2>5. QED
    BY <2>1, <2>3, <2>4
<1>2. m <= n
  BY <1>1
<1>3. PICK u \in Nat : u = Net(t)
  BY NetIs
<1>4. PaidFor(n, t) => PaidFor(m, t)
  BY <1>2, PaidForMore
<1>5. PaidFor(n, u) => PaidFor(m, u)
  BY <1>2, PaidForMore
<1>6. PaidFor(n, t) /\ (Even => EvenFor(t) /\ PaidFor(n, u))
  BY <1>1, <1>3, Zenon DEF BoughtInv
<1>7. PaidFor(partyMinted + credit.power, totalContributions)'
  BY <1>1, <1>4, <1>6, Zenon DEF PaidFor
<1>8. Even => /\ EvenFor(totalContributions)'
              /\ PaidFor(partyMinted + credit.power, Net(totalContributions))'
  BY <1>1, <1>3, <1>5, <1>6, Zenon DEF PaidFor, EvenFor, Net, FeeOf
<1>9. Even /\ expiry' # 0 => Backed(partyMinted, eth.crowdfund)'
  BY Zenon DEF Backed
<1>10. QED
  BY <1>7, <1>8, <1>9 DEF BoughtInv, Even

\* A contribution buys what it pays for, now or once the calls return.
LEMMA BoughtOnContribution ==
  ASSUME BoughtInv, NEW s, NEW c \in Contributors, NEW d \in Contributors, NEW t \in Nat,
         NEW amount \in Amounts, Contribute(s, c, t, amount, d)
  PROVE  BoughtInv'
<1>1. Contributed(s, c, amount, d)
  BY DEF Contribute
<1>2. LedgerInv /\ CardsTyped /\ CreditTyped
  BY DEF BoughtInv
<1>3. /\ LedgerInv' /\ expiry # 0 /\ Counted(amount) \in Nat
      /\ totalContributions' = totalContributions + Counted(amount)
      /\ ReachesCap(amount) => expiry' = 0
      /\ ~ReachesCap(amount) => /\ Counted(amount) = amount
                                /\ eth'.crowdfund = eth.crowdfund + amount
                                /\ UNCHANGED <<expiry, partyTotal>>
  BY <1>1, <1>2, LedgerOnContribution
<1>4. PICK k \in Nat, p \in Nat, n \in Nat :
        k = Counted(amount) /\ p = PowerFor(k) /\ n = Net(k)
        /\ PaidFor(p, k) /\ PaidFor(p, n)
  BY <1>3, PowerIs, NetIs DEF PaidFor
<1>5. PICK m \in Nat, q \in Nat, w \in Nat :
        /\ m = partyMinted /\ q = totalContributions /\ w = eth.crowdfund
        /\ credit = NoCredit /\ credit.power = 0 /\ partyTotal = 0
  BY <1>3, GrantsFit
<1>6. delegationsByContributor' \in Delegates
  BY <1>1, <1>2, DelegationType DEF Contributed, CreditTyped
<1>7. /\ CardsTyped' /\ CreditTyped' /\ partyMinted' = CardSum(cards')
      /\ partyMinted' + credit'.power = m + p
      /\ ~ReachesCap(amount) => partyMinted' = m + p
  <2>1. CASE ~ReachesCap(amount)
    <3>1. Grant(c, t, p, d) /\ credit' = credit
      BY <1>4, <2>1 DEF Contribute
    <3>2. Fits(p)
      BY <1>5 DEF Fits
    <3>3. CardsTyped' /\ partyMinted' = partyMinted + p /\ partyMinted' = CardSum(cards')
      BY <1>2, <1>5, <3>1, <3>2, GrantsAddUp DEF BoughtInv
    <3>4. CreditTyped' /\ credit'.power = 0
      BY <1>5, <1>6, <3>1, CreditGone
    <3>5. (m + p) + 0 = m + p
      OBVIOUS
    <3>6. QED
      BY <1>5, <3>3, <3>4, <3>5
  <2>2. CASE ReachesCap(amount)
    <3>1. /\ credit' = [contributor |-> c, power |-> p, card |-> t, delegate |-> d]
          /\ UNCHANGED <<partyMinted, cards, partyDelegate>>
      BY <1>4, <2>2 DEF Contribute, partyVars
    <3>2. CreditTyped'
      BY <1>3, <1>6, <2>2, <3>1 DEF CreditTyped
    <3>3. CardsTyped' /\ partyMinted' = CardSum(cards')
      BY <1>2, <3>1 DEF CardsTyped, BoughtInv
    <3>4. credit'.power = p
      BY <3>1
    <3>5. QED
      BY <1>5, <2>2, <3>1, <3>2, <3>3, <3>4
  <2>3. QED
    BY <2>1, <2>2
<1>8. PaidFor(m, q) /\ (Even => EvenFor(q) /\ PaidFor(m, Net(q)) /\ Backed(m, w))
  <2>1. partyMinted + credit.power = m
    BY <1>5
  <2>2. QED
    BY <1>3, <1>5, <2>1, Zenon DEF BoughtInv
<1>9. PaidFor(m + p, q + k)
  BY <1>4, <1>8, PaidForMore
<1>10. ASSUME Even
       PROVE  /\ EvenFor(q + k) /\ PaidFor(m + p, Net(q + k))
              /\ ~ReachesCap(amount) => Backed(m + p, w + k)
  <2>1. /\ EvenFor(k) /\ EvenFor(q + k)
        /\ Net(q + k) = Net(q) + Net(k)
    BY <1>1, <1>2, <1>3, <1>4, <1>5, <1>8, <1>10, EvenContribution
  <2>2. PaidFor(m + p, Net(q) + n)
    BY <1>4, <1>8, <1>10, NetIs, PaidForMore
  <2>3. Backed(p, k)
    BY <1>4, <2>1, EvenIsBacked
  <2>4. Backed(m + p, w + k)
    BY <1>8, <1>10, <2>3, BackedMore
  <2>5. QED
    BY <1>4, <2>1, <2>2, <2>4
<1>11. PaidFor(partyMinted + credit.power, totalContributions)'
  BY <1>3, <1>4, <1>5, <1>7, <1>9, Zenon DEF PaidFor
<1>12. Even => /\ EvenFor(totalContributions)'
               /\ PaidFor(partyMinted + credit.power, Net(totalContributions))'
  BY <1>3, <1>4, <1>5, <1>7, <1>10, Zenon DEF PaidFor, EvenFor, Net, FeeOf
<1>13. Even /\ expiry' # 0 => Backed(partyMinted, eth.crowdfund)'
  <2>1. expiry' # 0 => /\ ~ReachesCap(amount) /\ k = amount
                       /\ eth'.crowdfund = w + k /\ partyMinted' = m + p
    BY <1>3, <1>4, <1>5, <1>7
  <2>2. QED
    BY <1>10, <2>1, Zenon DEF Backed
<1>14. QED
  BY <1>3, <1>7, <1>11, <1>12, <1>13 DEF BoughtInv, Even

\* When the calls return, the contributor gets what it paid for.
LEMMA BoughtOnReturn ==
  ASSUME BoughtInv, ContributeReturn
  PROVE  BoughtInv'
<1>1. /\ credit # NoCredit /\ credit' = NoCredit
      /\ Grant(credit.contributor, credit.card, credit.power, credit.delegate)
      /\ UNCHANGED <<now, expiry, totalContributions, delegationsByContributor, eth, partyTotal>>
  BY DEF ContributeReturn
<1>2. LedgerInv /\ CardsTyped /\ CreditTyped /\ partyMinted = CardSum(cards)
  BY DEF BoughtInv
<1>3. PICK c \in Contributors, t \in Nat, p \in Nat, d \in Contributors \cup {None} :
        c = credit.contributor /\ t = credit.card /\ p = credit.power /\ d = credit.delegate
        /\ expiry = 0
  BY <1>1, <1>2 DEF CreditTyped
<1>4. partyTotal \in Nat /\ partyMinted \in Nat /\ Fits(p)
  BY <1>3, GrantsFit DEF Fits
<1>5. CardsTyped' /\ partyMinted' = partyMinted + p /\ partyMinted' = CardSum(cards')
  BY <1>1, <1>2, <1>3, <1>4, GrantsAddUp
<1>6. CreditTyped' /\ credit'.power = 0
  BY <1>1, <1>2, CreditGone DEF CreditTyped
<1>7. LedgerInv'
  BY <1>1, <1>2, LedgerAside
<1>8. partyMinted' + credit'.power <= partyMinted + credit.power
  BY <1>3, <1>4, <1>5, <1>6
<1>9. expiry' = 0 /\ totalContributions' = totalContributions
  BY <1>1, <1>3
<1>10. QED
  BY <1>5, <1>6, <1>7, <1>8, <1>9, BoughtKept

\* What touches neither cards nor credit.
LEMMA BoughtAside ==
  ASSUME BoughtInv, LedgerInv', totalContributions' = totalContributions,
         delegationsByContributor' \in Delegates,
         partyMinted' = partyMinted, cards' = cards, partyDelegate' = partyDelegate,
         credit' = credit,
         \/ expiry' = expiry /\ eth'.crowdfund \in Nat /\ eth'.crowdfund >= eth.crowdfund
         \/ expiry' = 0
  PROVE  BoughtInv'
<1>1. CardsTyped' /\ partyMinted' = CardSum(cards')
  BY DEF BoughtInv, CardsTyped
<1>2. CreditTyped'
  BY CreditKept DEF BoughtInv
<1>3. PICK m \in Nat, w \in Nat, n \in Nat :
        m = partyMinted /\ w = eth.crowdfund /\ n = partyMinted + credit.power
  <2>1. partyMinted \in Nat /\ eth.crowdfund \in Nat /\ credit.power \in Nat
    BY GrantsFit
  <2>2. partyMinted + credit.power \in Nat
    BY <2>1
  <2>3. QED
    BY <2>1, <2>2
<1>4. Even /\ expiry' # 0 => Backed(partyMinted', eth'.crowdfund)
  <2>1. SUFFICES ASSUME Even, expiry' # 0 PROVE Backed(m, eth'.crowdfund)
    BY <1>3
  <2>2. PICK v \in Nat : v = eth'.crowdfund /\ w <= v /\ expiry # 0
    BY <1>3, <2>1
  <2>3. Backed(m, w)
    BY <1>3, <2>1, <2>2 DEF BoughtInv
  <2>4. Backed(m, v)
    BY <2>2, <2>3, BackedMore, SMTT(30)
  <2>5. QED
    BY <2>2, <2>4
<1>5. partyMinted' + credit'.power <= partyMinted + credit.power
  BY <1>3
<1>6. QED
  BY <1>1, <1>2, <1>4, <1>5, BoughtKept

\* Who burns a card leaves its price to the others.
LEMMA BoughtOnBurn ==
  ASSUME BoughtInv, NEW c \in Contributors, NEW t \in Cards, Burn(c, t)
  PROVE  BoughtInv'
<1>1. /\ BurnCard(t) /\ cards[t].owner # None
      /\ UNCHANGED <<now, expiry, totalContributions, delegationsByContributor, eth,
                     partyTotal, credit>>
  BY Constants DEF Burn, Movable, Owns
<1>2. LedgerInv /\ CardsTyped /\ CreditTyped /\ partyMinted = CardSum(cards)
  BY DEF BoughtInv
<1>3. /\ CardsTyped' /\ partyMinted' = CardSum(cards')
      /\ cards[t].power \in Nat /\ cards[t].power <= partyMinted
      /\ partyMinted' = partyMinted - cards[t].power
  BY <1>1, <1>2, BurnIs, CardSumIs DEF CardsTyped
<1>4. LedgerInv' /\ CreditTyped'
  BY <1>1, <1>2, LedgerAside, CreditKept DEF CreditTyped
<1>5. PICK m \in Nat, n \in Nat, q \in Nat, w \in Nat :
        m = partyMinted /\ n = partyMinted' /\ q = credit.power /\ w = eth.crowdfund /\ n <= m
  <2>1. partyMinted \in Nat /\ credit.power \in Nat /\ eth.crowdfund \in Nat
    BY GrantsFit
  <2>2. partyMinted' \in Nat /\ partyMinted' <= partyMinted
    BY <1>3, <2>1
  <2>3. QED
    BY <2>1, <2>2
<1>6. Even /\ expiry' # 0 => Backed(partyMinted', eth'.crowdfund)
  <2>1. SUFFICES ASSUME Even, expiry # 0 PROVE Backed(n, w)
    BY <1>1, <1>5
  <2>2. Backed(m, w)
    BY <1>5, <2>1 DEF BoughtInv
  <2>3. w <= w
    OBVIOUS
  <2>4. QED
    BY <1>5, <2>2, <2>3, BackedMore
<1>7. partyMinted' + credit'.power <= partyMinted + credit.power
  BY <1>1, <1>5
<1>8. QED
  BY <1>1, <1>3, <1>4, <1>6, <1>7, BoughtKept

\* A refund takes no more than the card's part of what backs all.
LEMMA BoughtOnRefund ==
  ASSUME BoughtInv, NEW t \in Cards, Refund(t)
  PROVE  BoughtInv'
<1>1. PICK amount : amount = RefundFor(cards[t].power)
  OBVIOUS
<1>2. /\ BurnCard(t) /\ cards[t].owner # None /\ eth.crowdfund >= amount
      /\ eth' = [eth EXCEPT !.crowdfund = @ - amount, !.contributors = @ + amount]
      /\ UNCHANGED <<now, expiry, totalContributions, delegationsByContributor, partyTotal, credit>>
      /\ Lifecycle = "Lost"
  BY <1>1 DEF Refund
<1>3. LedgerInv /\ CardsTyped /\ CreditTyped /\ partyMinted = CardSum(cards)
  BY DEF BoughtInv
<1>4. /\ CardsTyped' /\ partyMinted' = CardSum(cards')
      /\ cards[t].power \in Nat /\ cards[t].power <= partyMinted
      /\ partyMinted' = partyMinted - cards[t].power
  BY <1>2, <1>3, BurnIs, CardSumIs DEF CardsTyped
<1>5. PICK m \in Nat, p \in Nat, q \in Nat, w \in Nat, r \in Nat :
        /\ m = partyMinted /\ p = cards[t].power /\ q = credit.power /\ w = eth.crowdfund
        /\ r = amount /\ p <= m /\ r <= w
  <2>1. partyMinted \in Nat /\ credit.power \in Nat /\ eth.crowdfund \in Nat
    BY GrantsFit
  <2>2. amount \in Nat /\ amount <= eth.crowdfund
    BY <1>1, <1>2, <1>4, <2>1, RefundIs
  <2>3. QED
    BY <1>4, <2>1, <2>2
<1>6. LedgerInv' /\ eth'.crowdfund = w - r
  BY <1>2, <1>3, <1>5, LedgerOnRefund
<1>7. CreditTyped'
  BY <1>2, <1>3, CreditKept DEF CreditTyped
<1>8. Even /\ expiry' # 0 => Backed(partyMinted', eth'.crowdfund)
  <2>1. SUFFICES ASSUME Even, expiry # 0 PROVE Backed(m - p, w - r)
    BY <1>2, <1>4, <1>5, <1>6
  <2>2. Backed(m, w)
    BY <1>5, <2>1 DEF BoughtInv
  <2>3. r = RefundFor(p)
    BY <1>1, <1>5
  <2>4. QED
    BY <1>5, <2>2, <2>3, BackedLess
<1>9. partyMinted' + credit'.power <= partyMinted + credit.power
  BY <1>2, <1>4, <1>5
<1>10. QED
  BY <1>2, <1>4, <1>6, <1>7, <1>8, <1>9, BoughtKept

\* A card that changes hands keeps its power.
LEMMA BoughtOnTransfer ==
  ASSUME BoughtInv, NEW c \in Contributors, NEW to \in Contributors, NEW t, Transfer(c, to, t)
  PROVE  BoughtInv'
<1>1. UNCHANGED <<now, expiry, totalContributions, delegationsByContributor, eth,
                  partyTotal, partyMinted, credit>>
  BY DEF Transfer
<1>2. LedgerInv /\ CardsTyped /\ CreditTyped /\ partyMinted = CardSum(cards)
  BY DEF BoughtInv
<1>3. /\ CardsTyped' /\ Len(cards') = Len(cards)
      /\ \A i \in 1 .. Len(cards) : cards'[i].power = cards[i].power
  BY <1>2, TransferIs
<1>4. CardSum(cards') = CardSum(cards)
  BY <1>2, <1>3, CardSumSame DEF CardsTyped
<1>5. LedgerInv' /\ CreditTyped'
  BY <1>1, <1>2, LedgerAside, CreditKept DEF CreditTyped
<1>6. partyMinted' + credit'.power <= partyMinted + credit.power
  <2>1. partyMinted + credit.power \in Nat
    BY GrantsFit
  <2>2. QED
    BY <1>1, <2>1
<1>7. Even /\ expiry' # 0 => Backed(partyMinted', eth'.crowdfund)
  BY <1>1 DEF BoughtInv
<1>8. QED
  BY <1>1, <1>2, <1>3, <1>4, <1>5, <1>6, <1>7, BoughtKept

\* Every step keeps the invariant.
LEMMA BoughtStep == BoughtInv /\ [Next]_vars => BoughtInv'
<1> SUFFICES ASSUME BoughtInv, [Next]_vars PROVE BoughtInv'
  OBVIOUS
<1>0. LedgerInv /\ delegationsByContributor \in Delegates /\ eth.crowdfund \in Nat
      /\ eth.crowdfund >= eth.crowdfund
  BY GrantsFit DEF BoughtInv, CreditTyped
<1>1. ASSUME NEW s, NEW c \in Contributors, NEW d \in Contributors, OnlyDelegates(s, c, d)
      PROVE  BoughtInv'
  <2>1. /\ UNCHANGED <<now, expiry, totalContributions, eth, partyTotal, credit>>
        /\ UNCHANGED <<partyMinted, cards, partyDelegate>>
    BY <1>1 DEF OnlyDelegates, partyVars
  <2>2. delegationsByContributor' \in Delegates
    BY <1>0, <1>1, DelegationType DEF OnlyDelegates
  <2>3. LedgerInv'
    BY <1>0, <2>1, LedgerAside
  <2>4. QED
    BY <1>0, <2>1, <2>2, <2>3, BoughtAside
<1>2. ASSUME NEW s, NEW c \in Contributors, NEW d \in Contributors, NEW t \in 0 .. Len(cards),
             NEW amount \in Amounts, Contribute(s, c, t, amount, d)
      PROVE  BoughtInv'
  <2>1. t \in Nat
    OBVIOUS
  <2>2. QED
    BY <1>2, <2>1, BoughtOnContribution
<1>3. ASSUME ContributeReturn PROVE BoughtInv'
  BY <1>3, BoughtOnReturn
<1>4. ASSUME NEW amount \in Amounts, LegFails(amount) PROVE BoughtInv'
  <2>1. /\ LedgerInv' /\ amount \in Nat /\ eth'.crowdfund = eth.crowdfund + amount
        /\ UNCHANGED <<expiry, totalContributions>>
    BY <1>0, <1>4, LedgerOnLeg
  <2>2. UNCHANGED <<delegationsByContributor, partyMinted, cards, partyDelegate, credit>>
    BY <1>4 DEF LegFails, partyVars
  <2>3. eth'.crowdfund \in Nat /\ eth'.crowdfund >= eth.crowdfund
    BY <1>0, <2>1
  <2>4. QED
    BY <1>0, <2>1, <2>2, <2>3, BoughtAside
<1>5. ASSUME NEW isHost \in BOOLEAN, Finalize(isHost) PROVE BoughtInv'
  <2>1. LedgerInv' /\ expiry' = 0 /\ totalContributions' = totalContributions
    BY <1>0, <1>5, LedgerOnFinalize
  <2>2. UNCHANGED <<delegationsByContributor, partyMinted, cards, partyDelegate, credit>>
    BY <1>5 DEF Finalize, partyVars
  <2>3. QED
    BY <1>0, <2>1, <2>2, BoughtAside
<1>6. ASSUME NEW t \in Cards, Refund(t) PROVE BoughtInv'
  BY <1>6, BoughtOnRefund
<1>7. ASSUME NEW c \in Contributors, NEW t \in Cards, Burn(c, t) PROVE BoughtInv'
  BY <1>7, BoughtOnBurn
<1>8. ASSUME NEW c \in Contributors, NEW to \in Contributors, NEW t \in Cards, Transfer(c, to, t)
      PROVE  BoughtInv'
  BY <1>8, BoughtOnTransfer
<1>9. ASSUME Tick PROVE BoughtInv'
  <2>1. UNCHANGED <<expiry, totalContributions, eth, partyTotal, delegationsByContributor,
                    partyMinted, cards, partyDelegate, credit>>
    BY <1>9 DEF Tick, BaseTick, partyVars
  <2>2. LedgerInv'
    BY <1>0, <1>9, <2>1, LedgerAside DEF Tick
  <2>3. QED
    BY <1>0, <2>1, <2>2, BoughtAside
<1>10. CASE UNCHANGED vars
  <2>1. UNCHANGED <<now, expiry, totalContributions, eth, partyTotal, delegationsByContributor,
                    partyMinted, cards, partyDelegate, credit>>
    BY <1>10 DEF vars, baseVars, partyVars
  <2>2. LedgerInv'
    BY <1>0, <2>1, LedgerAside
  <2>3. QED
    BY <1>0, <2>1, <2>2, BoughtAside
<1>11. QED
  BY <1>1, <1>2, <1>3, <1>4, <1>5, <1>6, <1>7, <1>8, <1>9, <1>10 DEF Next

----------------------------------------------------------------------------
(* The theorems                                                            *)

\* Every variable keeps its type: no balance, power or counter falls below zero, and the
\* ETH that came back to the contributors is never more than what they sent.
THEOREM TypeCorrect == Spec => []TypeOK
<1>1. BoughtInv => TypeOK
  BY BaseTypes DEF BoughtInv, TypeOK
<1>2. QED
  BY <1>1, BoughtAtStart, BoughtStep, PTL DEF Spec

\* The invariant says it in products.
LEMMA BoughtIsPaid ==
  ASSUME Even
  PROVE  BoughtInv => PowerIsBought
<1> SUFFICES ASSUME BoughtInv PROVE PowerIsBought
  OBVIOUS
<1>1. partyMinted = SumFunction([t \in Cards |-> cards[t].power])
  <2>1. cards \in Seq(CardType) /\ partyMinted = CardSum(cards)
    BY DEF BoughtInv, CardsTyped
  <2>2. Cards = 1 .. Len(cards)
    BY <2>1 DEF Cards
  <2>3. PICK f : f = [t \in 1 .. Len(cards) |-> cards[t].power]
    OBVIOUS
  <2>4. SumFunction(f) = SumFunctionOnSet(f, 1 .. Len(cards))
    BY <2>3, Zenon DEF SumFunction
  <2>5. QED
    BY <2>1, <2>2, <2>3, <2>4, Zenon DEF CardSum
<1>2. PICK p \in Nat, u \in Nat, x \in Nat, t \in Nat :
        /\ p = partyMinted + credit.power /\ t = totalContributions
        /\ u = Net(totalContributions) /\ x = ExchangeRateBps
  <2>1. partyMinted \in Nat /\ credit.power \in Nat /\ totalContributions \in Nat
    BY GrantsFit
  <2>2. partyMinted + credit.power \in Nat
    BY <2>1
  <2>3. Net(totalContributions) \in Nat /\ ExchangeRateBps \in Nat
    BY <2>1, NetIs, Constants
  <2>4. QED
    BY <2>1, <2>2, <2>3
<1>3. p * Bps <= u * x
  BY <1>2, Zenon DEF BoughtInv, PaidFor
<1>4. p <= (u * x) \div Bps
  <2>1. PICK k \in Nat : k = u * x
    OBVIOUS
  <2>2. p * Bps <= k
    BY <1>3, <2>1
  <2>3. p <= k \div Bps
    BY <2>2 DEF Bps
  <2>4. QED
    BY <2>1, <2>3
<1>5. PowerFor(t) = (u * x) \div Bps
  BY <1>2, PowerIs
<1>6. QED
  BY <1>1, <1>2, <1>4, <1>5 DEF PowerIsBought

\* When the split divides every amount, nobody has power that was not paid for: all cards,
\* and what is about to be granted, are within what the contributions buy after the split.
THEOREM PowerIsPaid == ASSUME Even PROVE Spec => []PowerIsBought
<1>1. BoughtInv => PowerIsBought
  BY BoughtIsPaid
<1>2. QED
  BY <1>1, BoughtAtStart, BoughtStep, PTL DEF Spec

\* What all refunds take is what refunds of the sum are worth, or less.
LEMMA BoughtIsFunded ==
  ASSUME Even
  PROVE  BoughtInv => RefundsFunded
<1> SUFFICES ASSUME BoughtInv, expiry # 0
             PROVE  eth.crowdfund >= SumFunction([t \in Cards |-> RefundFor(cards[t].power)])
  BY DEF RefundsFunded
<1>1. cards \in Seq(CardType) /\ partyMinted = CardSum(cards) /\ Backed(partyMinted, eth.crowdfund)
  BY DEF BoughtInv, CardsTyped
<1>2. Cards = 1 .. Len(cards) /\ IsFiniteSet(1 .. Len(cards))
  <2>1. Len(cards) \in Nat /\ Cards = 1 .. Len(cards)
    BY <1>1 DEF Cards
  <2>2. QED
    BY <2>1, FS_Interval
<1>3. PICK f : f = [t \in 1 .. Len(cards) |-> cards[t].power]
  OBVIOUS
<1>4. PICK g : g = [t \in 1 .. Len(cards) |-> RefundFor(cards[t].power)]
  OBVIOUS
<1>5. PICK k \in Nat, q \in Nat : k = NetBps * ExchangeRateBps /\ q = Bps * Bps
  BY RefundRate DEF Bps
<1>6. Bounded(f, g, 1 .. Len(cards), k, q)
  <2>1. ASSUME NEW t \in 1 .. Len(cards)
        PROVE  f[t] \in Nat /\ g[t] \in Nat /\ k * g[t] <= q * f[t]
    <3>1. PICK p \in Nat : p = cards[t].power
      BY <1>1, CardSumIs
    <3>2. RefundFor(p) \in Nat /\ k * RefundFor(p) <= q * p
      BY <1>5, RefundIs
    <3>3. f[t] = p /\ g[t] = RefundFor(p)
      BY <1>3, <1>4, <3>1
    <3>4. QED
      BY <3>2, <3>3
  <2>2. QED
    BY <2>1 DEF Bounded
<1>7. k * SumFunctionOnSet(g, 1 .. Len(cards)) <= q * SumFunctionOnSet(f, 1 .. Len(cards))
  BY <1>2, <1>6, SumBounded
<1>8. SumFunctionOnSet(g, 1 .. Len(cards)) \in Nat
  <2>1. \A t \in 1 .. Len(cards) : g[t] \in Int /\ g[t] >= 0
    BY <1>6 DEF Bounded
  <2>2. QED
    BY <1>2, <2>1, SumType
<1>9. PICK r \in Nat, p \in Nat, w \in Nat :
        /\ r = SumFunctionOnSet(g, 1 .. Len(cards)) /\ p = partyMinted /\ w = eth.crowdfund
        /\ p = SumFunctionOnSet(f, 1 .. Len(cards))
  <2>1. partyMinted = SumFunctionOnSet(f, 1 .. Len(cards))
    BY <1>1, <1>3, Zenon DEF CardSum
  <2>2. QED
    BY <1>8, <2>1, GrantsFit
<1>10. (NetBps * ExchangeRateBps) * r <= (Bps * Bps) * p
  BY <1>5, <1>7, <1>9, Zenon
<1>11. r <= w
  BY <1>1, <1>9, <1>10, BackedRefunds
<1>12. SumFunction(g) = r
  BY <1>4, <1>9, Zenon DEF SumFunction
<1>13. SumFunction([t \in Cards |-> RefundFor(cards[t].power)]) = r
  BY <1>2, <1>4, <1>12, Zenon
<1>14. QED
  BY <1>9, <1>11, <1>13

\* When the split divides every amount, the crowdfund holds enough for every refund it would
\* owe if it were lost, whatever was contributed, failed, burned or refunded.
THEOREM RefundsArePaid == ASSUME Even PROVE Spec => []RefundsFunded
<1>1. BoughtInv => RefundsFunded
  BY BoughtIsFunded
<1>2. QED
  BY <1>1, BoughtAtStart, BoughtStep, PTL DEF Spec

\* All power that was granted or waits to be fits under the total of the party.
GrantedFits == expiry = 0 => partyMinted + credit.power <= partyTotal

\* Whatever the split, the rate and the amounts are, the party's total covers the cards that
\* were minted before it was set, and the grant that waits for the calls is never cut.
THEOREM GrantsAreWhole == Spec => []GrantedFits
<1>1. BoughtInv => GrantedFits
  BY GrantsFit DEF GrantedFits
<1>2. QED
  BY <1>1, BoughtAtStart, BoughtStep, PTL DEF Spec
=============================================================================
