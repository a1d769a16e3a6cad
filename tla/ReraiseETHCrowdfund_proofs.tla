--------------------- MODULE ReraiseETHCrowdfund_proofs ---------------------
(***************************************************************************)
(* ReraiseETHCrowdfund pays out exactly once, keeps the ETH for its        *)
(* refunds and delivers the power it sold, for every choice of options,    *)
(* contributors and amounts, with the calls back that a contribution which *)
(* reaches the cap makes and the claims made within them.                  *)
(***************************************************************************)
EXTENDS ReraiseETHCrowdfund, ETHCrowdfundBase_proofs

\* So do the steps of a reraise that are not contributions, refunds or claims.
LEMMA AsidePays ==
  ASSUME PaidInv, Aside
  PROVE  PaidInv'
  <1>1. ASSUME NEW s, NEW c, NEW d, OnlyDelegates(s, c, d) PROVE PaidInv'
    BY <1>1, StillPays DEF OnlyDelegates
  <1>2. ASSUME NEW amount \in Amounts, LegFails(amount) PROVE PaidInv'
    BY <1>2, LegFailsPays
  <1>3. ASSUME NEW isHost \in BOOLEAN, Finalize(isHost) PROVE PaidInv'
    BY <1>3, FinalizePays
  <1>4. ASSUME NEW c, NEW to, NEW t, Transfer(c, to, t) PROVE PaidInv'
    BY <1>4, StillPays DEF Transfer
  <1>5. ASSUME BaseTick PROVE PaidInv'
    BY <1>5, TickPays
  <1> QED
    BY <1>1, <1>2, <1>3, <1>4, <1>5 DEF Aside

\* Every step of a reraise keeps what it was paid accounted for.
LEMMA PaidStep == PaidInv /\ [Next]_vars => PaidInv'
  <1> SUFFICES ASSUME PaidInv, [Next]_vars PROVE PaidInv'
    OBVIOUS
  <1>1. ASSUME NEW s, NEW c, NEW d, NEW amount \in Amounts, Contribute(s, c, amount, d)
        PROVE  PaidInv'
    BY <1>1, ContributedPays DEF Contribute
  <1>2. ASSUME ContributeReturn PROVE PaidInv'
    BY <1>2, StillPays DEF ContributeReturn
  <1>3. ASSUME NEW c, ClaimAny(c) PROVE PaidInv'
    BY <1>3, StillPays DEF ClaimAny, Claim, ClaimMultiple
  <1>4. ASSUME NEW c, Refund(c) PROVE PaidInv'
    BY <1>4, RefundPays DEF Refund
  <1>5. ASSUME Aside PROVE PaidInv'
    BY <1>5, AsidePays
  <1>6. ASSUME NEW c, NEW t, BurnPartyCard(c, t) PROVE PaidInv'
    BY <1>6, StillPays DEF BurnPartyCard, Burn
  <1>7. CASE UNCHANGED vars
    BY <1>7, StillPays DEF vars, baseVars
  <1> QED
    BY <1>1, <1>2, <1>3, <1>4, <1>5, <1>6, <1>7 DEF Next, Operations

\* The party and the recipient of the split are paid the contributions exactly
\* once, and the party's total voting power grows with that payment only.
THEOREM PaysOnce == Spec => []PaidOutOnce
  <1>1. PaidInv => PaidOutOnce
    BY DEF PaidInv
  <1> QED
    BY <1>1, PaidStart, PaidStep, PTL DEF Spec, Init


----------------------------------------------------------------------------
(* Pending power                                                           *)

\* The types of what contributors claim.
PendingTyped ==
  /\ pendingVotingPower \in [Contributors -> Nat]
  /\ nfts \subseteq Contributors

\* All power that is pending.
PendingSum == SumFunctionOnSet(pendingVotingPower, Contributors)

\* It is a number, and nobody has more of it.
LEMMA PendingSumIs ==
  ASSUME PendingTyped
  PROVE  /\ PendingSum \in Nat
         /\ PendingSum = SumFunction(pendingVotingPower)
         /\ \A c \in Contributors :
              pendingVotingPower[c] \in Nat /\ pendingVotingPower[c] <= PendingSum
<1>1. IsFiniteSet(Contributors)
  BY Constants
<1>2. PICK f \in [Contributors -> Nat] : f = pendingVotingPower
  BY DEF PendingTyped
<1>3. \A c \in Contributors : f[c] \in Nat /\ f[c] \in Int /\ f[c] >= 0
  OBVIOUS
<1>4. /\ SumFunctionOnSet(f, Contributors) \in Nat
      /\ \A c \in Contributors : f[c] <= SumFunctionOnSet(f, Contributors)
  BY <1>1, <1>3, SumType, SumSubset
<1>5. DOMAIN f = Contributors
  OBVIOUS
<1>6. SumFunction(f) = SumFunctionOnSet(f, Contributors)
  BY <1>5, Zenon DEF SumFunction
<1>7. PendingSum = SumFunctionOnSet(f, Contributors)
  BY <1>2, Zenon DEF PendingSum
<1>8. QED
  BY <1>2, <1>3, <1>4, <1>6, <1>7

\* When one contributor's pending power changes, all of it does by as much.
LEMMA PendingChanges ==
  ASSUME PendingTyped, NEW c \in Contributors, NEW p \in Nat,
         pendingVotingPower' = [pendingVotingPower EXCEPT ![c] = p]
  PROVE  /\ pendingVotingPower' \in [Contributors -> Nat]
         /\ PendingSum' = PendingSum + p - pendingVotingPower[c]
<1>1. PICK f \in [Contributors -> Nat] : f = pendingVotingPower
  BY DEF PendingTyped
<1>2. PICK g \in [Contributors -> Nat] : g = pendingVotingPower' /\ g = [f EXCEPT ![c] = p]
  <2>1. [f EXCEPT ![c] = p] \in [Contributors -> Nat]
    OBVIOUS
  <2>2. QED
    BY <1>1, <2>1
<1>3. /\ IsFiniteSet(Contributors)
      /\ \A x \in Contributors : f[x] \in Int /\ g[x] \in Int
      /\ \A x \in Contributors \ {c} : f[x] = g[x]
      /\ g[c] = p
  BY <1>2, Constants
<1>4. SumFunctionOnSet(g, Contributors) = SumFunctionOnSet(f, Contributors) + g[c] - f[c]
  BY <1>3, SumChange
<1>5. PendingSum = SumFunctionOnSet(f, Contributors)
  BY <1>1, Zenon DEF PendingSum
<1>6. PendingSum' = SumFunctionOnSet(g, Contributors)
  BY <1>2, Zenon DEF PendingSum
<1>7. QED
  BY <1>1, <1>2, <1>3, <1>4, <1>5, <1>6

\* What a contributor is credited is pending, under its NFT.
LEMMA CreditedIs ==
  ASSUME PendingTyped, NEW c \in Contributors, NEW p \in Nat, Credited(c, p)
  PROVE  /\ PendingTyped'
         /\ PendingSum' = PendingSum + p
         /\ p > 0 /\ NftsMatchPower => NftsMatchPower'
<1>1. /\ pendingVotingPower' = [pendingVotingPower EXCEPT ![c] = @ + p]
      /\ nfts' = nfts \cup {c}
  BY DEF Credited
<1>2. PICK q \in Nat, n \in Nat : q = pendingVotingPower[c] /\ n = PendingSum
  BY PendingSumIs
<1>3. pendingVotingPower' = [pendingVotingPower EXCEPT ![c] = q + p] /\ q + p \in Nat
  BY <1>1, <1>2 DEF PendingTyped
<1>4. /\ pendingVotingPower' \in [Contributors -> Nat]
      /\ PendingSum' = PendingSum + (q + p) - pendingVotingPower[c]
  BY <1>3, PendingChanges
<1>5. PendingSum' = PendingSum + p
  <2>1. n + (q + p) - q = n + p
    OBVIOUS
  <2>2. QED
    BY <1>2, <1>4, <2>1
<1>6. nfts' \subseteq Contributors
  BY <1>1 DEF PendingTyped
<1>7. ASSUME p > 0, NftsMatchPower PROVE NftsMatchPower'
  <2>1. q + p > 0
    BY <1>7
  <2>2. \A x \in Contributors :
          pendingVotingPower'[x] = IF x = c THEN q + p ELSE pendingVotingPower[x]
    BY <1>3 DEF PendingTyped
  <2>3. QED
    BY <1>1, <1>7, <2>1, <2>2 DEF NftsMatchPower
<1>8. QED
  BY <1>4, <1>5, <1>6, <1>7 DEF PendingTyped

\* What a contributor takes is pending no longer, and its NFT is gone.
LEMMA TakenIs ==
  ASSUME PendingTyped, NEW c \in Contributors, TakeFrom(c)
  PROVE  /\ PendingTyped'
         /\ pendingVotingPower[c] \in Nat /\ pendingVotingPower[c] <= PendingSum
         /\ PendingSum' = PendingSum - pendingVotingPower[c]
         /\ NftsMatchPower => NftsMatchPower'
<1>1. /\ pendingVotingPower' = [pendingVotingPower EXCEPT ![c] = 0]
      /\ nfts' = nfts \ {c}
  BY DEF TakeFrom
<1>2. PICK q \in Nat, n \in Nat : q = pendingVotingPower[c] /\ n = PendingSum /\ q <= n
  BY PendingSumIs
<1>3. 0 \in Nat
  OBVIOUS
<1>4. /\ pendingVotingPower' \in [Contributors -> Nat]
      /\ PendingSum' = PendingSum + 0 - pendingVotingPower[c]
  BY <1>1, <1>3, PendingChanges
<1>5. PendingSum' = n - q
  BY <1>2, <1>4
<1>6. nfts' \subseteq Contributors
  BY <1>1 DEF PendingTyped
<1>7. ASSUME NftsMatchPower PROVE NftsMatchPower'
  <2>1. \A x \in Contributors :
          pendingVotingPower'[x] = IF x = c THEN 0 ELSE pendingVotingPower[x]
    BY <1>1 DEF PendingTyped
  <2>2. QED
    BY <1>1, <1>7, <2>1 DEF NftsMatchPower
<1>8. QED
  BY <1>2, <1>4, <1>5, <1>6, <1>7 DEF PendingTyped

----------------------------------------------------------------------------
(* The invariant                                                           *)

\* All power that was ever on cards of the party.
Issued == partyMinted + burned

\* The cards have no more than the power the party counts as minted.
CardsHeld == CardsTyped /\ burned \in Nat /\ CardSum(cards) <= partyMinted

\* The power that was sold and not refunded: pending, on its way and on new cards, burned or not.
Sold == (PendingSum + credit.power) + (Issued - StartMinted)

\* Whether the rate gives a vote for each wei.
Generous == ExchangeRateBps >= Bps

\* Contributions paid for what is sold, new cards come after the payout only, and only a lost
\* crowdfund takes back what it sold.  The rest is true only without certain roundings: that
\* a contribution buys something, that the refunds are there and that nothing is left over.
PendingInv ==
  /\ LedgerInv /\ CardsHeld /\ CreditTyped /\ PendingTyped
  /\ StartMinted <= Issued
  /\ expiry # 0 => Issued = StartMinted
  /\ PaidFor(Sold, totalContributions)
  /\ Generous => NftsMatchPower /\ (credit # NoCredit => credit.power > 0)
  /\ Even => /\ EvenFor(totalContributions)
             /\ expiry # 0 => Backed(PendingSum, eth.crowdfund)
  /\ Exact => /\ ExactFor(totalContributions)
              /\ Lifecycle # "Lost" => Sold = PowerFor(totalContributions)

\* What is owed fits under the total of the party, so that no claim is cut.
LEMMA OwedFits ==
  ASSUME PendingInv
  PROVE  /\ partyTotal \in Nat /\ credit.power \in Nat /\ totalContributions \in Nat
         /\ eth.crowdfund \in Nat /\ Issued \in Nat /\ PendingSum \in Nat
         /\ partyMinted \in Nat /\ partyMinted <= Issued
         /\ StartMinted \in Nat /\ Sold \in Nat
         /\ expiry # 0 => credit = NoCredit /\ credit.power = 0
         /\ expiry = 0 => partyMinted + (PendingSum + credit.power) <= partyTotal
<1>1. LedgerInv /\ CardsHeld /\ CreditTyped /\ PendingTyped /\ PaidFor(Sold, totalContributions)
  BY DEF PendingInv
<1>2. PendingSum \in Nat
  BY <1>1, PendingSumIs
<1>3. PICK m \in Nat, i \in Nat, p \in Nat, t \in Nat, w \in Nat, g \in Nat, s \in Nat, u \in Nat :
        /\ m = Issued /\ i = partyMinted /\ i <= m /\ p = credit.power /\ t = totalContributions /\ w = eth.crowdfund
        /\ g = PendingSum /\ s = StartMinted /\ u = StartTotal
  <2>1. partyMinted \in Nat /\ Issued \in Nat /\ partyMinted <= Issued /\ credit.power \in Nat
    BY <1>1 DEF CardsHeld, CardsTyped, CreditTyped, Issued
  <2>2. totalContributions \in Nat /\ eth.crowdfund \in Nat
    BY <1>1 DEF LedgerInv, PaidInv, Balances
  <2>3. StartMinted \in Nat /\ StartTotal \in Nat
    BY Constants
  <2>4. QED
    BY <1>2, <2>1, <2>2, <2>3
<1>4. s <= m /\ s <= u
  BY <1>3, Constants DEF PendingInv
<1>5. PICK n \in Nat : n = (g + p) + (m - s)
  BY <1>4
<1>6. Sold = n
  BY <1>3, <1>5 DEF Sold
<1>7. /\ partyTotal \in Nat
      /\ \A k \in Nat : expiry = 0 /\ k * Bps <= t * ExchangeRateBps => u + k <= partyTotal
  BY <1>1, <1>3, TotalIs
<1>8. n * Bps <= t * ExchangeRateBps
  BY <1>1, <1>3, <1>6, Zenon DEF PaidFor
<1>9. expiry = 0 => u + n <= partyTotal
  BY <1>7, <1>8
<1>10. expiry = 0 => i + (g + p) <= partyTotal
  <2>1. PICK k \in Nat : k = partyTotal
    BY <1>7
  <2>2. u + n <= k => i + (g + p) <= k
    BY <1>3, <1>4, <1>5
  <2>3. QED
    BY <1>9, <2>1, <2>2
<1>11. expiry # 0 => credit = NoCredit /\ credit.power = 0
  <2>1. NoCredit.power = 0
    BY DEF NoCredit
  <2>2. QED
    BY <1>1, <2>1 DEF CreditTyped
<1>12. QED
  BY <1>3, <1>6, <1>7, <1>10, <1>11

\* At the start the only member has one card, if any.
LEMMA CardsAtStart == BaseInit => CardSum(cards) <= partyMinted
<1> SUFFICES ASSUME BaseInit PROVE CardSum(cards) <= partyMinted
  OBVIOUS
<1>1. partyMinted = StartMinted /\ StartMinted \in Nat
  BY Constants DEF BaseInit
<1>2. CASE StartHolder = None
  <2>1. Len(cards) = 0 /\ 1 .. 0 = {}
    BY <1>2 DEF BaseInit
  <2>2. CardSum(cards) = 0
    BY <2>1, SumEmpty, Zenon DEF CardSum
  <2>3. QED
    BY <1>1, <2>2
<1>3. CASE StartHolder # None
  <2>1. Len(cards) = 1 /\ cards[1].power = StartMinted /\ IsFiniteSet(1 .. 1)
    <3>1. cards = <<[owner |-> StartHolder, power |-> StartMinted]>>
      BY <1>3 DEF BaseInit
    <3>2. IsFiniteSet(1 .. 1)
      <4>1. 1 .. 1 = {1}
        OBVIOUS
      <4>2. QED
        BY <4>1, FS_Singleton
    <3>3. QED
      BY <3>1, <3>2
  <2>2. PICK f : f = [t \in 1 .. 1 |-> cards[t].power]
    OBVIOUS
  <2>3. f[1] = StartMinted
    BY <2>1, <2>2
  <2>4. 1 \in 1 .. 1 /\ (1 .. 1) \ {1} = {} /\ \A x \in 1 .. 1 : f[x] \in Int
    BY <1>1, <2>1, <2>3
  <2>5. SumFunctionOnSet(f, 1 .. 1) = f[1] + SumFunctionOnSet(f, (1 .. 1) \ {1})
    BY <2>1, <2>4, SumRemove
  <2>6. SumFunctionOnSet(f, 1 .. 1) = StartMinted + 0
    BY <2>3, <2>4, <2>5, SumEmpty
  <2>7. CardSum(cards) = StartMinted
    <3>1. CardSum(cards) = SumFunctionOnSet(f, 1 .. 1)
      BY <2>1, <2>2, Zenon DEF CardSum
    <3>2. StartMinted + 0 = StartMinted
      BY <1>1
    <3>3. QED
      BY <2>6, <3>1, <3>2
  <2>8. QED
    BY <1>1, <2>7
<1>4. QED
  BY <1>2, <1>3

\* A new crowdfund has sold nothing, and the party is as it was.
LEMMA PendingAtStart == Init => PendingInv
<1> SUFFICES ASSUME Init PROVE PendingInv
  OBVIOUS
<1>1. BaseInit /\ pendingVotingPower = [c \in Contributors |-> 0] /\ nfts = {} /\ burned = 0
  BY DEF Init
<1>2. LedgerInv /\ CardsHeld /\ CreditTyped /\ credit = NoCredit /\ credit.power = 0
  BY <1>1, LedgerAtStart, TypesAtStart, CardsAtStart DEF CardsHeld
<1>3. Issued = StartMinted /\ totalContributions = 0 /\ eth.crowdfund = 0
  BY <1>1, Constants DEF BaseInit, Issued
<1>4. PendingTyped /\ NftsMatchPower
  BY <1>1 DEF PendingTyped, NftsMatchPower
<1>5. PendingSum = 0
  <2>1. \A c \in Contributors : pendingVotingPower[c] = 0
    BY <1>1
  <2>2. QED
    BY <2>1, Constants, SumOfZeros, Zenon DEF PendingSum
<1>6. Sold = 0
  <2>1. StartMinted \in Nat
    BY Constants
  <2>2. (0 + 0) + (StartMinted - StartMinted) = 0
    BY <2>1
  <2>3. QED
    BY <1>2, <1>3, <1>5, <2>2 DEF Sold
<1>7. PaidFor(Sold, totalContributions) /\ Backed(PendingSum, eth.crowdfund)
  BY <1>3, <1>5, <1>6, NothingCosts, Zenon
<1>8. /\ EvenFor(totalContributions) /\ ExactFor(totalContributions)
      /\ Sold = PowerFor(totalContributions)
  BY <1>3, <1>6, NothingCosts, Zenon
<1>9. StartMinted <= Issued
  BY <1>3, Constants
<1>10. QED
  BY <1>2, <1>3, <1>4, <1>7, <1>8, <1>9 DEF PendingInv

\* What a step that sells nothing must show of the next state.
Kept ==
  /\ LedgerInv' /\ CardsHeld' /\ CreditTyped' /\ PendingTyped'
  /\ totalContributions' = totalContributions
  /\ StartMinted <= Issued'
  /\ expiry' # 0 => Issued' = StartMinted
  /\ Sold' \in Nat /\ Sold' <= Sold
  /\ Lifecycle' # "Lost" => Lifecycle # "Lost" /\ Sold' = Sold
  /\ Generous => NftsMatchPower' /\ (credit' # NoCredit => credit'.power > 0)
  /\ Even /\ expiry' # 0 => Backed(PendingSum', eth'.crowdfund)

\* What sells nothing keeps the invariant.
LEMMA PendingKept ==
  ASSUME PendingInv, Kept
  PROVE  PendingInv'
<1>1. PICK n \in Nat, m \in Nat, t \in Nat :
        n = Sold /\ m = Sold' /\ t = totalContributions /\ m <= n
  BY OwedFits DEF Kept
<1>2. PaidFor(n, t)
  BY <1>1 DEF PendingInv
<1>3. PaidFor(m, t)
  BY <1>1, <1>2, PaidForMore
<1>4. PaidFor(Sold, totalContributions)'
  BY <1>1, <1>3, Zenon DEF PaidFor, Kept
<1>5. totalContributions' = t
  BY <1>1 DEF Kept
<1>6. Even => /\ EvenFor(totalContributions)'
              /\ expiry' # 0 => Backed(PendingSum, eth.crowdfund)'
  <2>1. Even => EvenFor(t)
    BY <1>1 DEF PendingInv
  <2>2. QED
    BY <1>5, <2>1, Zenon DEF Kept, EvenFor, Backed
<1>7. Exact => /\ ExactFor(totalContributions)'
               /\ Lifecycle' # "Lost" => Sold' = PowerFor(totalContributions)'
  <2>1. Exact => ExactFor(t) /\ (Lifecycle # "Lost" => Sold = PowerFor(t))
    BY <1>1, Zenon DEF PendingInv
  <2>2. Lifecycle' # "Lost" => Lifecycle # "Lost" /\ Sold' = Sold
    BY DEF Kept
  <2>3. ExactFor(t) => ExactFor(totalContributions)'
    BY <1>5, Zenon DEF ExactFor, EvenFor, Net, FeeOf
  <2>4. PowerFor(totalContributions)' = PowerFor(t)
    BY <1>5, Zenon DEF PowerFor, FeeOf
  <2>5. QED
    BY <2>1, <2>2, <2>3, <2>4, Zenon
<1>8. /\ LedgerInv' /\ CardsHeld' /\ CreditTyped' /\ PendingTyped'
      /\ StartMinted <= Issued'
      /\ expiry' # 0 => Issued' = StartMinted
      /\ Generous => NftsMatchPower' /\ (credit' # NoCredit => credit'.power > 0)
  BY DEF Kept
<1>9. Generous' = Generous /\ Even' = Even /\ Exact' = Exact
  BY DEF Generous, Even, Exact
<1>10. QED
  BY <1>4, <1>6, <1>7, <1>8, <1>9, Zenon DEF PendingInv, NoCredit

\* A crowdfund that is lost stays lost.
LEMMA StaysLost ==
  ASSUME LedgerInv, UNCHANGED <<expiry, totalContributions>>, now' = now \/ BaseTick,
         Lifecycle = "Lost"
  PROVE  Lifecycle' = "Lost"
<1>1. PICK n \in Nat, e \in Nat : n = now /\ e = expiry
  BY Constants DEF LedgerInv, PaidInv
<1>2. now' = n \/ now' = n + 1
  BY <1>1 DEF BaseTick
<1>3. e # 0 /\ ~(n < e) /\ ~(totalContributions >= MinTotalContributions)
  BY <1>1 DEF Lifecycle
<1>4. ~(now' < e)
  BY <1>2, <1>3
<1>5. QED
  BY <1>1, <1>3, <1>4 DEF Lifecycle

\* A contribution buys what it pays for, now or once the calls return.
LEMMA PendingOnContribution ==
  ASSUME PendingInv, NEW s, NEW c \in Contributors, NEW d \in Contributors,
         NEW amount \in Amounts, Contribute(s, c, amount, d), burned' = burned
  PROVE  PendingInv'
<1>1. /\ Contributed(s, c, amount, d) /\ Issued' = Issued
      /\ UNCHANGED <<partyMinted, cards, partyDelegate, burned>>
  BY DEF Contribute, partyVars, Issued
<1>2. LedgerInv /\ CardsHeld /\ CreditTyped /\ PendingTyped
  BY DEF PendingInv
<1>3. /\ LedgerInv' /\ expiry # 0 /\ Counted(amount) \in Nat /\ Counted(amount) > 0
      /\ totalContributions' = totalContributions + Counted(amount)
      /\ ReachesCap(amount) => expiry' = 0
      /\ ~ReachesCap(amount) => /\ Counted(amount) = amount
                                /\ eth'.crowdfund = eth.crowdfund + amount
                                /\ UNCHANGED <<expiry, partyTotal>>
  BY <1>1, <1>2, LedgerOnContribution
<1>4. PICK k \in Nat, p \in Nat :
        k = Counted(amount) /\ p = PowerFor(k) /\ PaidFor(p, k) /\ (Generous => p > 0)
  BY <1>3, PowerIs DEF PaidFor, Generous
<1>5. PICK n \in Nat, g \in Nat, m \in Nat, q \in Nat, w \in Nat, z \in Nat :
        /\ n = Sold /\ g = PendingSum /\ m = Issued /\ q = totalContributions
        /\ w = eth.crowdfund /\ z = StartMinted
        /\ credit = NoCredit /\ credit.power = 0 /\ m = z
  BY <1>3, OwedFits DEF PendingInv
<1>6. n = g
  <2>1. (g + 0) + (z - z) = g
    OBVIOUS
  <2>2. QED
    BY <1>5, <2>1 DEF Sold
<1>7. CreditTyped' /\ CardsHeld'
  <2>1. delegationsByContributor' \in Delegates
    BY <1>1, <1>2, DelegationType DEF Contributed, CreditTyped
  <2>2. CASE ~ReachesCap(amount)
    <3>1. credit' = NoCredit
      BY <1>5, <2>2 DEF Contribute
    <3>2. QED
      BY <1>1, <1>2, <2>1, <3>1, CreditGone DEF CardsHeld, CardsTyped
  <2>3. CASE ReachesCap(amount)
    <3>1. credit' = [NoCredit EXCEPT !.contributor = c, !.power = p]
      BY <1>4, <2>3 DEF Contribute
    <3>2. credit' = [contributor |-> c, power |-> p, card |-> 0, delegate |-> None]
      BY <3>1 DEF NoCredit
    <3>3. CreditTyped'
      BY <1>3, <2>1, <2>3, <3>2 DEF CreditTyped
    <3>4. QED
      BY <1>1, <1>2, <3>3 DEF CardsHeld, CardsTyped
  <2>4. QED
    BY <2>2, <2>3
<1>8. /\ PendingTyped'
      /\ Generous => NftsMatchPower' /\ (credit' # NoCredit => credit'.power > 0)
      /\ Sold' = n + p
      /\ ~ReachesCap(amount) => PendingSum' = g + p
  <2>1. Generous => NftsMatchPower
    BY DEF PendingInv
  <2>2. CASE ~ReachesCap(amount)
    <3>1. Credited(c, p) /\ credit' = NoCredit /\ credit'.power = 0
      BY <1>4, <1>5, <2>2 DEF Contribute
    <3>2. PendingTyped' /\ PendingSum' = g + p /\ (p > 0 /\ NftsMatchPower => NftsMatchPower')
      BY <1>2, <1>5, <3>1, CreditedIs
    <3>3. ((g + p) + 0) + (z - z) = g + p
      OBVIOUS
    <3>4. Sold' = g + p
      BY <1>1, <1>5, <3>1, <3>2, <3>3, Zenon DEF Sold
    <3>5. QED
      BY <1>4, <1>6, <2>1, <2>2, <3>1, <3>2, <3>4
  <2>3. CASE ReachesCap(amount)
    <3>1. /\ credit' = [NoCredit EXCEPT !.contributor = c, !.power = p]
          /\ UNCHANGED <<pendingVotingPower, nfts>>
      BY <1>4, <2>3 DEF Contribute
    <3>2. PendingTyped' /\ PendingSum' = g /\ (NftsMatchPower => NftsMatchPower')
      BY <1>2, <1>5, <3>1 DEF PendingTyped, PendingSum, NftsMatchPower
    <3>3. credit'.power = p
      BY <3>1 DEF NoCredit
    <3>4. (g + p) + (z - z) = g + p
      OBVIOUS
    <3>5. Sold' = g + p
      BY <1>1, <1>5, <3>2, <3>3, <3>4, Zenon DEF Sold
    <3>6. QED
      BY <1>4, <1>6, <2>1, <2>3, <3>2, <3>3, <3>5
  <2>4. QED
    BY <2>2, <2>3
<1>9. PaidFor(n, q) /\ (Even => EvenFor(q) /\ Backed(g, w)) /\ (Exact => ExactFor(q))
  BY <1>3, <1>5, Zenon DEF PendingInv
<1>10. PaidFor(n + p, q + k)
  BY <1>4, <1>9, PaidForMore
<1>11. ASSUME Even
       PROVE  EvenFor(q + k) /\ (~ReachesCap(amount) => Backed(g + p, w + k))
  <2>1. EvenFor(k) /\ EvenFor(q + k)
    BY <1>1, <1>2, <1>3, <1>4, <1>5, <1>9, <1>11, EvenContribution
  <2>2. Backed(p, k)
    BY <1>4, <2>1, EvenIsBacked
  <2>3. Backed(g + p, w + k)
    BY <1>9, <1>11, <2>2, BackedMore
  <2>4. QED
    BY <2>1, <2>3
<1>12. ASSUME Exact
       PROVE  ExactFor(q + k) /\ n + p = PowerFor(q + k)
  <2>1. ExactFor(q + k) /\ PowerFor(q + k) = PowerFor(q) + p
    BY <1>1, <1>2, <1>3, <1>4, <1>5, <1>9, <1>12, ExactContribution
  <2>2. Lifecycle # "Lost"
    BY <1>1 DEF Contributed, Accepts
  <2>3. n = PowerFor(q)
    BY <1>5, <1>12, <2>2, Zenon DEF PendingInv
  <2>4. QED
    BY <2>1, <2>3
<1>13. totalContributions' = q + k
  BY <1>3, <1>4, <1>5
<1>14. PaidFor(Sold, totalContributions)'
  BY <1>8, <1>10, <1>13, Zenon DEF PaidFor
<1>15. Even => /\ EvenFor(totalContributions)'
               /\ expiry' # 0 => Backed(PendingSum, eth.crowdfund)'
  <2>1. expiry' # 0 => PendingSum' = g + p /\ eth'.crowdfund = w + k /\ ~ReachesCap(amount)
    BY <1>3, <1>4, <1>5, <1>8
  <2>2. QED
    BY <1>11, <1>13, <2>1, Zenon DEF EvenFor, Backed
<1>16. Exact => ExactFor(totalContributions)' /\ Sold' = PowerFor(totalContributions)'
  <2>1. ExactFor(q + k) => ExactFor(totalContributions)'
    BY <1>13, Zenon DEF ExactFor, EvenFor, Net, FeeOf
  <2>2. PowerFor(totalContributions)' = PowerFor(q + k)
    BY <1>13, Zenon DEF PowerFor, FeeOf
  <2>3. QED
    BY <1>8, <1>12, <2>1, <2>2, Zenon
<1>17. StartMinted <= Issued' /\ Issued' = StartMinted
  BY <1>1, <1>5
<1>18. Generous' = Generous /\ Even' = Even /\ Exact' = Exact
  BY DEF Generous, Even, Exact
<1>19. QED
  BY <1>3, <1>7, <1>8, <1>14, <1>15, <1>16, <1>17, <1>18, Zenon DEF PendingInv, NoCredit

\* When the calls return, the contributor's power is pending.
LEMMA PendingOnReturn ==
  ASSUME PendingInv, ContributeReturn, burned' = burned
  PROVE  PendingInv'
<1>1. /\ credit # NoCredit /\ credit' = NoCredit
      /\ Credited(credit.contributor, credit.power)
      /\ UNCHANGED <<now, expiry, totalContributions, delegationsByContributor, eth, partyTotal>>
      /\ UNCHANGED <<partyMinted, cards, partyDelegate, burned>> /\ Issued' = Issued
  BY DEF ContributeReturn, partyVars, Issued
<1>2. LedgerInv /\ CardsHeld /\ CreditTyped /\ PendingTyped
  BY DEF PendingInv
<1>3. PICK c \in Contributors, p \in Nat :
        c = credit.contributor /\ p = credit.power /\ expiry = 0 /\ (Generous => p > 0)
  BY <1>1, <1>2 DEF CreditTyped, PendingInv
<1>4. PICK g \in Nat, m \in Nat, z \in Nat, n \in Nat :
        g = PendingSum /\ m = Issued /\ z = StartMinted /\ n = Sold
  BY OwedFits
<1>5. /\ PendingTyped' /\ PendingSum' = g + p
      /\ Generous => NftsMatchPower'
  BY <1>1, <1>2, <1>3, <1>4, CreditedIs DEF PendingInv
<1>6. CreditTyped' /\ credit'.power = 0
  BY <1>1, <1>2, CreditGone DEF CreditTyped
<1>7. Sold' = Sold
  <2>1. ((g + p) + 0) + (m - z) = (g + p) + (m - z)
    BY <1>4
  <2>2. Sold = (g + p) + (m - z)
    BY <1>3, <1>4 DEF Sold
  <2>3. Sold' = ((g + p) + 0) + (m - z)
    BY <1>1, <1>4, <1>5, <1>6, Zenon DEF Sold
  <2>4. QED
    BY <2>1, <2>2, <2>3
<1>8. LedgerInv' /\ CardsHeld'
  BY <1>1, <1>2, LedgerAside DEF CardsHeld, CardsTyped
<1>9. Lifecycle # "Lost"
  BY <1>3 DEF Lifecycle
<1>10. expiry' = 0 /\ totalContributions' = totalContributions /\ StartMinted <= Issued'
  BY <1>1, <1>3 DEF PendingInv
<1>11. Sold' \in Nat /\ Sold' <= Sold
  BY <1>4, <1>7
<1>12. Kept
  BY <1>1, <1>5, <1>6, <1>7, <1>8, <1>9, <1>10, <1>11 DEF Kept
<1>13. QED
  BY <1>12, PendingKept

\* What touches neither pending power nor cards nor credit.
LEMMA PendingAside ==
  ASSUME PendingInv, LedgerInv', totalContributions' = totalContributions,
         delegationsByContributor' \in Delegates, CardsHeld', Issued' = Issued,
         UNCHANGED <<credit, pendingVotingPower, nfts>>,
         \/ /\ expiry' = expiry /\ eth'.crowdfund \in Nat /\ eth'.crowdfund >= eth.crowdfund
            /\ Lifecycle = "Lost" => Lifecycle' = "Lost"
         \/ expiry' = 0 /\ Lifecycle # "Lost"
  PROVE  PendingInv'
<1>1. CreditTyped'
  BY CreditKept DEF PendingInv
<1>2. PICK g \in Nat, w \in Nat, n \in Nat, m \in Nat, z \in Nat :
        g = PendingSum /\ w = eth.crowdfund /\ n = Sold /\ m = Issued /\ z = StartMinted
  BY OwedFits
<1>3. PendingTyped' /\ PendingSum' = PendingSum /\ (NftsMatchPower => NftsMatchPower')
  BY DEF PendingInv, PendingTyped, PendingSum, NftsMatchPower
<1>4. Sold' = Sold
  BY <1>3, Zenon DEF Sold
<1>5. Even /\ expiry' # 0 => Backed(PendingSum', eth'.crowdfund)
  <2>1. SUFFICES ASSUME Even, expiry' # 0 PROVE Backed(g, eth'.crowdfund)
    BY <1>2, <1>3
  <2>2. PICK v \in Nat : v = eth'.crowdfund /\ w <= v /\ expiry # 0
    BY <1>2, <2>1
  <2>3. Backed(g, w)
    BY <1>2, <2>1, <2>2 DEF PendingInv
  <2>4. g <= g
    OBVIOUS
  <2>5. QED
    BY <2>2, <2>3, <2>4, BackedMore
<1>6. Generous => NftsMatchPower' /\ (credit' # NoCredit => credit'.power > 0)
  BY <1>3 DEF PendingInv
<1>7. StartMinted <= Issued' /\ (expiry' # 0 => Issued' = StartMinted)
  BY DEF PendingInv
<1>8. Sold' \in Nat /\ Sold' <= Sold
  BY <1>2, <1>4
<1>9. Lifecycle' # "Lost" => Lifecycle # "Lost" /\ Sold' = Sold
  BY <1>4
<1>10. Kept
  BY <1>1, <1>3, <1>5, <1>6, <1>7, <1>8, <1>9 DEF Kept
<1>11. QED
  BY <1>10, PendingKept

\* Pending power that moves to cards in full.
LEMMA PendingOnClaim ==
  ASSUME PendingInv, NEW c \in Contributors, TakeFrom(c), CardsHeld',
         Issued' = Issued + pendingVotingPower[c], expiry = 0,
         UNCHANGED <<now, expiry, totalContributions, delegationsByContributor, eth, partyTotal,
                     credit>>
  PROVE  PendingInv'
<1>1. LedgerInv /\ CardsHeld /\ CreditTyped /\ PendingTyped
  BY DEF PendingInv
<1>2. PICK g \in Nat, m \in Nat, z \in Nat, n \in Nat, p \in Nat :
        g = PendingSum /\ m = Issued /\ z = StartMinted /\ n = Sold /\ p = credit.power
  BY OwedFits
<1>3. PICK q \in Nat : q = pendingVotingPower[c] /\ q <= g /\ PendingSum' = g - q /\ PendingTyped'
  BY <1>1, <1>2, TakenIs
<1>4. NftsMatchPower => NftsMatchPower'
  BY <1>1, TakenIs
<1>5. z <= m
  BY <1>2 DEF PendingInv
<1>6. Sold' = Sold
  <2>1. ((g - q) + p) + ((m + q) - z) = (g + p) + (m - z)
    BY <1>3
  <2>2. Sold = (g + p) + (m - z)
    BY <1>2 DEF Sold
  <2>3. Issued' = m + q /\ credit' = credit
    BY <1>2, <1>3
  <2>4. Sold' = ((g - q) + p) + ((m + q) - z)
    BY <1>2, <1>3, <2>3, Zenon DEF Sold
  <2>5. QED
    BY <2>1, <2>2, <2>4
<1>7. LedgerInv' /\ CreditTyped'
  BY <1>1, LedgerAside, CreditKept DEF CreditTyped
<1>8. Lifecycle # "Lost"
  BY DEF Lifecycle
<1>9. StartMinted <= Issued'
  BY <1>2, <1>3, <1>5
<1>10. Generous => NftsMatchPower' /\ (credit' # NoCredit => credit'.power > 0)
  BY <1>4 DEF PendingInv
<1>11. Sold' \in Nat /\ Sold' <= Sold
  BY <1>2, <1>6
<1>12. Kept
  BY <1>3, <1>6, <1>7, <1>8, <1>9, <1>10, <1>11 DEF Kept
<1>13. QED
  BY <1>12, PendingKept

\* The delegate on record is one, and what is pending fits under the total.
LEMMA ClaimFits ==
  ASSUME PendingInv, NEW c \in Contributors, expiry = 0
  PROVE  /\ CardsHeld /\ partyTotal \in Nat
         /\ delegationsByContributor[c] \in Contributors \cup {None}
         /\ pendingVotingPower[c] \in Nat /\ Fits(pendingVotingPower[c])
<1>1. CardsHeld /\ CreditTyped /\ PendingTyped
  BY DEF PendingInv
<1>2. PICK g \in Nat, m \in Nat, p \in Nat, t \in Nat :
        /\ g = PendingSum /\ m = partyMinted /\ p = credit.power /\ t = partyTotal
        /\ m + (g + p) <= t
  BY OwedFits
<1>3. PICK q \in Nat : q = pendingVotingPower[c] /\ q <= g
  BY <1>1, <1>2, PendingSumIs
<1>4. m + q <= t
  <2>1. q <= g /\ m + (g + p) <= t
    BY <1>2, <1>3
  <2>2. QED
    BY <2>1
<1>5. QED
  BY <1>1, <1>2, <1>3, <1>4 DEF Fits, CreditTyped, Delegates

\* A grant in full leaves the cards with no more than what is minted.
LEMMA GrantsKeepCards ==
  ASSUME CardsHeld, partyTotal \in Nat, burned' = burned, NEW c \in Contributors, NEW t \in Nat,
         NEW power \in Nat, NEW d \in Contributors \cup {None}, Fits(power), Grant(c, t, power, d)
  PROVE  CardsHeld' /\ Issued' = Issued + power
<1>1. /\ CardsTyped' /\ partyMinted' = partyMinted + power
      /\ CardSum(cards) \in Nat /\ CardSum(cards') = CardSum(cards) + power
  BY GrantsAddUp DEF CardsHeld
<1>2. PICK m \in Nat, k \in Nat, b \in Nat :
        m = partyMinted /\ k = CardSum(cards) /\ b = burned /\ k <= m
  BY <1>1 DEF CardsHeld, CardsTyped
<1>3. k + power <= m + power /\ (m + power) + b = (m + b) + power
  BY <1>2
<1>4. Issued' = (m + power) + b /\ Issued = m + b
  BY <1>1, <1>2 DEF Issued
<1>5. QED
  BY <1>1, <1>2, <1>3, <1>4 DEF CardsHeld

\* So do several new cards.
LEMMA MintsKeepCards ==
  ASSUME CardsHeld, partyTotal \in Nat, burned' = burned, NEW c \in Contributors,
         NEW powers \in Seq(Nat), NEW power \in Nat, FirstPowers(powers, Len(powers)) = power,
         NEW d \in Contributors \cup {None}, Fits(power), MintCards(c, powers, d)
  PROVE  CardsHeld' /\ Issued' = Issued + power
<1>1. /\ CardsTyped' /\ partyMinted' = partyMinted + power
      /\ cards' = cards \o NewCards(c, powers)
  BY MintIs DEF CardsHeld
<1>2. CardSum(cards) \in Nat /\ CardSum(cards') = CardSum(cards) + power
  BY <1>1, MintsAddUp DEF CardsHeld
<1>3. PICK m \in Nat, k \in Nat, b \in Nat :
        m = partyMinted /\ k = CardSum(cards) /\ b = burned /\ k <= m
  BY <1>2 DEF CardsHeld, CardsTyped
<1>4. k + power <= m + power /\ (m + power) + b = (m + b) + power
  BY <1>3
<1>5. Issued' = (m + power) + b /\ Issued = m + b
  BY <1>1, <1>3 DEF Issued
<1>6. QED
  BY <1>1, <1>2, <1>3, <1>4, <1>5 DEF CardsHeld

\* One claim grants all pending power of a contributor.
LEMMA PendingOnOneClaim ==
  ASSUME PendingInv, NEW c \in Contributors, NEW t \in Nat, Claim(c, t), burned' = burned
  PROVE  PendingInv'
<1>1. /\ Lifecycle = "Finalized" /\ TakeFrom(c)
      /\ Grant(c, t, pendingVotingPower[c], delegationsByContributor[c])
      /\ UNCHANGED <<now, expiry, totalContributions, delegationsByContributor, eth, partyTotal,
                     credit>>
  BY DEF Claim
<1>2. expiry = 0
  BY <1>1 DEF Lifecycle
<1>3. PICK q \in Nat, d \in Contributors \cup {None} :
        /\ q = pendingVotingPower[c] /\ d = delegationsByContributor[c]
        /\ CardsHeld /\ partyTotal \in Nat /\ Fits(q)
  BY <1>2, ClaimFits
<1>4. CardsHeld' /\ Issued' = Issued + q
  BY <1>1, <1>3, GrantsKeepCards
<1>5. QED
  BY <1>1, <1>2, <1>3, <1>4, PendingOnClaim

\* The parts of a split add up.
LEMMA SplitIs ==
  ASSUME NEW power \in Nat, NEW split \in Splits(power)
  PROVE  split \in Seq(Nat) /\ FirstPowers(split, Len(split)) = power
<1>1. PICK n \in 1 .. MaxSplit : split \in [1 .. n -> 1 .. power] /\ SumFunction(split) = power
  BY DEF Splits
<1>2. n \in Nat
  BY <1>1, MaxSplitAssumption
<1>3. \A i \in 1 .. n : split[i] \in Nat
  BY <1>1
<1>4. split \in [1 .. n -> Nat] /\ DOMAIN split = 1 .. n
  BY <1>1, <1>3
<1>5. split \in Seq(Nat) /\ Len(split) = n
  BY <1>2, <1>4
<1>6. FirstPowers(split, n) = SumFunction(split)
  BY <1>4, Zenon DEF FirstPowers, SumFunction
<1>7. QED
  BY <1>1, <1>5, <1>6

\* Several cards grant it, too.
LEMMA PendingOnSplitClaim ==
  ASSUME PendingInv, NEW c \in Contributors, NEW split \in Splits(pendingVotingPower[c]),
         ClaimMultiple(c, split), burned' = burned
  PROVE  PendingInv'
<1>1. /\ Lifecycle = "Finalized" /\ TakeFrom(c)
      /\ MintCards(c, split, delegationsByContributor[c])
      /\ UNCHANGED <<now, expiry, totalContributions, delegationsByContributor, eth, partyTotal,
                     credit>>
  BY DEF ClaimMultiple, MaySplit
<1>2. expiry = 0
  BY <1>1 DEF Lifecycle
<1>3. PICK q \in Nat, d \in Contributors \cup {None} :
        /\ q = pendingVotingPower[c] /\ d = delegationsByContributor[c]
        /\ CardsHeld /\ partyTotal \in Nat /\ Fits(q)
  BY <1>2, ClaimFits
<1>4. split \in Seq(Nat) /\ FirstPowers(split, Len(split)) = q
  BY <1>3, SplitIs
<1>5. CardsHeld' /\ Issued' = Issued + q
  BY <1>1, <1>3, <1>4, MintsKeepCards
<1>6. QED
  BY <1>1, <1>2, <1>3, <1>5, PendingOnClaim

\* A refund takes no more than its part of what backs all that is pending.
LEMMA PendingOnRefund ==
  ASSUME PendingInv, NEW c \in Contributors, Refund(c), burned' = burned
  PROVE  PendingInv'
<1>1. PICK amount : amount = RefundFor(pendingVotingPower[c])
  OBVIOUS
<1>2. /\ Lifecycle = "Lost" /\ TakeFrom(c) /\ eth.crowdfund >= amount
      /\ eth' = [eth EXCEPT !.crowdfund = @ - amount, !.contributors = @ + amount]
      /\ UNCHANGED <<now, expiry, totalContributions, delegationsByContributor, partyTotal, credit>>
      /\ UNCHANGED <<partyMinted, cards, partyDelegate, burned>> /\ Issued' = Issued
  BY <1>1 DEF Refund, Refunded, partyVars, Issued
<1>3. LedgerInv /\ CardsHeld /\ CreditTyped /\ PendingTyped
  BY DEF PendingInv
<1>4. PICK g \in Nat, m \in Nat, z \in Nat, p \in Nat, w \in Nat, n \in Nat :
        /\ g = PendingSum /\ m = Issued /\ z = StartMinted /\ p = credit.power
        /\ w = eth.crowdfund /\ n = Sold
  BY OwedFits
<1>5. PICK q \in Nat : q = pendingVotingPower[c] /\ q <= g /\ PendingSum' = g - q /\ PendingTyped'
  BY <1>2, <1>3, <1>4, TakenIs
<1>6. NftsMatchPower => NftsMatchPower'
  BY <1>2, <1>3, TakenIs
<1>7. PICK r \in Nat : r = amount /\ r = RefundFor(q) /\ r <= w
  <2>1. amount \in Nat
    BY <1>1, <1>5, RefundIs
  <2>2. QED
    BY <1>1, <1>2, <1>4, <1>5, <2>1
<1>8. LedgerInv' /\ eth'.crowdfund = w - r
  BY <1>2, <1>3, <1>4, <1>7, LedgerOnRefund
<1>9. CreditTyped' /\ CardsHeld'
  BY <1>2, <1>3, CreditKept DEF CreditTyped, CardsHeld, CardsTyped
<1>10. z <= m
  BY <1>4 DEF PendingInv
<1>11. Sold' \in Nat /\ Sold' <= Sold
  <2>1. Sold = (g + p) + (m - z)
    BY <1>4 DEF Sold
  <2>2. Sold' = ((g - q) + p) + (m - z)
    BY <1>2, <1>4, <1>5, Zenon DEF Sold
  <2>3. /\ ((g - q) + p) + (m - z) \in Nat
        /\ ((g - q) + p) + (m - z) <= (g + p) + (m - z)
    BY <1>5, <1>10
  <2>4. QED
    BY <2>1, <2>2, <2>3
<1>12. Lifecycle' = "Lost"
  BY <1>2, <1>3, StaysLost
<1>13. Even /\ expiry' # 0 => Backed(PendingSum', eth'.crowdfund)
  <2>1. SUFFICES ASSUME Even, expiry # 0 PROVE Backed(g - q, w - r)
    BY <1>2, <1>5, <1>8
  <2>2. Backed(g, w)
    BY <1>4, <2>1 DEF PendingInv
  <2>3. QED
    BY <1>5, <1>7, <2>2, BackedLess
<1>14. Generous => NftsMatchPower' /\ (credit' # NoCredit => credit'.power > 0)
  BY <1>2, <1>6 DEF PendingInv
<1>15. StartMinted <= Issued' /\ (expiry' # 0 => Issued' = StartMinted)
  BY <1>2 DEF PendingInv
<1>16. Kept
  BY <1>2, <1>5, <1>8, <1>9, <1>11, <1>12, <1>13, <1>14, <1>15 DEF Kept
<1>17. QED
  BY <1>16, PendingKept

\* What touches no pending power.
LEMMA PendingOnAside ==
  ASSUME PendingInv, Aside, burned' = burned
  PROVE  PendingInv'
<1>0. /\ LedgerInv /\ CardsHeld /\ delegationsByContributor \in Delegates
      /\ eth.crowdfund \in Nat /\ eth.crowdfund >= eth.crowdfund
      /\ UNCHANGED <<pendingVotingPower, nfts>>
  BY OwedFits DEF PendingInv, CreditTyped, Aside
<1>1. ASSUME NEW s, NEW c \in Contributors, NEW d \in Contributors, OnlyDelegates(s, c, d)
      PROVE  PendingInv'
  <2>1. /\ UNCHANGED <<now, expiry, totalContributions, eth, partyTotal, credit>>
        /\ UNCHANGED <<partyMinted, cards, partyDelegate, burned>> /\ Issued' = Issued
    BY <1>1 DEF OnlyDelegates, partyVars, Issued
  <2>2. delegationsByContributor' \in Delegates
    BY <1>0, <1>1, DelegationType DEF OnlyDelegates
  <2>3. LedgerInv' /\ CardsHeld'
    BY <1>0, <2>1, LedgerAside DEF CardsHeld, CardsTyped
  <2>4. Lifecycle = "Lost" => Lifecycle' = "Lost"
    BY <1>0, <2>1, StaysLost
  <2>5. QED
    BY <1>0, <2>1, <2>2, <2>3, <2>4, PendingAside
<1>2. ASSUME NEW amount \in Amounts, LegFails(amount) PROVE PendingInv'
  <2>1. /\ LedgerInv' /\ amount \in Nat /\ eth'.crowdfund = eth.crowdfund + amount
        /\ UNCHANGED <<expiry, totalContributions>>
    BY <1>0, <1>2, LedgerOnLeg
  <2>2. /\ UNCHANGED <<now, delegationsByContributor, partyMinted, cards, partyDelegate, credit>>
        /\ Issued' = Issued
    BY <1>2 DEF LegFails, partyVars, Issued
  <2>3. eth'.crowdfund \in Nat /\ eth'.crowdfund >= eth.crowdfund /\ CardsHeld'
    BY <1>0, <2>1, <2>2 DEF CardsHeld, CardsTyped
  <2>4. Lifecycle = "Lost" => Lifecycle' = "Lost"
    BY <1>0, <2>1, <2>2, StaysLost
  <2>5. QED
    BY <1>0, <2>1, <2>2, <2>3, <2>4, PendingAside
<1>3. ASSUME NEW isHost \in BOOLEAN, Finalize(isHost) PROVE PendingInv'
  <2>1. LedgerInv' /\ expiry' = 0 /\ totalContributions' = totalContributions
    BY <1>0, <1>3, LedgerOnFinalize
  <2>2. /\ UNCHANGED <<delegationsByContributor, partyMinted, cards, partyDelegate, credit>>
        /\ Issued' = Issued
    BY <1>3 DEF Finalize, partyVars, Issued
  <2>3. Lifecycle # "Lost" /\ CardsHeld'
    BY <1>0, <1>3, <2>2 DEF Finalize, MayFinalize, CardsHeld, CardsTyped
  <2>4. QED
    BY <1>0, <2>1, <2>2, <2>3, PendingAside
<1>4. ASSUME NEW c \in Contributors, NEW to \in Contributors, NEW t, Transfer(c, to, t)
      PROVE  PendingInv'
  <2>1. UNCHANGED <<now, expiry, totalContributions, delegationsByContributor, eth, partyTotal,
                    partyMinted, credit>> /\ Issued' = Issued
    BY <1>4 DEF Transfer, Issued
  <2>2. CardsHeld'
    <3>1. /\ CardsTyped' /\ Len(cards') = Len(cards)
          /\ \A i \in 1 .. Len(cards) : cards'[i].power = cards[i].power
      BY <1>0, <1>4, TransferIs DEF CardsHeld
    <3>2. CardSum(cards') = CardSum(cards)
      BY <1>0, <3>1, CardSumSame DEF CardsHeld, CardsTyped
    <3>3. QED
      BY <1>0, <2>1, <3>1, <3>2 DEF CardsHeld
  <2>3. LedgerInv'
    BY <1>0, <2>1, LedgerAside
  <2>4. Lifecycle = "Lost" => Lifecycle' = "Lost"
    BY <1>0, <2>1, StaysLost
  <2>5. QED
    BY <1>0, <2>1, <2>2, <2>3, <2>4, PendingAside
<1>5. ASSUME BaseTick PROVE PendingInv'
  <2>1. /\ UNCHANGED <<expiry, totalContributions, delegationsByContributor, eth, partyTotal,
                       credit>>
        /\ UNCHANGED <<partyMinted, cards, partyDelegate, burned>> /\ Issued' = Issued
    BY <1>5 DEF BaseTick, partyVars, Issued
  <2>2. LedgerInv' /\ CardsHeld'
    BY <1>0, <1>5, <2>1, LedgerAside DEF CardsHeld, CardsTyped
  <2>3. Lifecycle = "Lost" => Lifecycle' = "Lost"
    BY <1>0, <1>5, <2>1, StaysLost
  <2>4. QED
    BY <1>0, <2>1, <2>2, <2>3, PendingAside
<1>6. QED
  BY <1>1, <1>2, <1>3, <1>4, <1>5 DEF Aside

\* The power of a burned card stays sold.
LEMMA PendingOnBurn ==
  ASSUME PendingInv, NEW c \in Contributors, NEW t \in Cards, BurnPartyCard(c, t)
  PROVE  PendingInv'
<1>1. /\ BurnCard(t) /\ cards[t].owner # None
      /\ UNCHANGED <<now, expiry, totalContributions, delegationsByContributor, eth,
                     partyTotal, credit>>
      /\ burned' = burned + cards[t].power
      /\ UNCHANGED <<pendingVotingPower, nfts>>
  BY Constants DEF BurnPartyCard, Burn, Movable, Owns
<1>2. /\ LedgerInv /\ CardsHeld /\ delegationsByContributor \in Delegates
      /\ eth.crowdfund \in Nat /\ eth.crowdfund >= eth.crowdfund
  BY OwedFits DEF PendingInv, CreditTyped
<1>3. PICK m \in Nat, k \in Nat, b \in Nat :
        m = partyMinted /\ k = CardSum(cards) /\ b = burned /\ k <= m
  BY <1>2, CardSumIs DEF CardsHeld, CardsTyped
<1>4. /\ CardsTyped' /\ CardSum(cards') = CardSum(cards) - cards[t].power
      /\ cards[t].power \in Nat /\ cards[t].power <= partyMinted
      /\ partyMinted' = partyMinted - cards[t].power
  BY <1>1, <1>2, BurnIs DEF CardsHeld
<1>5. PICK p \in Nat : p = cards[t].power /\ p <= m
  BY <1>3, <1>4
<1>6. partyMinted' = m - p /\ burned' = b + p /\ CardSum(cards') = k - p
  BY <1>1, <1>3, <1>4, <1>5
<1>7. Issued' = Issued
  <2>1. (m - p) + (b + p) = m + b
    OBVIOUS
  <2>2. QED
    BY <1>3, <1>6, <2>1 DEF Issued
<1>8. CardsHeld'
  <2>1. k - p <= m - p /\ b + p \in Nat
    BY <1>3, <1>5
  <2>2. QED
    BY <1>4, <1>6, <2>1 DEF CardsHeld
<1>9. LedgerInv'
  BY <1>1, <1>2, LedgerAside
<1>10. Lifecycle = "Lost" => Lifecycle' = "Lost"
  BY <1>1, <1>2, StaysLost
<1>11. QED
  BY <1>1, <1>2, <1>7, <1>8, <1>9, <1>10, PendingAside

\* Every step keeps the invariant.
LEMMA PendingStep == PendingInv /\ [Next]_vars => PendingInv'
<1> SUFFICES ASSUME PendingInv, [Next]_vars PROVE PendingInv'
  OBVIOUS
<1>1. ASSUME NEW s, NEW c \in Contributors, NEW d \in Contributors, NEW amount \in Amounts,
             Contribute(s, c, amount, d), burned' = burned
      PROVE  PendingInv'
  BY <1>1, PendingOnContribution
<1>2. ASSUME ContributeReturn, burned' = burned PROVE PendingInv'
  BY <1>2, PendingOnReturn
<1>3. ASSUME NEW c \in Contributors, ClaimAny(c), burned' = burned PROVE PendingInv'
  <2>1. ASSUME NEW t \in 0 .. Len(cards), Claim(c, t) PROVE PendingInv'
    <3>1. t \in Nat
      OBVIOUS
    <3>2. QED
      BY <1>3, <2>1, <3>1, PendingOnOneClaim
  <2>2. ASSUME NEW split \in Splits(pendingVotingPower[c]), ClaimMultiple(c, split)
        PROVE  PendingInv'
    BY <1>3, <2>2, PendingOnSplitClaim
  <2>3. QED
    BY <1>3, <2>1, <2>2 DEF ClaimAny
<1>4. ASSUME NEW c \in Contributors, Refund(c), burned' = burned PROVE PendingInv'
  BY <1>4, PendingOnRefund
<1>5. ASSUME Aside, burned' = burned PROVE PendingInv'
  BY <1>5, PendingOnAside
<1>6. ASSUME NEW c \in Contributors, NEW t \in Cards, BurnPartyCard(c, t) PROVE PendingInv'
  BY <1>6, PendingOnBurn
<1>7. CASE UNCHANGED vars
  <2>1. /\ UNCHANGED <<now, expiry, totalContributions, delegationsByContributor, eth,
                       partyTotal, partyMinted, cards, partyDelegate, credit>>
        /\ UNCHANGED <<pendingVotingPower, nfts, burned>> /\ Issued' = Issued
    BY <1>7 DEF vars, baseVars, partyVars, Issued
  <2>2. LedgerInv /\ CardsHeld /\ delegationsByContributor \in Delegates
        /\ eth.crowdfund \in Nat /\ eth.crowdfund >= eth.crowdfund
    BY OwedFits DEF PendingInv, CreditTyped
  <2>3. LedgerInv' /\ CardsHeld'
    BY <2>1, <2>2, LedgerAside DEF CardsHeld, CardsTyped
  <2>4. Lifecycle = "Lost" => Lifecycle' = "Lost"
    BY <2>1, <2>2, StaysLost
  <2>5. QED
    BY <2>1, <2>2, <2>3, <2>4, PendingAside
<1>8. QED
  BY <1>1, <1>2, <1>3, <1>4, <1>5, <1>6, <1>7 DEF Next, Operations

----------------------------------------------------------------------------
(* The theorems                                                            *)

\* Every variable keeps its type: no balance, power or counter falls below zero, and the
\* ETH that came back to the contributors is never more than what they sent.
THEOREM TypeCorrect == Spec => []TypeOK
<1>1. PendingInv => TypeOK
  BY BaseTypes DEF PendingInv, TypeOK, PendingTyped, CardsHeld
<1>2. QED
  BY <1>1, PendingAtStart, PendingStep, PTL DEF Spec

\* When the rate gives a vote for each wei, no contribution goes without pending power, and
\* who has pending power has the NFT that claims it, and no one else has one.
THEOREM NftsAreTrue == ASSUME Generous PROVE Spec => []NftsMatchPower
<1>1. PendingInv => NftsMatchPower
  BY DEF PendingInv
<1>2. QED
  BY <1>1, PendingAtStart, PendingStep, PTL DEF Spec

\* What is sold has arrived or is owed.
LEMMA SoldArrives ==
  ASSUME Exact
  PROVE  PendingInv => PowerArrives
<1> SUFFICES ASSUME PendingInv, expiry = 0
             PROVE  LET owed == SumFunction(pendingVotingPower) + credit.power
                    IN /\ owed + partyMinted + burned - StartMinted
                            = PowerFor(totalContributions)
                       /\ owed <= partyTotal - partyMinted
  BY Zenon DEF PowerArrives
<1>1. PICK g \in Nat, p \in Nat, m \in Nat, b \in Nat, z \in Nat, t \in Nat :
        /\ g = PendingSum /\ p = credit.power /\ m = partyMinted /\ b = burned
        /\ z = StartMinted /\ t = partyTotal /\ m + (g + p) <= t
  BY OwedFits DEF PendingInv, CardsHeld
<1>2. g = SumFunction(pendingVotingPower)
  BY <1>1, PendingSumIs DEF PendingInv
<1>3. Lifecycle # "Lost"
  BY DEF Lifecycle
<1>4. Sold = PowerFor(totalContributions)
  BY <1>3 DEF PendingInv
<1>5. Sold = (g + p) + ((m + b) - z)
  BY <1>1 DEF Sold, Issued
<1>6. (g + p) + m + b - z = (g + p) + ((m + b) - z) /\ g + p <= t - m
  BY <1>1
<1>7. QED
  BY <1>1, <1>2, <1>4, <1>5, <1>6

\* When the split and the rate divide every amount, every unit of power that was paid for is
\* pending, on its way, on a card or burned with one by its owner once the crowdfund is
\* finalized, and what is not yet on a card still fits under the total of the party.
THEOREM AllPowerArrives == ASSUME Exact PROVE Spec => []PowerArrives
<1>1. PendingInv => PowerArrives
  BY SoldArrives
<1>2. QED
  BY <1>1, PendingAtStart, PendingStep, PTL DEF Spec

\* What all refunds take is what refunds of the sum are worth, or less.
LEMMA PendingIsFunded ==
  ASSUME Even
  PROVE  PendingInv => RefundsFunded
<1> SUFFICES ASSUME PendingInv, expiry # 0
             PROVE  eth.crowdfund
                      >= SumFunction([c \in Contributors |-> RefundFor(pendingVotingPower[c])])
  BY DEF RefundsFunded
<1>1. IsFiniteSet(Contributors)
  BY Constants
<1>2. PICK f : f = pendingVotingPower
  OBVIOUS
<1>3. PICK g : g = [c \in Contributors |-> RefundFor(pendingVotingPower[c])]
  OBVIOUS
<1>4. PICK k \in Nat, q \in Nat : k = NetBps * ExchangeRateBps /\ q = Bps * Bps
  BY RefundRate DEF Bps
<1>5. Bounded(f, g, Contributors, k, q)
  <2>1. ASSUME NEW c \in Contributors
        PROVE  f[c] \in Nat /\ g[c] \in Nat /\ k * g[c] <= q * f[c]
    <3>1. PICK p \in Nat : p = pendingVotingPower[c]
      BY PendingSumIs DEF PendingInv
    <3>2. RefundFor(p) \in Nat /\ k * RefundFor(p) <= q * p
      BY <1>4, RefundIs
    <3>3. f[c] = p /\ g[c] = RefundFor(p)
      BY <1>2, <1>3, <3>1
    <3>4. QED
      BY <3>2, <3>3
  <2>2. QED
    BY <2>1 DEF Bounded
<1>6. k * SumFunctionOnSet(g, Contributors) <= q * SumFunctionOnSet(f, Contributors)
  BY <1>1, <1>5, SumBounded
<1>7. SumFunctionOnSet(g, Contributors) \in Nat
  <2>1. \A c \in Contributors : g[c] \in Int /\ g[c] >= 0
    BY <1>5 DEF Bounded
  <2>2. QED
    BY <1>1, <2>1, SumType
<1>8. PICK r \in Nat, p \in Nat, w \in Nat :
        /\ r = SumFunctionOnSet(g, Contributors) /\ w = eth.crowdfund
        /\ p = SumFunctionOnSet(f, Contributors) /\ p = PendingSum
  <2>1. PendingSum = SumFunctionOnSet(f, Contributors)
    BY <1>2, Zenon DEF PendingSum
  <2>2. QED
    BY <1>7, <2>1, OwedFits
<1>9. (NetBps * ExchangeRateBps) * r <= (Bps * Bps) * p
  BY <1>4, <1>6, <1>8, Zenon
<1>10. Backed(p, w)
  BY <1>8 DEF PendingInv
<1>11. r <= w
  BY <1>8, <1>9, <1>10, BackedRefunds
<1>12. DOMAIN g = Contributors
  BY <1>3
<1>13. SumFunction(g) = r
  BY <1>8, <1>12, Zenon DEF SumFunction
<1>14. QED
  BY <1>3, <1>8, <1>11, <1>13

\* When the split divides every amount, the crowdfund holds enough until it is finalized for
\* every refund it would owe if it were lost.
THEOREM RefundsArePaid == ASSUME Even PROVE Spec => []RefundsFunded
<1>1. PendingInv => RefundsFunded
  BY PendingIsFunded
<1>2. QED
  BY <1>1, PendingAtStart, PendingStep, PTL DEF Spec

\* All power that is owed fits under the total of the party.
OwedIsLeft ==
  expiry = 0 =>
    partyMinted + (SumFunction(pendingVotingPower) + credit.power) <= partyTotal

\* The invariant says so of the sum over the contributors.
LEMMA PendingIsLeft == PendingInv => OwedIsLeft
<1> SUFFICES ASSUME PendingInv PROVE OwedIsLeft
  OBVIOUS
<1>1. PendingSum = SumFunction(pendingVotingPower)
  BY PendingSumIs DEF PendingInv
<1>2. QED
  BY <1>1, OwedFits DEF OwedIsLeft

\* Whatever the split, the rate and the amounts are, the party's total leaves room for all
\* power that is pending or on its way, so that no claim is cut.
THEOREM ClaimsAreWhole == Spec => []OwedIsLeft
<1>1. PendingInv => OwedIsLeft
  BY PendingIsLeft
<1>2. QED
  BY <1>1, PendingAtStart, PendingStep, PTL DEF Spec
=============================================================================
