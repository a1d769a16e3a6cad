----------------------- MODULE ETHCrowdfundBase_proofs -----------------------
(***************************************************************************)
(* What the operations that the ETH crowdfunds share do to the payout.     *)
(***************************************************************************)
EXTENDS ETHCrowdfundBase, SequenceTheorems, SumTheorems

\* The balances of e that are about payouts are numbers.
Pays(e) ==
  /\ {"crowdfund", "party", "recipient", "contributors"} = DOMAIN e
  /\ e.party \in Int
  /\ e.recipient \in Int

\* PaidOutOnce with the types its arithmetic needs: the contributions that are
\* paid out are those counted, and nothing changes them once expiry is 0.
PaidInv ==
  /\ now \in Nat \ {0}
  /\ expiry \in {0, 1 + Duration}
  /\ totalContributions \in Nat
  /\ Pays(eth)
  /\ partyTotal \in Int
  /\ PaidOutOnce

\* The types of the options, from the assumption on them.
LEMMA Constants ==
  /\ Duration \in Nat
  /\ MaxTotalContributions \in Nat
  /\ FundingSplitBps \in Nat /\ FundingSplitBps < Bps
  /\ ExchangeRateBps \in Nat /\ ExchangeRateBps > 0
  /\ StartTotal \in Nat
  /\ Amounts \subseteq Nat \ {0}
  /\ MaxTotalContributions > 0
  /\ MaxTime \in Nat /\ MaxTime > 0
  /\ StartMinted \in Nat /\ StartMinted <= StartTotal
  /\ StartHolder \in Contributors \cup {None}
  /\ IsFiniteSet(Contributors)
  /\ None \notin Contributors /\ Self \notin Contributors /\ None # Self
  <1>1. /\ Duration \in Nat /\ FundingSplitBps \in Nat /\ StartTotal \in Nat /\ StartMinted \in Nat
    BY OptionsAssumption
  <1>2. /\ MaxTotalContributions \in Nat /\ MaxTotalContributions # 0
        /\ ExchangeRateBps \in Nat /\ ExchangeRateBps # 0
        /\ MaxTime \in Nat /\ MaxTime # 0
    BY OptionsAssumption
  <1>3. /\ FundingSplitBps < Bps /\ Amounts \subseteq Nat \ {0}
        /\ StartMinted <= StartTotal /\ StartHolder \in Contributors \cup {None}
        /\ IsFiniteSet(Contributors)
        /\ None \notin Contributors /\ Self \notin Contributors /\ None # Self
    BY OptionsAssumption
  <1> QED
    BY <1>1, <1>2, <1>3

\* A fee is an integer, so that ETH can be added up.
LEMMA FeeInt == ASSUME NEW n \in Nat PROVE FeeOf(n) \in Int
  BY Constants DEF FeeOf, Bps

\* No contribution, no fee and no voting power.
LEMMA NothingIsFree == FeeOf(0) = 0 /\ (0 * ExchangeRateBps) \div Bps = 0
  <1>1. 0 * FundingSplitBps = 0 /\ 0 * ExchangeRateBps = 0
    BY Constants
  <1> QED
    BY <1>1 DEF FeeOf, Bps

\* Only one that is not yet finalized contributes or is finalized.
LEMMA OpenIsNotClosed ==
  ASSUME Lifecycle # "Finalized"
  PROVE  expiry # 0
  BY DEF Lifecycle

\* A crowdfund that was just created has paid nobody.
LEMMA PaidStart == BaseInit => PaidInv
  <1> SUFFICES ASSUME BaseInit PROVE PaidInv
    OBVIOUS
  <1> USE DEF BaseInit
  <1>1. expiry # 0
    BY Constants
  <1>2. PaidOutOnce
    BY <1>1, Constants, NothingIsFree DEF PaidOutOnce
  <1> QED
    BY <1>2, Constants DEF PaidInv, Pays

\* A payout of all that is counted from a crowdfund that has paid nothing yet.
LEMMA PayOutPays ==
  ASSUME PaidInv, expiry # 0,
         NEW sent \in Nat, NEW excess \in Int,
         PayOut(sent, totalContributions', excess),
         totalContributions' \in Nat, now' = now
  PROVE  PaidInv'
  <1> DEFINE total == totalContributions'
             fee == FeeOf(total)
             gain == (total * ExchangeRateBps) \div Bps
  <1>1. fee \in Int
    BY FeeInt
  <1>2. gain \in Int
    BY Constants DEF Bps
  <1>3. expiry' = 0 /\ partyTotal' = partyTotal + gain
    BY DEF PayOut, Closed
  <1>4. eth' = [crowdfund |-> eth.crowdfund + sent - total - excess,
                party |-> eth.party + total - fee,
                recipient |-> eth.recipient + fee,
                contributors |-> eth.contributors - sent + excess]
    BY DEF PayOut
  <1>5. eth.recipient = 0 /\ eth.party = 0 /\ partyTotal = StartTotal
    BY NothingIsFree, Constants DEF PaidInv, PaidOutOnce, Pays
  <1>6. FeeOf(totalContributions)' = fee
    BY DEF FeeOf
  <1>7. PaidOutOnce'
    <2>1. eth'.party = total - fee /\ eth'.recipient = fee
      BY <1>1, <1>4, <1>5 DEF PaidInv, Pays
    <2>2. partyTotal' = StartTotal + gain
      BY <1>3, <1>5
    <2> QED
      BY <1>1, <1>3, <2>1, <2>2 DEF PaidOutOnce, FeeOf
  <1>8. Pays(eth')
    BY <1>1, <1>4 DEF PaidInv, Pays
  <1> QED
    BY <1>2, <1>3, <1>7, <1>8 DEF PaidInv

\* A step that moves ETH between the crowdfund and its contributors only.
LEMMA OthersKeep ==
  ASSUME PaidInv,
         expiry' = expiry, partyTotal' = partyTotal, now' \in Nat \ {0},
         totalContributions' \in Nat,
         expiry = 0 => totalContributions' = totalContributions,
         Pays(eth'), eth'.party = eth.party, eth'.recipient = eth.recipient
  PROVE  PaidInv'
  <1>1. PaidOutOnce'
    BY DEF PaidInv, PaidOutOnce, FeeOf
  <1> QED
    BY <1>1 DEF PaidInv

\* What _processContribution takes in, the crowdfund keeps or pays on.
LEMMA ContributedPays ==
  ASSUME PaidInv, NEW s, NEW c, NEW amount \in Amounts, NEW d,
         Contributed(s, c, amount, d)
  PROVE  PaidInv'
  <1>1. expiry # 0
    BY OpenIsNotClosed DEF Contributed, Accepts
  <1>2. amount \in Nat
    BY Constants
  <1>3. now' = now
    BY DEF Contributed
  <1>4. CASE ReachesCap(amount)
    <2>1. totalContributions' = MaxTotalContributions
      BY <1>4 DEF Contributed
    <2>2. PayOut(amount, totalContributions', Excess(amount))
      BY <1>4, <2>1 DEF Contributed
    <2>3. Excess(amount) \in Int
      BY <1>2, <1>4, Constants DEF Excess, PaidInv
    <2> QED
      BY <1>1, <1>2, <1>3, <2>1, <2>2, <2>3, Constants, PayOutPays
  <1>5. CASE ~ReachesCap(amount)
    <2>1. totalContributions' = totalContributions + amount
          /\ eth' = [eth EXCEPT !.crowdfund = @ + amount, !.contributors = @ - amount]
          /\ expiry' = expiry /\ partyTotal' = partyTotal
      BY <1>5 DEF Contributed
    <2>2. Pays(eth') /\ eth'.party = eth.party /\ eth'.recipient = eth.recipient
      BY <1>2, <2>1 DEF PaidInv, Pays
    <2> QED
      BY <1>1, <1>2, <1>3, <2>1, <2>2, OthersKeep DEF PaidInv
  <1> QED
    BY <1>4, <1>5

\* finalize() pays once, and closes the crowdfund as it does.
LEMMA FinalizePays ==
  ASSUME PaidInv, NEW isHost \in BOOLEAN, Finalize(isHost)
  PROVE  PaidInv'
  <1>1. expiry # 0
    BY OpenIsNotClosed DEF Finalize, MayFinalize
  <1>2. totalContributions' = totalContributions /\ now' = now
    BY DEF Finalize
  <1>3. PayOut(0, totalContributions', 0)
    BY <1>2 DEF Finalize
  <1> QED
    BY <1>1, <1>2, <1>3, PayOutPays DEF PaidInv

\* A refund of any amount.
LEMMA RefundPays ==
  ASSUME PaidInv, NEW amount,
         eth' = [eth EXCEPT !.crowdfund = @ - amount, !.contributors = @ + amount],
         UNCHANGED <<now, expiry, totalContributions, partyTotal>>
  PROVE  PaidInv'
  <1>1. Pays(eth') /\ eth'.party = eth.party /\ eth'.recipient = eth.recipient
    BY DEF PaidInv, Pays
  <1> QED
    BY <1>1, OthersKeep DEF PaidInv

\* A leg of a batch that failed keeps its ETH in the crowdfund.
LEMMA LegFailsPays ==
  ASSUME PaidInv, NEW amount \in Amounts, LegFails(amount)
  PROVE  PaidInv'
  <1>1. Pays(eth') /\ eth'.party = eth.party /\ eth'.recipient = eth.recipient
    BY DEF LegFails, PaidInv, Pays
  <1> QED
    BY <1>1, OthersKeep DEF LegFails, PaidInv

\* What moves neither ETH nor time.
LEMMA StillPays ==
  ASSUME PaidInv, UNCHANGED <<now, expiry, totalContributions, eth, partyTotal>>
  PROVE  PaidInv'
  BY OthersKeep DEF PaidInv

\* Time pays nobody, whatever deadline it passes.
LEMMA TickPays ==
  ASSUME PaidInv, BaseTick
  PROVE  PaidInv'
  BY OthersKeep DEF PaidInv, BaseTick


----------------------------------------------------------------------------
(* The arithmetic of ETH and voting power                                  *)

\* What is left of a contribution after the split.
Net(amount) == amount - FeeOf(amount)

\* The share of the party in percent of a percent.
NetBps == Bps - FundingSplitBps

\* A quotient rounded down, in terms of products.
LEMMA Quotient ==
  ASSUME NEW a \in Nat, NEW b \in Nat, b > 0
  PROVE  a \div b \in Nat /\ (a \div b) * b <= a /\ a < (a \div b) * b + b
<1>1. PICK q \in Int : q = a \div b
  OBVIOUS
<1>2. q * b <= a /\ a < (q + 1) * b
  BY <1>1
<1>3. q >= 0
  <2>1. CASE q < 0
    <3>1. (q + 1) * b <= 0
      BY <2>1
    <3>2. QED
      BY <1>2, <3>1
  <2>2. QED
    BY <2>1
<1>4. (q + 1) * b = q * b + b
  OBVIOUS
<1>5. QED
  BY <1>1, <1>2, <1>3, <1>4

\* A quotient is at least what fits into it.
LEMMA QuotientAtLeast ==
  ASSUME NEW a \in Nat, NEW b \in Nat, b > 0, NEW q \in Nat, q * b <= a
  PROVE  q <= a \div b
<1>1. PICK p \in Nat : p = a \div b /\ a < p * b + b
  BY Quotient
<1>2. CASE q > p
  <2>1. PICK d \in Nat : q = (p + 1) + d
    BY <1>2
  <2>2. q * b = (p * b + b) + d * b /\ d * b \in Nat
    BY <2>1
  <2>3. QED
    BY <1>1, <2>2
<1>3. QED
  BY <1>1, <1>2

\* More of the same.
LEMMA Times ==
  ASSUME NEW x \in Nat, NEW y \in Nat, NEW z \in Nat
  PROVE  /\ x * z \in Nat /\ x * z = z * x
         /\ x <= y => x * z <= y * z
         /\ x < y /\ z > 0 => x * z < y * z
         /\ (x + y) * z = x * z + y * z
<1>1. ASSUME x <= y PROVE x * z <= y * z
  <2>1. PICK d \in Nat : y = x + d
    BY <1>1
  <2>2. y * z = x * z + d * z /\ d * z \in Nat
    BY <2>1
  <2>3. QED
    BY <2>2
<1>2. ASSUME x < y, z > 0 PROVE x * z < y * z
  <2>1. PICK d \in Nat : y = (x + 1) + d
    BY <1>2
  <2>2. y * z = (x * z + z) + d * z /\ d * z \in Nat
    BY <2>1
  <2>3. QED
    BY <1>2, <2>2
<1>3. QED
  BY <1>1, <1>2

\* The split is less than the whole.
LEMMA NetIs ==
  ASSUME NEW a \in Nat
  PROVE  /\ FeeOf(a) \in Nat /\ FeeOf(a) <= a /\ Net(a) \in Nat /\ Net(a) <= a
         /\ a > 0 => Net(a) > 0
<1>1. PICK f \in Nat : f = FundingSplitBps /\ f < Bps
  BY Constants
<1>2. PICK k \in Nat : k = a * f
  OBVIOUS
<1>3. PICK fee \in Nat : fee = FeeOf(a) /\ fee * Bps <= k
  BY <1>1, <1>2 DEF FeeOf, Bps
<1>4. a * f <= a * Bps /\ (a > 0 => a * f < a * Bps)
  <2>1. Bps \in Nat
    BY DEF Bps
  <2>2. QED
    BY <1>1, <2>1, Times
<1>5. fee * Bps <= a * Bps /\ (a > 0 => fee * Bps < a * Bps)
  BY <1>2, <1>3, <1>4 DEF Bps
<1>6. fee <= a /\ (a > 0 => fee < a)
  BY <1>5 DEF Bps
<1>7. QED
  BY <1>3, <1>6 DEF Net

\* What is bought is no more than what the rate gives, and something if the rate gives one
\* vote for each wei.
LEMMA PowerIs ==
  ASSUME NEW a \in Nat
  PROVE  /\ PowerFor(a) \in Nat
         /\ PowerFor(a) * Bps <= Net(a) * ExchangeRateBps
         /\ PowerFor(a) * Bps <= a * ExchangeRateBps
         /\ PowerFor(a) = (Net(a) * ExchangeRateBps) \div Bps
         /\ ExchangeRateBps >= Bps /\ a > 0 => PowerFor(a) > 0
<1>1. PICK n \in Nat : n = Net(a) /\ n <= a /\ (a > 0 => n > 0)
  BY NetIs
<1>2. PICK x \in Nat : x = ExchangeRateBps
  BY Constants
<1>3. PICK k \in Nat : k = n * x
  OBVIOUS
<1>4. PowerFor(a) = k \div Bps
  BY <1>1, <1>2, <1>3, Zenon DEF PowerFor, Net
<1>5. PICK p \in Nat : p = k \div Bps /\ p * Bps <= k /\ k < p * Bps + Bps
  BY DEF Bps
<1>6. n * x <= a * x
  BY <1>1, Times
<1>7. ASSUME x >= Bps, a > 0 PROVE p > 0
  <2>1. PICK m \in Nat : n = m + 1
    BY <1>1, <1>7
  <2>2. k = m * x + x /\ m * x \in Nat
    BY <1>3, <2>1
  <2>3. QED
    BY <1>5, <1>7, <2>2 DEF Bps
<1>8. PowerFor(a) = p
  BY <1>4, <1>5
<1>9. p * Bps <= n * x /\ p * Bps <= a * x
  BY <1>3, <1>5, <1>6 DEF Bps
<1>10. QED
  BY <1>1, <1>2, <1>3, <1>4, <1>5, <1>7, <1>8, <1>9

\* A refund is at most what the power costs.
LEMMA RefundIs ==
  ASSUME NEW p \in Nat
  PROVE  /\ RefundFor(p) \in Nat
         /\ (NetBps * ExchangeRateBps) * RefundFor(p) <= (Bps * Bps) * p
<1>1. PICK x \in Nat : x = ExchangeRateBps /\ x > 0
  BY Constants
<1>2. PICK g \in Nat : g = NetBps /\ g > 0
  BY Constants DEF NetBps, Bps
<1>3. PICK k \in Nat : k = p * Bps
  BY DEF Bps
<1>4. PICK q \in Nat : q = k \div x /\ q * x <= k
  BY <1>1, Quotient
<1>5. PICK l \in Nat : l = q * Bps
  BY DEF Bps
<1>6. PICK r \in Nat : r = l \div g /\ r * g <= l
  BY <1>2, Quotient
<1>7. RefundFor(p) = r
  BY <1>1, <1>2, <1>3, <1>4, <1>5, <1>6, Zenon DEF RefundFor, NetBps
<1>8. (r * g) * x <= l * x
  BY <1>6, Times
<1>9. l * x = (q * x) * Bps
  BY <1>5 DEF Bps
<1>10. (q * x) * Bps <= k * Bps
  BY <1>4 DEF Bps
<1>11. k * Bps = (Bps * Bps) * p
  BY <1>3 DEF Bps
<1>12. (g * x) * r = (r * g) * x
  OBVIOUS
<1>13. (g * x) * r <= (Bps * Bps) * p
  <2>1. PICK a \in Nat, b \in Nat, c \in Nat, d \in Nat, e \in Nat :
          a = (g * x) * r /\ b = l * x /\ c = k * Bps /\ d = (Bps * Bps) * p /\ e = (q * x) * Bps
    BY DEF Bps
  <2>2. a <= b /\ b = e /\ e <= c /\ c = d
    BY <1>8, <1>9, <1>10, <1>11, <1>12, <2>1
  <2>3. QED
    BY <2>1, <2>2
<1>14. QED
  BY <1>1, <1>2, <1>7, <1>13

\* Whether the split of an amount divides it without a rest.
EvenFor(amount) == (amount * FundingSplitBps) % Bps = 0

\* Whether the rate does, too.
ExactFor(amount) == EvenFor(amount) /\ (Net(amount) * ExchangeRateBps) % Bps = 0

\* Then nothing is lost in rounding.
LEMMA EvenIs ==
  ASSUME NEW a \in Nat
  PROVE  EvenFor(a) <=> FeeOf(a) * Bps = a * FundingSplitBps
<1>1. PICK k \in Nat : k = a * FundingSplitBps
  BY Constants
<1>2. (k % Bps = 0) <=> (k \div Bps) * Bps = k
  BY DEF Bps
<1>3. QED
  BY <1>1, <1>2, Zenon DEF EvenFor, FeeOf

\* Even amounts and what is left of them add up, and so do their differences.
LEMMA EvenSum ==
  ASSUME NEW a \in Nat, NEW b \in Nat, EvenFor(a)
  PROVE  /\ EvenFor(b) <=> EvenFor(a + b)
         /\ EvenFor(b) => FeeOf(a + b) = FeeOf(a) + FeeOf(b) /\ Net(a + b) = Net(a) + Net(b)
<1>1. PICK k \in Nat, l \in Nat : k = a * FundingSplitBps /\ l = b * FundingSplitBps
  BY Constants
<1>2. (a + b) * FundingSplitBps = k + l
  BY <1>1, Constants
<1>3. k % Bps = 0
  BY <1>1 DEF EvenFor
<1>4. /\ (l % Bps = 0) <=> ((k + l) % Bps = 0)
      /\ l % Bps = 0 => (k + l) \div Bps = (k \div Bps) + (l \div Bps)
  BY <1>3 DEF Bps
<1>5. EvenFor(b) <=> EvenFor(a + b)
  BY <1>1, <1>2, <1>4, Zenon DEF EvenFor
<1>6. ASSUME EvenFor(b) PROVE FeeOf(a + b) = FeeOf(a) + FeeOf(b)
  <2>1. l % Bps = 0
    BY <1>1, <1>6, Zenon DEF EvenFor
  <2>2. QED
    BY <1>1, <1>2, <1>4, <2>1, Zenon DEF FeeOf
<1>7. FeeOf(a) \in Nat /\ FeeOf(b) \in Nat
  BY NetIs
<1>8. QED
  BY <1>5, <1>6, <1>7 DEF Net

\* So does the power they buy if the rate divides them as well.
LEMMA ExactSum ==
  ASSUME NEW a \in Nat, NEW b \in Nat, ExactFor(a)
  PROVE  /\ ExactFor(b) <=> ExactFor(a + b)
         /\ ExactFor(b) => PowerFor(a + b) = PowerFor(a) + PowerFor(b)
<1>1. EvenFor(a) /\ (Net(a) * ExchangeRateBps) % Bps = 0
  BY DEF ExactFor
<1>2. EvenFor(b) <=> EvenFor(a + b)
  BY <1>1, EvenSum
<1>3. ASSUME EvenFor(b)
      PROVE  /\ ExactFor(b) <=> ExactFor(a + b)
             /\ ExactFor(b) => PowerFor(a + b) = PowerFor(a) + PowerFor(b)
  <2>1. Net(a + b) = Net(a) + Net(b)
    BY <1>1, <1>3, EvenSum
  <2>2. PICK m \in Nat, n \in Nat, x \in Nat : m = Net(a) /\ n = Net(b) /\ x = ExchangeRateBps
    BY NetIs, Constants
  <2>3. PICK k \in Nat, l \in Nat : k = m * x /\ l = n * x /\ (m + n) * x = k + l
    OBVIOUS
  <2>4. /\ k = Net(a) * ExchangeRateBps /\ l = Net(b) * ExchangeRateBps
        /\ k + l = Net(a + b) * ExchangeRateBps
    BY <2>1, <2>2, <2>3
  <2>5. k % Bps = 0
    BY <1>1, <2>4
  <2>6. /\ (l % Bps = 0) <=> ((k + l) % Bps = 0)
        /\ l % Bps = 0 => (k + l) \div Bps = (k \div Bps) + (l \div Bps)
    BY <2>5 DEF Bps
  <2>7. ExactFor(b) <=> ExactFor(a + b)
    BY <1>2, <1>3, <2>4, <2>6, Zenon DEF ExactFor
  <2>8. ASSUME ExactFor(b) PROVE PowerFor(a + b) = PowerFor(a) + PowerFor(b)
    <3>1. l % Bps = 0
      BY <2>4, <2>8, Zenon DEF ExactFor
    <3>2. a + b \in Nat
      OBVIOUS
    <3>3. PowerFor(a) = k \div Bps /\ PowerFor(b) = l \div Bps /\ PowerFor(a + b) = (k + l) \div Bps
      BY <2>4, <3>2, PowerIs
    <3>4. QED
      BY <2>6, <3>1, <3>3
  <2>9. QED
    BY <2>7, <2>8
<1>4. CASE ~EvenFor(b)
  BY <1>2, <1>4 DEF ExactFor
<1>5. QED
  BY <1>3, <1>4

----------------------------------------------------------------------------
(* The ETH                                                                 *)

Balances == [crowdfund : Nat, party : Nat, recipient : Nat, contributors : Int]

\* All ETH came from the contributors, and an open crowdfund is below its cap.
LedgerInv ==
  /\ PaidInv
  /\ now \in 1 .. MaxTime
  /\ totalContributions <= MaxTotalContributions
  /\ expiry # 0 => totalContributions < MaxTotalContributions
  /\ eth \in Balances
  /\ eth.crowdfund + (eth.party + (eth.recipient + eth.contributors)) = 0

\* A crowdfund that was just created has no ETH.
LEMMA LedgerAtStart == BaseInit => LedgerInv
<1> SUFFICES ASSUME BaseInit PROVE LedgerInv
  OBVIOUS
<1>1. /\ now = 1 /\ totalContributions = 0
      /\ eth = [crowdfund |-> 0, party |-> 0, recipient |-> 0, contributors |-> 0]
  BY DEF BaseInit
<1>2. eth \in Balances /\ eth.crowdfund + (eth.party + (eth.recipient + eth.contributors)) = 0
  BY <1>1 DEF Balances
<1>3. QED
  BY <1>1, <1>2, PaidStart, Constants DEF LedgerInv

\* What moves no ETH, as time passes or not.
LEMMA LedgerAside ==
  ASSUME LedgerInv, UNCHANGED <<expiry, totalContributions, eth, partyTotal>>,
         now' = now \/ BaseTick
  PROVE  LedgerInv'
<1>1. PaidInv'
  BY StillPays, TickPays DEF LedgerInv
<1>2. now' \in 1 .. MaxTime
  BY Constants DEF LedgerInv, BaseTick
<1>3. QED
  BY <1>1, <1>2 DEF LedgerInv

\* The contributors' ETH goes to the crowdfund or comes back, and the crowdfund's own to
\* the party and the recipient of the split.
LEMMA BalancesMove ==
  ASSUME eth \in Balances, eth.crowdfund + (eth.party + (eth.recipient + eth.contributors)) = 0,
         NEW p \in Nat, NEW f \in Nat, NEW in \in Int, NEW c \in Nat,
         c = eth.crowdfund + in - (p + f),
         eth' = [crowdfund |-> c, party |-> eth.party + p,
                 recipient |-> eth.recipient + f, contributors |-> eth.contributors - in]
  PROVE  /\ eth' \in Balances
         /\ eth'.crowdfund + (eth'.party + (eth'.recipient + eth'.contributors)) = 0
<1>1. PICK w \in Nat, x \in Nat, y \in Nat, z \in Int :
        w = eth.crowdfund /\ x = eth.party /\ y = eth.recipient /\ z = eth.contributors
  BY DEF Balances
<1>2. eth' = [crowdfund |-> c, party |-> x + p, recipient |-> y + f, contributors |-> z - in]
  BY <1>1
<1>3. x + p \in Nat /\ y + f \in Nat /\ z - in \in Int
  BY <1>1
<1>4. eth' \in Balances
  BY <1>2, <1>3 DEF Balances
<1>5. /\ eth'.crowdfund = c /\ eth'.party = x + p /\ eth'.recipient = y + f
      /\ eth'.contributors = z - in
  BY <1>2
<1>6. c + ((x + p) + ((y + f) + (z - in))) = 0
  <2>1. w + (x + (y + z)) = 0 /\ c = w + in - (p + f)
    BY <1>1
  <2>2. QED
    BY <1>1, <2>1
<1>7. QED
  BY <1>4, <1>5, <1>6

\* A payout gives the party and the recipient all that was contributed.
LEMMA LedgerOnPayOut ==
  ASSUME LedgerInv, NEW sent \in Nat, NEW total \in Nat, NEW excess \in Nat,
         PayOut(sent, total, excess)
  PROVE  /\ eth' \in Balances
         /\ eth'.crowdfund + (eth'.party + (eth'.recipient + eth'.contributors)) = 0
         /\ expiry' = 0
<1>1. PICK w \in Nat, z \in Int : w = eth.crowdfund /\ z = eth.contributors
  BY DEF LedgerInv, Balances
<1>2. PICK f \in Nat : f = FeeOf(total) /\ f <= total
  BY NetIs
<1>3. PICK p \in Nat : p = total - f
  BY <1>2
<1>4. PICK in \in Int : in = sent - excess
  OBVIOUS
<1>5. /\ w + sent >= total + excess /\ expiry' = 0
      /\ eth' = [crowdfund |-> w + sent - total - excess,
                 party |-> eth.party + total - f,
                 recipient |-> eth.recipient + f,
                 contributors |-> z - sent + excess]
  BY <1>1, <1>2 DEF PayOut, Closed
<1>6. PICK c \in Nat : c = w + in - (p + f)
  BY <1>1, <1>2, <1>3, <1>4, <1>5
<1>7. /\ w + sent - total - excess = c
      /\ z - sent + excess = z - in
  BY <1>1, <1>2, <1>3, <1>4, <1>6
<1>8. eth.party + total - f = eth.party + p
  BY <1>3
<1>9. eth' = [crowdfund |-> c, party |-> eth.party + p,
              recipient |-> eth.recipient + f, contributors |-> eth.contributors - in]
  BY <1>1, <1>5, <1>7, <1>8
<1>10. QED
  BY <1>1, <1>5, <1>6, <1>9, BalancesMove DEF LedgerInv

\* The contributors bring some ETH, or take it back.
Brought(in) == eth' = [eth EXCEPT !.crowdfund = @ + in, !.contributors = @ - in]

\* ETH moves between the crowdfund and its contributors.
LEMMA LedgerOnTransfer ==
  ASSUME LedgerInv, NEW in \in Int, eth.crowdfund + in \in Nat, Brought(in)
  PROVE  /\ eth' \in Balances
         /\ eth'.crowdfund + (eth'.party + (eth'.recipient + eth'.contributors)) = 0
         /\ eth'.crowdfund = eth.crowdfund + in
<1>1. eth \in Balances /\ eth.crowdfund + (eth.party + (eth.recipient + eth.contributors)) = 0
  BY DEF LedgerInv
<1>2. PICK c \in Nat : c = eth.crowdfund + in - (0 + 0)
  BY <1>1 DEF Balances
<1>3. /\ eth.party + 0 = eth.party /\ eth.recipient + 0 = eth.recipient
      /\ c = eth.crowdfund + in
  BY <1>1, <1>2 DEF Balances
<1>4. eth' = [crowdfund |-> c, party |-> eth.party + 0,
              recipient |-> eth.recipient + 0, contributors |-> eth.contributors - in]
  BY <1>1, <1>3 DEF Balances, Brought
<1>5. /\ eth' \in Balances
      /\ eth'.crowdfund + (eth'.party + (eth'.recipient + eth'.contributors)) = 0
  BY <1>1, <1>2, <1>4, BalancesMove
<1>6. eth'.crowdfund = c
  BY <1>4
<1>7. QED
  BY <1>3, <1>5, <1>6

\* What a contribution does: the crowdfund stays open with amount more, or reaches the cap
\* and is closed.
LEMMA LedgerOnContribution ==
  ASSUME LedgerInv, NEW s, NEW c, NEW amount \in Amounts, NEW d, Contributed(s, c, amount, d)
  PROVE  /\ LedgerInv' /\ expiry # 0 /\ now' = now
         /\ Counted(amount) \in Nat /\ Counted(amount) > 0
         /\ totalContributions' = totalContributions + Counted(amount)
         /\ ReachesCap(amount) => totalContributions' = MaxTotalContributions /\ expiry' = 0
         /\ ~ReachesCap(amount) => /\ Counted(amount) = amount
                                   /\ eth'.crowdfund = eth.crowdfund + amount
                                   /\ UNCHANGED <<expiry, partyTotal>>
<1>1. PICK a \in Nat : a = amount /\ a > 0
  <2>1. amount \in Nat /\ amount # 0
    BY Constants
  <2>2. QED
    BY <2>1
<1>2. PICK t \in Nat, m \in Nat : t = totalContributions /\ m = MaxTotalContributions
  BY Constants DEF LedgerInv, PaidInv
<1>3. expiry # 0 /\ now' = now /\ PaidInv' /\ t < m
  BY <1>2, ContributedPays, OpenIsNotClosed DEF Contributed, Accepts, LedgerInv
<1>4. ReachesCap(amount) <=> t + a >= m
  BY <1>1, <1>2 DEF ReachesCap
<1>5. CASE ReachesCap(amount)
  <2>1. PICK e \in Nat : e = (t + a) - m
    BY <1>4, <1>5
  <2>2. Excess(amount) = e
    BY <1>1, <1>2, <1>5, <2>1 DEF Excess
  <2>3. Counted(amount) = m - t
    BY <1>1, <1>2, <2>1, <2>2 DEF Counted
  <2>4. totalContributions' = m /\ PayOut(a, m, e)
    BY <1>1, <1>2, <1>5, <2>2 DEF Contributed
  <2>5. /\ eth' \in Balances
        /\ eth'.crowdfund + (eth'.party + (eth'.recipient + eth'.contributors)) = 0
        /\ expiry' = 0
    BY <2>4, LedgerOnPayOut
  <2>6. now' \in 1 .. MaxTime
    BY <1>3 DEF LedgerInv
  <2>7. LedgerInv'
    BY <1>2, <1>3, <2>4, <2>5, <2>6 DEF LedgerInv
  <2>8. m - t \in Nat /\ m - t > 0 /\ m = t + (m - t)
    BY <1>2, <1>3
  <2>9. QED
    BY <1>2, <1>3, <1>5, <2>3, <2>4, <2>5, <2>7, <2>8
<1>6. CASE ~ReachesCap(amount)
  <2>1. Counted(amount) = a
    BY <1>1, <1>6 DEF Counted, Excess
  <2>2. /\ totalContributions' = t + a
        /\ Brought(a)
        /\ UNCHANGED <<expiry, partyTotal>>
    BY <1>1, <1>2, <1>6 DEF Contributed, Brought
  <2>3. eth.crowdfund + a \in Nat
    BY DEF LedgerInv, Balances
  <2>4. /\ eth' \in Balances
        /\ eth'.crowdfund + (eth'.party + (eth'.recipient + eth'.contributors)) = 0
        /\ eth'.crowdfund = eth.crowdfund + a
    BY <2>2, <2>3, LedgerOnTransfer
  <2>5. t + a < m
    BY <1>2, <1>4, <1>6
  <2>6. now' \in 1 .. MaxTime
    BY <1>3 DEF LedgerInv
  <2>7. LedgerInv'
    BY <1>2, <1>3, <2>2, <2>4, <2>5, <2>6 DEF LedgerInv
  <2>8. QED
    BY <1>1, <1>2, <1>3, <1>6, <2>1, <2>2, <2>4, <2>7
<1>7. QED
  BY <1>5, <1>6

\* finalize() closes the crowdfund.
LEMMA LedgerOnFinalize ==
  ASSUME LedgerInv, NEW isHost \in BOOLEAN, Finalize(isHost)
  PROVE  LedgerInv' /\ expiry # 0 /\ expiry' = 0 /\ totalContributions' = totalContributions
<1>1. /\ totalContributions' = totalContributions /\ now' = now
      /\ PayOut(0, totalContributions, 0)
  BY DEF Finalize
<1>2. PaidInv' /\ expiry # 0
  BY FinalizePays, OpenIsNotClosed DEF LedgerInv, Finalize, MayFinalize
<1>3. totalContributions \in Nat
  BY DEF LedgerInv, PaidInv
<1>4. /\ eth' \in Balances
      /\ eth'.crowdfund + (eth'.party + (eth'.recipient + eth'.contributors)) = 0
      /\ expiry' = 0
  BY <1>1, <1>3, LedgerOnPayOut
<1>5. QED
  BY <1>1, <1>2, <1>4 DEF LedgerInv

\* A leg of a batch that fails leaves ETH behind.
LEMMA LedgerOnLeg ==
  ASSUME LedgerInv, NEW amount \in Amounts, LegFails(amount)
  PROVE  /\ LedgerInv' /\ amount \in Nat /\ eth'.crowdfund = eth.crowdfund + amount
         /\ UNCHANGED <<expiry, totalContributions, partyTotal>>
<1>1. PICK a \in Nat : a = amount
  BY Constants
<1>2. /\ Brought(a)
      /\ UNCHANGED <<now, expiry, totalContributions, partyTotal>>
  BY <1>1 DEF LegFails, Brought
<1>3. eth.crowdfund + a \in Nat
  BY DEF LedgerInv, Balances
<1>4. PaidInv'
  BY LegFailsPays DEF LedgerInv
<1>5. /\ eth' \in Balances
      /\ eth'.crowdfund + (eth'.party + (eth'.recipient + eth'.contributors)) = 0
      /\ eth'.crowdfund = eth.crowdfund + a
  BY <1>2, <1>3, LedgerOnTransfer
<1>6. LedgerInv'
  BY <1>2, <1>4, <1>5 DEF LedgerInv
<1>7. QED
  BY <1>1, <1>2, <1>5, <1>6

\* A refund is paid from what the crowdfund has.
LEMMA LedgerOnRefund ==
  ASSUME LedgerInv, NEW amount \in Nat, amount <= eth.crowdfund,
         eth' = [eth EXCEPT !.crowdfund = @ - amount, !.contributors = @ + amount],
         UNCHANGED <<now, expiry, totalContributions, partyTotal>>
  PROVE  LedgerInv' /\ eth'.crowdfund = eth.crowdfund - amount
<1>1. PICK w \in Nat, z \in Int : w = eth.crowdfund /\ z = eth.contributors
  BY DEF LedgerInv, Balances
<1>2. PICK in \in Int : in = 0 - amount
  OBVIOUS
<1>3. /\ w + in \in Nat /\ w - amount = w + in /\ z + amount = z - in
  BY <1>1, <1>2
<1>4. Brought(in)
  BY <1>1, <1>3 DEF Brought
<1>5. /\ eth' \in Balances
      /\ eth'.crowdfund + (eth'.party + (eth'.recipient + eth'.contributors)) = 0
      /\ eth'.crowdfund = eth.crowdfund + in
  BY <1>1, <1>3, <1>4, LedgerOnTransfer
<1>6. PaidInv'
  BY RefundPays DEF LedgerInv
<1>7. LedgerInv'
  BY <1>5, <1>6 DEF LedgerInv
<1>8. QED
  BY <1>1, <1>3, <1>5, <1>7

\* The total voting power is what the contributions bring, with the split.
LEMMA TotalIs ==
  ASSUME LedgerInv
  PROVE  /\ partyTotal \in Nat
         /\ expiry # 0 => partyTotal = StartTotal
         /\ \A n \in Nat :
              expiry = 0 /\ n * Bps <= totalContributions * ExchangeRateBps
                => StartTotal + n <= partyTotal
<1>1. PICK t \in Nat, x \in Nat, s \in Nat :
        t = totalContributions /\ x = ExchangeRateBps /\ s = StartTotal
  BY Constants DEF LedgerInv, PaidInv
<1>2. 0 * x = 0 /\ 0 \div Bps = 0
  BY DEF Bps
<1>3. PICK k \in Nat : k = t * x
  OBVIOUS
<1>4. /\ expiry # 0 => partyTotal = s
      /\ expiry = 0 => partyTotal = s + (k \div Bps)
  BY <1>1, <1>2, <1>3 DEF LedgerInv, PaidInv, PaidOutOnce
<1>5. k \div Bps \in Nat
  BY DEF Bps
<1>6. \A n \in Nat : n * Bps <= k => n <= k \div Bps
  BY DEF Bps
<1>7. QED
  BY <1>1, <1>3, <1>4, <1>5, <1>6

----------------------------------------------------------------------------
(* The party                                                               *)

CardType == [owner : Contributors \cup {None}, power : Nat]

Delegates == [Contributors -> Contributors \cup {None}]

\* The types of what the party keeps.
CardsTyped ==
  /\ partyMinted \in Nat
  /\ cards \in Seq(CardType)
  /\ partyDelegate \in Delegates

\* The types of what the crowdfund keeps of its contributors: a credit waits only for the
\* calls of a payout, which closed the crowdfund.
CreditTyped ==
  /\ delegationsByContributor \in Delegates
  /\ credit \in [contributor : Contributors \cup {None}, power : Nat, card : Nat,
                 delegate : Contributors \cup {None}]
  /\ credit # NoCredit => expiry = 0 /\ credit.contributor \in Contributors

\* Whether the party can grant so much power.
Fits(power) == partyTotal = 0 \/ partyMinted + power <= partyTotal

\* Then nothing is cut.
LEMMA AllGranted ==
  ASSUME NEW p \in Nat, NEW m \in Nat, partyTotal \in Nat, partyTotal = 0 \/ m + p <= partyTotal
  PROVE  Granted(p, m) = p
BY DEF Granted

\* One round of the loop that mints cards, and the loop.
MintRound(g, powers, n) ==
  IF n = 0 THEN partyMinted ELSE g[n - 1] + Granted(powers[n], g[n - 1])

MintRounds(powers) == CHOOSE g : g = [n \in 0 .. Len(powers) |-> MintRound(g, powers, n)]

\* The cards that the loop mints.
MintedBy(c, powers) ==
  [n \in 1 .. Len(powers) |->
     [owner |-> c, power |-> Granted(powers[n], MintRounds(powers)[n - 1])]]

\* What is minted is what the loop says.
LEMMA MintIsLoop ==
  ASSUME NEW c, NEW powers, NEW d, MintCards(c, powers, d)
  PROVE  /\ partyMinted' = MintRounds(powers)[Len(powers)]
         /\ cards' = cards \o MintedBy(c, powers)
         /\ partyDelegate' = Joined(c, d)
BY DEF MintCards, MintRounds, MintRound, MintedBy

\* The power of the first n of powers.
FirstPowers(powers, n) == SumFunctionOnSet(powers, 1 .. n)

\* It is a number, it grows by one power at a time and never beyond all of them.
LEMMA FirstPowersAre ==
  ASSUME NEW powers \in Seq(Nat)
  PROVE  /\ FirstPowers(powers, 0) = 0
         /\ \A n \in 0 .. Len(powers) :
              /\ FirstPowers(powers, n) \in Nat
              /\ FirstPowers(powers, n) <= FirstPowers(powers, Len(powers))
         /\ \A n \in 1 .. Len(powers) :
              FirstPowers(powers, n) = FirstPowers(powers, n - 1) + powers[n]
<1>1. PICK m \in Nat : m = Len(powers) /\ IsFiniteSet(1 .. m) /\ \A i \in 1 .. m : powers[i] \in Nat
  <2>1. Len(powers) \in Nat /\ \A i \in 1 .. Len(powers) : powers[i] \in Nat
    OBVIOUS
  <2>2. IsFiniteSet(1 .. Len(powers))
    BY <2>1, FS_Interval
  <2>3. QED
    BY <2>1, <2>2
<1>2. FirstPowers(powers, 0) = 0
  <2>1. 1 .. 0 = {}
    OBVIOUS
  <2>2. QED
    BY <2>1, SumEmpty DEF FirstPowers
<1>3. ASSUME NEW n \in 0 .. m
      PROVE  FirstPowers(powers, n) \in Nat /\ FirstPowers(powers, n) <= FirstPowers(powers, m)
  <2>1. 1 .. n \in SUBSET (1 .. m)
    BY <1>1
  <2>2. IsFiniteSet(1 .. n) /\ \A i \in 1 .. n : powers[i] \in Int /\ powers[i] >= 0
    BY <1>1, <2>1, FS_Subset
  <2>3. FirstPowers(powers, n) \in Nat
    BY <2>2, SumType DEF FirstPowers
  <2>4. FirstPowers(powers, n) <= FirstPowers(powers, m)
    BY <1>1, <2>1, SumSubset DEF FirstPowers
  <2>5. QED
    BY <2>3, <2>4
<1>4. ASSUME NEW n \in 1 .. m
      PROVE  FirstPowers(powers, n) = FirstPowers(powers, n - 1) + powers[n]
  <2>1. PICK j \in Nat : j = n - 1 /\ n = j + 1
    BY <1>1
  <2>2. Continues(powers, powers, j)
    BY <1>1, <2>1 DEF Continues
  <2>3. SumFunctionOnSet(powers, 1 .. j + 1) = SumFunctionOnSet(powers, 1 .. j) + powers[j + 1]
    BY <2>2, SumContinued
  <2>4. QED
    BY <2>1, <2>3, Zenon DEF FirstPowers
<1>5. QED
  BY <1>1, <1>2, <1>3, <1>4

\* When all of powers fit, the loop mints each of them in full.
LEMMA MintRoundsAre ==
  ASSUME partyMinted \in Nat, partyTotal \in Nat, NEW powers \in Seq(Nat),
         Fits(FirstPowers(powers, Len(powers)))
  PROVE  /\ \A n \in 0 .. Len(powers) :
              MintRounds(powers)[n] = partyMinted + FirstPowers(powers, n)
         /\ \A n \in 1 .. Len(powers) :
              Granted(powers[n], MintRounds(powers)[n - 1]) = powers[n]
<1>1. PICK m \in Nat : m = Len(powers)
  OBVIOUS
<1>2. PICK f : f = [n \in 0 .. m |-> FirstPowers(powers, n)]
  OBVIOUS
<1>3. PICK s \in Nat, t \in Nat : s = partyMinted /\ t = partyTotal
  OBVIOUS
<1>4. /\ f[0] = 0
      /\ \A n \in 0 .. m : f[n] \in Nat /\ f[n] <= f[m]
      /\ \A n \in 1 .. m : f[n] = f[n - 1] + powers[n] /\ powers[n] \in Nat
  <2>1. \A n \in 1 .. m : n - 1 \in 0 .. m /\ n \in 0 .. m /\ powers[n] \in Nat
    BY <1>1
  <2>2. 0 \in 0 .. m /\ m \in 0 .. m
    OBVIOUS
  <2>3. QED
    BY <1>1, <1>2, <2>1, <2>2, FirstPowersAre
<1>5. t = 0 \/ s + f[m] <= t
  <2>1. f[m] = FirstPowers(powers, Len(powers))
    BY <1>1, <1>2
  <2>2. QED
    BY <1>3, <2>1 DEF Fits
<1>6. PICK h : h = [n \in 0 .. m |-> s + f[n]]
  OBVIOUS
<1>7. \A n \in 1 .. m : Granted(powers[n], h[n - 1]) = powers[n] /\ h[n] = h[n - 1] + powers[n]
  <2>1. ASSUME NEW n \in 1 .. m
        PROVE  Granted(powers[n], h[n - 1]) = powers[n] /\ h[n] = h[n - 1] + powers[n]
    <3>1. n \in 0 .. m /\ n - 1 \in 0 .. m
      OBVIOUS
    <3>2. PICK p \in Nat, x \in Nat, y \in Nat, z \in Nat :
            p = powers[n] /\ x = f[n - 1] /\ y = f[n] /\ z = f[m] /\ y = x + p /\ y <= z
      <4>1. m \in 0 .. m
        OBVIOUS
      <4>2. /\ powers[n] \in Nat /\ f[n - 1] \in Nat /\ f[n] \in Nat /\ f[m] \in Nat
            /\ f[n] = f[n - 1] + powers[n] /\ f[n] <= f[m]
        BY <1>4, <3>1, <4>1
      <4>3. QED
        BY <4>2
    <3>3. h[n - 1] = s + x /\ h[n] = s + y
      BY <1>6, <3>1, <3>2
    <3>4. t = 0 \/ (s + x) + p <= t
      <4>1. t = 0 \/ s + z <= t
        BY <1>5, <3>2
      <4>2. y = x + p /\ y <= z
        BY <3>2
      <4>3. QED
        BY <4>1, <4>2
    <3>5. Granted(p, s + x) = p
      BY <1>3, <3>4, AllGranted
    <3>6. s + y = (s + x) + p
      <4>1. y = x + p
        BY <3>2
      <4>2. QED
        BY <4>1
    <3>7. QED
      BY <3>2, <3>3, <3>5, <3>6
  <2>2. QED
    BY <2>1
<1>8. \A n \in 0 .. m : h[n] = MintRound(h, powers, n)
  <2>1. ASSUME NEW n \in 0 .. m PROVE h[n] = MintRound(h, powers, n)
    <3>1. CASE n = 0
      <4>1. h[0] = s
        BY <1>3, <1>4, <1>6
      <4>2. QED
        BY <1>3, <3>1, <4>1 DEF MintRound
    <3>2. CASE n # 0
      <4>1. n \in 1 .. m
        BY <3>2
      <4>2. h[n] = h[n - 1] + Granted(powers[n], h[n - 1])
        BY <1>7, <4>1
      <4>3. QED
        BY <3>2, <4>2, Zenon DEF MintRound
    <3>3. QED
      BY <3>1, <3>2
  <2>2. QED
    BY <2>1
<1>9. h = [n \in 0 .. Len(powers) |-> MintRound(h, powers, n)]
  BY <1>1, <1>6, <1>8
<1>10. PICK g : g = MintRounds(powers)
  OBVIOUS
<1>11. g = [n \in 0 .. Len(powers) |-> MintRound(g, powers, n)]
  BY <1>9, <1>10, Zenon DEF MintRounds
<1>12. \A n \in 0 .. m : g[n] = MintRound(g, powers, n)
  BY <1>1, <1>11
<1>13. PICK N : N = {n \in 0 .. m : g[n] # h[n]}
  OBVIOUS
<1>14. N = {}
  <2>1. SUFFICES ASSUME N # {} PROVE FALSE
    OBVIOUS
  <2>2. N \subseteq Nat
    BY <1>13
  <2>3. PICK n \in N : \A k \in N : n <= k
    BY <2>1, <2>2, LeastNatural
  <2>4. n \in 0 .. m /\ g[n] # h[n]
    BY <1>13
  <2>5. n = 0 \/ g[n - 1] = h[n - 1]
    BY <1>13, <2>3, <2>4
  <2>6. MintRound(g, powers, n) = MintRound(h, powers, n)
    BY <2>5, Zenon DEF MintRound
  <2>7. QED
    BY <1>8, <1>12, <2>4, <2>6
<1>15. \A n \in 0 .. m : g[n] = h[n] /\ h[n] = partyMinted + FirstPowers(powers, n)
  BY <1>2, <1>3, <1>6, <1>13, <1>14
<1>16. \A n \in 1 .. m : Granted(powers[n], g[n - 1]) = powers[n]
  <2>1. \A n \in 1 .. m : n - 1 \in 0 .. m
    OBVIOUS
  <2>2. QED
    BY <1>7, <1>15, <2>1
<1>17. QED
  BY <1>1, <1>10, <1>15, <1>16

\* The new cards of c.
NewCards(c, powers) == [n \in 1 .. Len(powers) |-> [owner |-> c, power |-> powers[n]]]

\* What joins is a delegate.
LEMMA JoinedType ==
  ASSUME partyDelegate \in Delegates, NEW c, NEW d \in Contributors \cup {None}
  PROVE  Joined(c, d) \in Delegates
BY DEF Joined, Delegates

\* Cards minted in full.
LEMMA MintIs ==
  ASSUME CardsTyped, partyTotal \in Nat, NEW c \in Contributors, NEW powers \in Seq(Nat),
         NEW d \in Contributors \cup {None},
         Fits(FirstPowers(powers, Len(powers))), MintCards(c, powers, d)
  PROVE  /\ CardsTyped'
         /\ partyMinted' = partyMinted + FirstPowers(powers, Len(powers))
         /\ cards' = cards \o NewCards(c, powers)
<1>1. /\ partyMinted' = MintRounds(powers)[Len(powers)]
      /\ cards' = cards \o MintedBy(c, powers)
      /\ partyDelegate' = Joined(c, d)
  BY MintIsLoop
<1>2. /\ \A n \in 0 .. Len(powers) :
           MintRounds(powers)[n] = partyMinted + FirstPowers(powers, n)
      /\ \A n \in 1 .. Len(powers) :
           Granted(powers[n], MintRounds(powers)[n - 1]) = powers[n]
  BY MintRoundsAre DEF CardsTyped
<1>3. MintedBy(c, powers) = NewCards(c, powers)
  BY <1>2 DEF MintedBy, NewCards
<1>4. partyMinted' = partyMinted + FirstPowers(powers, Len(powers))
  BY <1>1, <1>2
<1>5. partyMinted' \in Nat
  <2>1. Len(powers) \in 0 .. Len(powers)
    OBVIOUS
  <2>2. FirstPowers(powers, Len(powers)) \in Nat
    BY <2>1, FirstPowersAre
  <2>3. QED
    BY <1>4, <2>2 DEF CardsTyped
<1>6. NewCards(c, powers) \in Seq(CardType)
  <2>1. \A n \in 1 .. Len(powers) : [owner |-> c, power |-> powers[n]] \in CardType
    BY DEF CardType
  <2>2. Len(powers) \in Nat
    OBVIOUS
  <2>3. QED
    BY <2>1, <2>2 DEF NewCards
<1>7. cards' \in Seq(CardType)
  BY <1>1, <1>3, <1>6, ConcatProperties DEF CardsTyped
<1>8. QED
  BY <1>1, <1>3, <1>4, <1>5, <1>7, JoinedType DEF CardsTyped

\* The cards gain one of power, or one of them gains power.
OneMore(power) ==
  /\ Len(cards') = Len(cards) + 1
  /\ \A i \in 1 .. Len(cards) : cards'[i].power = cards[i].power
  /\ cards'[Len(cards) + 1].power = power

Increased(t, power) ==
  /\ Len(cards') = Len(cards) /\ t \in 1 .. Len(cards)
  /\ \A i \in 1 .. Len(cards) :
       cards'[i].power = IF i = t THEN cards[i].power + power ELSE cards[i].power

\* Power granted in full.
LEMMA GrantIs ==
  ASSUME CardsTyped, partyTotal \in Nat, NEW c \in Contributors, NEW t \in Nat,
         NEW power \in Nat, NEW d \in Contributors \cup {None}, Fits(power), Grant(c, t, power, d)
  PROVE  /\ CardsTyped'
         /\ partyMinted' = partyMinted + power
         /\ OneMore(power) \/ Increased(t, power)
<1>1. CASE t = 0
  <2>1. PICK powers : powers = <<power>>
    OBVIOUS
  <2>2. powers \in Seq(Nat) /\ Len(powers) = 1 /\ powers[1] = power
    BY <2>1
  <2>3. FirstPowers(powers, 1) = power
    <3>1. /\ FirstPowers(powers, 0) = 0
          /\ \A n \in 1 .. Len(powers) :
               FirstPowers(powers, n) = FirstPowers(powers, n - 1) + powers[n]
      BY <2>2, FirstPowersAre
    <3>2. 1 \in 1 .. Len(powers) /\ 1 - 1 = 0
      BY <2>2
    <3>3. QED
      BY <2>2, <3>1, <3>2
  <2>4. MintCards(c, powers, d)
    BY <1>1, <2>1 DEF Grant
  <2>5. /\ CardsTyped' /\ partyMinted' = partyMinted + power
        /\ cards' = cards \o NewCards(c, powers)
    BY <2>2, <2>3, <2>4, MintIs
  <2>6. OneMore(power)
    <3>1. NewCards(c, powers) \in Seq(CardType)
      <4>1. [owner |-> c, power |-> powers[1]] \in CardType
        BY <2>2 DEF CardType
      <4>2. QED
        BY <2>2, <4>1 DEF NewCards
    <3>2. Len(NewCards(c, powers)) = 1 /\ NewCards(c, powers)[1].power = power
      BY <2>2 DEF NewCards
    <3>3. cards \in Seq(CardType)
      BY DEF CardsTyped
    <3>4. PICK new \in Seq(CardType) :
            new = NewCards(c, powers) /\ Len(new) = 1 /\ new[1].power = power
      BY <3>1, <3>2
    <3>5. cards' = cards \o new
      BY <2>5, <3>4
    <3>6. /\ Len(cards') = Len(cards) + Len(new)
          /\ \A i \in 1 .. Len(cards) + Len(new) :
               cards'[i] = IF i <= Len(cards) THEN cards[i] ELSE new[i - Len(cards)]
      BY <3>3, <3>5, ConcatProperties
    <3>7. PICK n \in Nat : n = Len(cards)
      BY <3>3
    <3>8. /\ Len(cards') = n + 1
          /\ \A i \in 1 .. n + 1 : cards'[i] = IF i <= n THEN cards[i] ELSE new[i - n]
      BY <3>4, <3>6, <3>7
    <3>9. n + 1 \in 1 .. n + 1 /\ ~(n + 1 <= n) /\ (n + 1) - n = 1
      OBVIOUS
    <3>10. cards'[n + 1] = new[1]
      BY <3>8, <3>9
    <3>11. \A i \in 1 .. n : cards'[i] = cards[i]
      BY <3>8
    <3>12. QED
      BY <3>4, <3>7, <3>8, <3>10, <3>11 DEF OneMore
  <2>7. QED
    BY <2>5, <2>6
<1>2. CASE t # 0
  <2>1. Granted(power, partyMinted) = power
    BY AllGranted DEF Fits, CardsTyped
  <2>2. /\ partyMinted' = partyMinted + power
        /\ t \in DOMAIN cards
        /\ cards' = [cards EXCEPT ![t].power = @ + power]
        /\ partyDelegate' = Joined(c, c)
    BY <1>2, <2>1 DEF Grant, AddPower, Owns, Cards
  <2>3. cards \in Seq(CardType) /\ t \in 1 .. Len(cards)
    BY <2>2 DEF CardsTyped
  <2>4. cards[t] \in CardType
    BY <2>3
  <2>5. [cards[t] EXCEPT !.power = @ + power] \in CardType
    BY <2>4 DEF CardType
  <2>6. cards' \in Seq(CardType) /\ Increased(t, power)
    <3>1. cards' = [cards EXCEPT ![t] = [cards[t] EXCEPT !.power = @ + power]]
      BY <2>2, <2>3
    <3>2. /\ Len(cards') = Len(cards)
          /\ cards' \in Seq(CardType)
          /\ \A i \in 1 .. Len(cards) :
               cards'[i] = IF i = t THEN [cards[t] EXCEPT !.power = @ + power] ELSE cards[i]
      BY <2>3, <2>5, <3>1, ExceptSeq
    <3>3. [cards[t] EXCEPT !.power = @ + power].power = cards[t].power + power
      BY <2>4 DEF CardType
    <3>4. QED
      BY <2>3, <3>2, <3>3 DEF Increased
  <2>7. partyDelegate' \in Delegates
    BY <2>2, JoinedType DEF CardsTyped
  <2>8. QED
    BY <2>2, <2>6, <2>7 DEF CardsTyped
<1>3. QED
  BY <1>1, <1>2

\* A transfer keeps the powers of the cards.
LEMMA TransferIs ==
  ASSUME CardsTyped, NEW c \in Contributors, NEW to \in Contributors, NEW t, Transfer(c, to, t)
  PROVE  CardsTyped' /\ Len(cards') = Len(cards)
         /\ \A i \in 1 .. Len(cards) : cards'[i].power = cards[i].power
<1>1. /\ t \in DOMAIN cards /\ partyMinted' = partyMinted
      /\ cards' = [cards EXCEPT ![t].owner = to]
      /\ partyDelegate' = [partyDelegate EXCEPT ![c] = IF @ = None THEN c ELSE @,
                                               ![to] = IF @ = None THEN to ELSE @]
  BY DEF Transfer, Movable, Owns, Cards
<1>2. cards \in Seq(CardType) /\ t \in 1 .. Len(cards)
  BY <1>1 DEF CardsTyped
<1>3. cards[t] \in CardType
  BY <1>2
<1>4. /\ [cards[t] EXCEPT !.owner = to] \in CardType
      /\ [cards[t] EXCEPT !.owner = to].power = cards[t].power
  BY <1>3 DEF CardType
<1>5. cards' = [cards EXCEPT ![t] = [cards[t] EXCEPT !.owner = to]]
  BY <1>1, <1>2
<1>6. /\ Len(cards') = Len(cards)
      /\ cards' \in Seq(CardType)
      /\ \A i \in 1 .. Len(cards) :
           cards'[i] = IF i = t THEN [cards[t] EXCEPT !.owner = to] ELSE cards[i]
  BY <1>2, <1>4, <1>5, ExceptSeq
<1>7. partyDelegate' \in Delegates
  BY <1>1 DEF CardsTyped, Delegates
<1>8. QED
  BY <1>1, <1>2, <1>4, <1>6, <1>7 DEF CardsTyped

----------------------------------------------------------------------------
(* The power of the cards                                                  *)

\* All power on the cards of s.
CardSum(s) == SumFunctionOnSet([t \in 1 .. Len(s) |-> s[t].power], 1 .. Len(s))

\* It is a number, and each card has at most that.
LEMMA CardSumIs ==
  ASSUME NEW s \in Seq(CardType)
  PROVE  CardSum(s) \in Nat /\ \A t \in 1 .. Len(s) : s[t].power \in Nat /\ s[t].power <= CardSum(s)
<1>1. IsFiniteSet(1 .. Len(s)) /\ \A t \in 1 .. Len(s) : s[t].power \in Nat
  <2>1. Len(s) \in Nat /\ \A t \in 1 .. Len(s) : s[t] \in CardType
    OBVIOUS
  <2>2. IsFiniteSet(1 .. Len(s))
    BY <2>1, FS_Interval
  <2>3. QED
    BY <2>1, <2>2 DEF CardType
<1>2. PICK f : f = [t \in 1 .. Len(s) |-> s[t].power]
  OBVIOUS
<1>3. \A t \in 1 .. Len(s) : f[t] = s[t].power /\ f[t] \in Nat /\ f[t] \in Int /\ f[t] >= 0
  BY <1>1, <1>2
<1>4. SumFunctionOnSet(f, 1 .. Len(s)) \in Nat
  BY <1>1, <1>3, SumType
<1>5. \A t \in 1 .. Len(s) : f[t] <= SumFunctionOnSet(f, 1 .. Len(s))
  BY <1>1, <1>3, SumSubset
<1>6. CardSum(s) = SumFunctionOnSet(f, 1 .. Len(s))
  BY <1>2, Zenon DEF CardSum
<1>7. QED
  BY <1>3, <1>4, <1>5, <1>6

\* A card more adds its power.
LEMMA CardSumMore ==
  ASSUME NEW p \in Nat, cards \in Seq(CardType), cards' \in Seq(CardType), OneMore(p)
  PROVE  CardSum(cards') = CardSum(cards) + p
<1>1. PICK n \in Nat : n = Len(cards) /\ n + 1 = Len(cards')
  BY DEF OneMore
<1>2. PICK f : f = [t \in 1 .. n |-> cards[t].power]
  OBVIOUS
<1>3. PICK g : g = [t \in 1 .. n + 1 |-> cards'[t].power]
  OBVIOUS
<1>4. /\ \A i \in 1 .. n : cards'[i].power = cards[i].power /\ cards[i].power \in Nat
      /\ cards'[n + 1].power = p
  BY <1>1, CardSumIs DEF OneMore
<1>5. \A i \in 1 .. n : i \in 1 .. n + 1
  OBVIOUS
<1>6. n + 1 \in 1 .. n + 1
  OBVIOUS
<1>7. \A i \in 1 .. n : f[i] \in Int /\ g[i] = f[i]
  BY <1>2, <1>3, <1>4, <1>5
<1>8. g[n + 1] = p
  BY <1>3, <1>4, <1>6
<1>9. Continues(f, g, n)
  BY <1>7, <1>8 DEF Continues
<1>10. SumFunctionOnSet(g, 1 .. n + 1) = SumFunctionOnSet(f, 1 .. n) + p
  BY <1>8, <1>9, SumContinued
<1>11. CardSum(cards) = SumFunctionOnSet(f, 1 .. n)
  BY <1>1, <1>2, Zenon DEF CardSum
<1>12. CardSum(cards') = SumFunctionOnSet(g, 1 .. n + 1)
  BY <1>1, <1>3, Zenon DEF CardSum
<1>13. QED
  BY <1>10, <1>11, <1>12

\* The cards of s and those of u differ in the power of t only.
OneDiffers(s, u, t) ==
  /\ Len(u) = Len(s)
  /\ \A i \in 1 .. Len(s) : i # t => u[i].power = s[i].power

\* Then all power differs by as much.
LEMMA CardSumDiffers ==
  ASSUME NEW s \in Seq(CardType), NEW u \in Seq(CardType), NEW t \in 1 .. Len(s),
         OneDiffers(s, u, t)
  PROVE  CardSum(u) = CardSum(s) + u[t].power - s[t].power
<1>1. PICK n \in Nat : n = Len(s) /\ n = Len(u) /\ IsFiniteSet(1 .. n)
  <2>1. Len(s) \in Nat
    OBVIOUS
  <2>2. QED
    BY <2>1, FS_Interval DEF OneDiffers
<1>2. PICK f : f = [i \in 1 .. n |-> s[i].power]
  OBVIOUS
<1>3. PICK g : g = [i \in 1 .. n |-> u[i].power]
  OBVIOUS
<1>4. \A i \in 1 .. n : f[i] \in Int /\ g[i] \in Int
  <2>1. /\ \A i \in 1 .. Len(s) : s[i].power \in Nat
        /\ \A i \in 1 .. Len(u) : u[i].power \in Nat
    BY CardSumIs
  <2>2. QED
    BY <1>1, <1>2, <1>3, <2>1
<1>5. t \in 1 .. n /\ f[t] = s[t].power /\ g[t] = u[t].power
  BY <1>1, <1>2, <1>3
<1>6. \A i \in (1 .. n) \ {t} : f[i] = g[i]
  BY <1>1, <1>2, <1>3 DEF OneDiffers
<1>7. SumFunctionOnSet(g, 1 .. n) = SumFunctionOnSet(f, 1 .. n) + g[t] - f[t]
  BY <1>1, <1>4, <1>5, <1>6, SumChange
<1>8. CardSum(s) = SumFunctionOnSet(f, 1 .. n)
  BY <1>1, <1>2, Zenon DEF CardSum
<1>9. CardSum(u) = SumFunctionOnSet(g, 1 .. n)
  BY <1>1, <1>3, Zenon DEF CardSum
<1>10. QED
  BY <1>5, <1>7, <1>8, <1>9, Zenon

\* Nor does it differ when no power does.
LEMMA CardSumSame ==
  ASSUME NEW s \in Seq(CardType), NEW u \in Seq(CardType), Len(u) = Len(s),
         \A i \in 1 .. Len(s) : u[i].power = s[i].power
  PROVE  CardSum(u) = CardSum(s)
<1>1. [t \in 1 .. Len(u) |-> u[t].power] = [t \in 1 .. Len(s) |-> s[t].power]
  OBVIOUS
<1>2. QED
  BY <1>1, Zenon DEF CardSum

\* What is granted is on the cards.
LEMMA GrantsAddUp ==
  ASSUME CardsTyped, partyTotal \in Nat,
         NEW c \in Contributors, NEW t \in Nat, NEW power \in Nat,
         NEW d \in Contributors \cup {None}, Fits(power), Grant(c, t, power, d)
  PROVE  /\ CardsTyped' /\ partyMinted' = partyMinted + power
         /\ CardSum(cards) \in Nat /\ CardSum(cards') = CardSum(cards) + power
<1>1. /\ CardsTyped' /\ partyMinted' = partyMinted + power
      /\ OneMore(power) \/ Increased(t, power)
  BY GrantIs
<1>2. cards \in Seq(CardType) /\ cards' \in Seq(CardType)
  BY <1>1 DEF CardsTyped
<1>3. CASE OneMore(power)
  <2>1. CardSum(cards') = CardSum(cards) + power
    BY <1>2, <1>3, CardSumMore
  <2>2. QED
    BY <1>1, <1>2, <2>1, CardSumIs
<1>4. CASE Increased(t, power)
  <2>1. t \in 1 .. Len(cards) /\ OneDiffers(cards, cards', t)
        /\ cards'[t].power = cards[t].power + power
    BY <1>4 DEF Increased, OneDiffers
  <2>2. CardSum(cards') = CardSum(cards) + cards'[t].power - cards[t].power
    BY <1>2, <2>1, CardSumDiffers
  <2>3. PICK x \in Nat, y \in Nat : x = CardSum(cards) /\ y = cards[t].power
    BY <1>2, <2>1, CardSumIs
  <2>4. x + (y + power) - y = x + power
    OBVIOUS
  <2>5. QED
    BY <1>1, <2>1, <2>2, <2>3, <2>4
<1>5. QED
  BY <1>1, <1>2, <1>3, <1>4, CardSumIs

\* So are several new cards.
LEMMA MintsAddUp ==
  ASSUME CardsTyped, CardsTyped', NEW c, NEW powers \in Seq(Nat),
         cards' = cards \o NewCards(c, powers)
  PROVE  /\ CardSum(cards) \in Nat
         /\ CardSum(cards') = CardSum(cards) + FirstPowers(powers, Len(powers))
<1>1. PICK n \in Nat, k \in Nat : n = Len(cards) /\ k = Len(powers)
  BY DEF CardsTyped
<1>2. /\ Len(cards') = n + k
      /\ \A i \in 1 .. n : cards'[i] = cards[i]
      /\ \A i \in 1 .. k : cards'[n + i].power = powers[i]
  <2>1. PICK new : new = NewCards(c, powers)
    OBVIOUS
  <2>2. PICK S : S = CardType \cup {[owner |-> c, power |-> p] : p \in Nat}
    OBVIOUS
  <2>3. /\ cards \in Seq(S) /\ new \in Seq(S) /\ Len(new) = k
        /\ \A i \in 1 .. k : new[i].power = powers[i]
    <3>1. cards \in Seq(S)
      BY <2>2 DEF CardsTyped
    <3>2. new = [i \in 1 .. k |-> [owner |-> c, power |-> powers[i]]]
      BY <1>1, <2>1 DEF NewCards
    <3>3. \A i \in 1 .. k : [owner |-> c, power |-> powers[i]] \in S
      BY <1>1, <2>2
    <3>4. new \in Seq(S) /\ Len(new) = k
      BY <3>2, <3>3
    <3>5. QED
      BY <3>1, <3>2, <3>4
  <2>4. /\ Len(cards \o new) = n + k
        /\ \A i \in 1 .. n + k : (cards \o new)[i] = IF i <= n THEN cards[i] ELSE new[i - n]
    <3>1. /\ Len(cards \o new) = Len(cards) + Len(new)
          /\ \A i \in 1 .. Len(cards) + Len(new) :
               (cards \o new)[i] = IF i <= Len(cards) THEN cards[i] ELSE new[i - Len(cards)]
      BY <2>3, ConcatProperties
    <3>2. QED
      BY <1>1, <2>3, <3>1, Zenon
  <2>5. \A i \in 1 .. k : n + i \in 1 .. n + k /\ ~(n + i <= n) /\ (n + i) - n = i
    OBVIOUS
  <2>6. \A i \in 1 .. k : (cards \o new)[n + i] = new[i]
    BY <2>4, <2>5
  <2>7. \A i \in 1 .. n : i \in 1 .. n + k /\ i <= n
    OBVIOUS
  <2>8. \A i \in 1 .. n : (cards \o new)[i] = cards[i]
    BY <2>4, <2>7
  <2>9. QED
    BY <2>1, <2>3, <2>4, <2>6, <2>8
<1>3. PICK g : g = [i \in 1 .. n + k |-> cards'[i].power]
  OBVIOUS
<1>4. \A i \in 1 .. n + k : g[i] = cards'[i].power /\ g[i] \in Int
  BY <1>2, <1>3, CardSumIs DEF CardsTyped
<1>5. SumFunctionOnSet(g, 1 .. n) = CardSum(cards)
  <2>1. PICK f : f = [i \in 1 .. n |-> cards[i].power]
    OBVIOUS
  <2>2. CardSum(cards) = SumFunctionOnSet(f, 1 .. n)
    BY <1>1, <2>1, Zenon DEF CardSum
  <2>3. \A i \in 1 .. n : i \in 1 .. n + k
    OBVIOUS
  <2>4. \A i \in 1 .. n : g[i] = f[i]
    BY <1>2, <1>3, <2>1, <2>3
  <2>5. IsFiniteSet(1 .. n)
    BY FS_Interval
  <2>6. QED
    BY <2>2, <2>4, <2>5, SumSame
<1>6. PICK s \in Nat : s = CardSum(cards)
  BY CardSumIs DEF CardsTyped
<1>7. \A j \in 0 .. k : FirstPowers(powers, j) \in Nat
  BY <1>1, FirstPowersAre
<1>8. PICK N : N = {j \in 0 .. k : SumFunctionOnSet(g, 1 .. n + j) # s + FirstPowers(powers, j)}
  OBVIOUS
<1>9. N = {}
  <2>1. SUFFICES ASSUME N # {} PROVE FALSE
    OBVIOUS
  <2>2. N \subseteq Nat
    BY <1>8
  <2>3. PICK j \in N : \A i \in N : j <= i
    BY <2>1, <2>2, LeastNatural
  <2>4. j \in 0 .. k /\ SumFunctionOnSet(g, 1 .. n + j) # s + FirstPowers(powers, j)
    BY <1>8
  <2>5. CASE j = 0
    <3>1. n + 0 = n /\ s + 0 = s /\ FirstPowers(powers, 0) = 0
      BY FirstPowersAre
    <3>2. QED
      BY <1>5, <1>6, <2>4, <2>5, <3>1
  <2>6. CASE j # 0
    <3>1. PICK i \in Nat : i = j - 1 /\ i + 1 = j /\ i \in 0 .. k /\ i \notin N /\ j \in 1 .. k
      BY <2>3, <2>4, <2>6
    <3>2. SumFunctionOnSet(g, 1 .. n + i) = s + FirstPowers(powers, i)
      BY <1>8, <3>1
    <3>3. PICK m \in Nat : m = n + i /\ m + 1 = n + j
      BY <3>1
    <3>4. \A x \in 1 .. m + 1 : x \in 1 .. n + k
      BY <3>1, <3>3
    <3>5. m + 1 \in 1 .. m + 1 /\ \A x \in 1 .. m : x \in 1 .. m + 1
      OBVIOUS
    <3>6. Continues(g, g, m)
      BY <1>4, <3>4, <3>5 DEF Continues
    <3>7. SumFunctionOnSet(g, 1 .. m + 1) = SumFunctionOnSet(g, 1 .. m) + g[m + 1]
      BY <3>6, SumContinued
    <3>8. g[m + 1] = powers[j]
      BY <1>2, <1>4, <3>1, <3>3, <3>4, <3>5
    <3>9. FirstPowers(powers, j) = FirstPowers(powers, i) + powers[j]
      BY <1>1, <3>1, FirstPowersAre
    <3>10. FirstPowers(powers, i) \in Nat /\ powers[j] \in Nat
      BY <1>1, <1>7, <3>1
    <3>11. SumFunctionOnSet(g, 1 .. n + j) = (s + FirstPowers(powers, i)) + powers[j]
      BY <3>2, <3>3, <3>7, <3>8
    <3>12. QED
      BY <2>4, <3>9, <3>10, <3>11
  <2>7. QED
    BY <2>5, <2>6
<1>10. SumFunctionOnSet(g, 1 .. n + k) = s + FirstPowers(powers, k)
  <2>1. k \in 0 .. k
    OBVIOUS
  <2>2. QED
    BY <1>8, <1>9, <2>1
<1>11. CardSum(cards') = SumFunctionOnSet(g, 1 .. n + k)
  BY <1>2, <1>3, Zenon DEF CardSum
<1>12. QED
  BY <1>1, <1>6, <1>10, <1>11

\* A burned card.
LEMMA BurnIs ==
  ASSUME CardsTyped, CardSum(cards) <= partyMinted, NEW t \in Cards, cards[t].owner # None,
         BurnCard(t)
  PROVE  /\ CardsTyped'
         /\ CardSum(cards) \in Nat /\ CardSum(cards') = CardSum(cards) - cards[t].power
         /\ cards[t].power \in Nat /\ cards[t].power <= partyMinted
         /\ partyMinted' = partyMinted - cards[t].power
<1>1. /\ partyMinted' = partyMinted - cards[t].power
      /\ cards' = [cards EXCEPT ![t] = [owner |-> None, power |-> 0]]
      /\ partyDelegate' = Joined(cards[t].owner, cards[t].owner)
  BY DEF BurnCard
<1>2. cards \in Seq(CardType) /\ t \in 1 .. Len(cards)
  BY DEF CardsTyped, Cards
<1>3. cards[t] \in CardType /\ [owner |-> None, power |-> 0] \in CardType
  <2>1. cards[t] \in CardType
    BY <1>2
  <2>2. [owner |-> None, power |-> 0] \in CardType
    BY DEF CardType
  <2>3. QED
    BY <2>1, <2>2
<1>4. PICK p \in Nat, m \in Nat, k \in Nat :
        p = cards[t].power /\ m = partyMinted /\ k = CardSum(cards) /\ p <= k /\ k <= m
  BY <1>2, CardSumIs DEF CardsTyped
<1>5. /\ Len(cards') = Len(cards)
      /\ cards' \in Seq(CardType)
      /\ \A i \in 1 .. Len(cards) :
           cards'[i] = IF i = t THEN [owner |-> None, power |-> 0] ELSE cards[i]
  BY <1>1, <1>2, <1>3, ExceptSeq
<1>6. OneDiffers(cards, cards', t) /\ cards'[t].power = 0
  BY <1>2, <1>5 DEF OneDiffers
<1>7. CardSum(cards') = CardSum(cards) + cards'[t].power - cards[t].power
  BY <1>2, <1>5, <1>6, CardSumDiffers
<1>8. partyMinted' = m - p /\ CardSum(cards') = k - p /\ p <= m /\ partyMinted' \in Nat
  BY <1>1, <1>4, <1>6, <1>7
<1>9. partyDelegate' \in Delegates
  BY <1>1, <1>3, JoinedType DEF CardsTyped, CardType
<1>10. QED
  BY <1>1, <1>4, <1>5, <1>8, <1>9 DEF CardsTyped

----------------------------------------------------------------------------
(* What power costs                                                        *)

\* Whether amount is enough for power at the rate, the split included or not.
PaidFor(power, amount) == power * Bps <= amount * ExchangeRateBps

\* Whether amount is enough for the refunds of power.
Backed(power, amount) == (Bps * Bps) * power <= amount * (NetBps * ExchangeRateBps)

\* Purchases add up, and power that is gone is still paid for.
LEMMA PaidForMore ==
  ASSUME NEW p \in Nat, NEW q \in Nat, NEW a \in Nat, NEW b \in Nat, PaidFor(p, a)
  PROVE  /\ PaidFor(q, b) => PaidFor(p + q, a + b)
         /\ q <= p => PaidFor(q, a)
<1>1. PICK x \in Nat : x = ExchangeRateBps
  BY Constants
<1>2. PICK n \in Nat, m \in Nat, k \in Nat, l \in Nat :
        n = p * Bps /\ m = q * Bps /\ k = a * x /\ l = b * x
  BY DEF Bps
<1>3. (p + q) * Bps = n + m /\ (a + b) * x = k + l
  BY <1>2 DEF Bps
<1>4. n <= k
  BY <1>1, <1>2, Zenon DEF PaidFor
<1>5. ASSUME PaidFor(q, b) PROVE PaidFor(p + q, a + b)
  <2>1. m <= l
    BY <1>1, <1>2, <1>5, Zenon DEF PaidFor
  <2>2. n + m <= k + l
    BY <1>4, <2>1
  <2>3. QED
    BY <1>1, <1>3, <2>2, Zenon DEF PaidFor
<1>6. ASSUME q <= p PROVE PaidFor(q, a)
  <2>1. m <= n
    BY <1>2, <1>6 DEF Bps
  <2>2. m <= k
    BY <1>4, <2>1
  <2>3. QED
    BY <1>1, <1>2, <2>2, Zenon DEF PaidFor
<1>7. QED
  BY <1>5, <1>6

\* What a refund needs of a unit of ETH.
LEMMA RefundRate == NetBps * ExchangeRateBps \in Nat /\ NetBps * ExchangeRateBps > 0
<1>1. PICK x \in Nat : x = ExchangeRateBps /\ x > 0
  BY Constants
<1>2. PICK g \in Nat : g = NetBps /\ g > 0
  BY Constants DEF NetBps, Bps
<1>3. g * x \in Nat /\ g * x > 0
  BY <1>1, <1>2
<1>4. QED
  BY <1>1, <1>2, <1>3

\* So do the refunds of it.
LEMMA BackedMore ==
  ASSUME NEW p \in Nat, NEW q \in Nat, NEW a \in Nat, NEW b \in Nat, Backed(p, a)
  PROVE  /\ Backed(q, b) => Backed(p + q, a + b)
         /\ q <= p /\ a <= b => Backed(q, b)
<1>1. PICK x \in Nat : x = NetBps * ExchangeRateBps
  BY RefundRate
<1>2. PICK n \in Nat, m \in Nat, k \in Nat, l \in Nat :
        n = (Bps * Bps) * p /\ m = (Bps * Bps) * q /\ k = a * x /\ l = b * x
  <2>1. (Bps * Bps) * p \in Nat /\ (Bps * Bps) * q \in Nat
    BY DEF Bps
  <2>2. a * x \in Nat /\ b * x \in Nat
    OBVIOUS
  <2>3. QED
    BY <2>1, <2>2
<1>3. (Bps * Bps) * (p + q) = n + m /\ (a + b) * x = k + l
  BY <1>2 DEF Bps
<1>4. n <= k
  BY <1>1, <1>2, Zenon DEF Backed
<1>5. ASSUME Backed(q, b) PROVE Backed(p + q, a + b)
  <2>1. m <= l
    BY <1>1, <1>2, <1>5, Zenon DEF Backed
  <2>2. n + m <= k + l
    BY <1>4, <2>1
  <2>3. QED
    BY <1>1, <1>3, <2>2, Zenon DEF Backed
<1>6. ASSUME q <= p, a <= b PROVE Backed(q, b)
  <2>1. m <= n
    BY <1>2, <1>6 DEF Bps
  <2>2. k <= l
    BY <1>2, <1>6, Times
  <2>3. m <= l
    BY <1>4, <2>1, <2>2
  <2>4. QED
    BY <1>1, <1>2, <2>3, Zenon DEF Backed
<1>7. QED
  BY <1>5, <1>6

\* The refunds of q take no more than their part of what backs p.
LEMMA BackedLess ==
  ASSUME NEW p \in Nat, NEW q \in Nat, q <= p, NEW a \in Nat, NEW b \in Nat, b <= a,
         Backed(p, a), b = RefundFor(q)
  PROVE  Backed(p - q, a - b)
<1>1. PICK x \in Nat : x = NetBps * ExchangeRateBps
  BY RefundRate
<1>2. PICK n \in Nat, m \in Nat, k \in Nat, l \in Nat :
        n = (Bps * Bps) * p /\ m = (Bps * Bps) * q /\ k = a * x /\ l = b * x
  <2>1. (Bps * Bps) * p \in Nat /\ (Bps * Bps) * q \in Nat
    BY DEF Bps
  <2>2. a * x \in Nat /\ b * x \in Nat
    OBVIOUS
  <2>3. QED
    BY <2>1, <2>2
<1>3. (Bps * Bps) * (p - q) = n - m
  BY <1>2 DEF Bps
<1>4. (a - b) * x = k - l
  BY <1>2
<1>5. n <= k
  BY <1>1, <1>2, Zenon DEF Backed
<1>6. l <= m
  <2>1. x * RefundFor(q) <= (Bps * Bps) * q
    BY <1>1, RefundIs
  <2>2. x * b = l
    BY <1>2
  <2>3. QED
    BY <1>2, <2>1, <2>2
<1>7. n - m <= k - l
  BY <1>5, <1>6
<1>8. QED
  BY <1>1, <1>3, <1>4, <1>7, Zenon DEF Backed

\* Power that is backed is worth less than what backs it.
LEMMA BackedRefunds ==
  ASSUME NEW p \in Nat, NEW a \in Nat, NEW r \in Nat, Backed(p, a),
         (NetBps * ExchangeRateBps) * r <= (Bps * Bps) * p
  PROVE  r <= a
<1>1. PICK x \in Nat : x = NetBps * ExchangeRateBps /\ x > 0
  BY RefundRate
<1>2. x * r <= a * x
  <2>1. PICK n \in Nat, k \in Nat, l \in Nat : n = (Bps * Bps) * p /\ k = a * x /\ l = x * r
    BY DEF Bps
  <2>2. l <= n /\ n <= k
    BY <1>1, <2>1, Zenon DEF Backed
  <2>3. QED
    BY <2>1, <2>2
<1>3. ASSUME a < r PROVE FALSE
  <2>1. a * x < r * x
    BY <1>1, <1>3, Times
  <2>2. r * x = x * r /\ a * x \in Nat /\ x * r \in Nat
    OBVIOUS
  <2>3. QED
    BY <1>2, <2>1, <2>2
<1>4. QED
  BY <1>3

\* Whether every amount that may be sent or counted is even.
Even == \A a \in Amounts \cup {MaxTotalContributions} : EvenFor(a)

\* An even contribution backs the power it buys.
LEMMA EvenIsBacked ==
  ASSUME NEW a \in Nat, EvenFor(a)
  PROVE  Backed(PowerFor(a), a)
<1>1. PICK x \in Nat, s \in Nat, f \in Nat, n \in Nat, p \in Nat, g \in Nat :
        /\ x = ExchangeRateBps /\ s = FundingSplitBps /\ f = FeeOf(a) /\ n = Net(a)
        /\ p = PowerFor(a) /\ g = NetBps
  <2>1. ExchangeRateBps \in Nat /\ FundingSplitBps \in Nat /\ NetBps \in Nat
    BY Constants DEF NetBps, Bps
  <2>2. FeeOf(a) \in Nat /\ Net(a) \in Nat /\ PowerFor(a) \in Nat
    BY NetIs, PowerIs
  <2>3. QED
    BY <2>1, <2>2
<1>2. f * Bps = a * s /\ n = a - f /\ g = Bps - s /\ f <= a /\ s < Bps
  BY <1>1, EvenIs, NetIs, Constants, Zenon DEF Net, NetBps
<1>3. n * Bps = a * g
  <2>1. n * Bps = a * Bps - f * Bps
    BY <1>2 DEF Bps
  <2>2. a * g = a * Bps - a * s
    BY <1>2 DEF Bps
  <2>3. QED
    BY <1>2, <2>1, <2>2
<1>4. p * Bps <= n * x
  BY <1>1, PowerIs
<1>5. (p * Bps) * Bps <= (n * x) * Bps
  <2>1. PICK k \in Nat, l \in Nat : k = p * Bps /\ l = n * x
    BY DEF Bps
  <2>2. k <= l
    BY <1>4, <2>1
  <2>3. k * Bps <= l * Bps
    BY <2>2 DEF Bps
  <2>4. QED
    BY <2>1, <2>3
<1>6. (p * Bps) * Bps = (Bps * Bps) * p
  BY DEF Bps
<1>7. (n * x) * Bps = (n * Bps) * x /\ (a * g) * x = a * (g * x)
  BY DEF Bps
<1>8. (Bps * Bps) * p <= a * (g * x)
  BY <1>3, <1>5, <1>6, <1>7
<1>9. QED
  BY <1>1, <1>8, Zenon DEF Backed

\* Even options keep the contributions even, the one that reaches the cap included.
LEMMA EvenContribution ==
  ASSUME LedgerInv, Even, EvenFor(totalContributions),
         NEW s, NEW c, NEW amount \in Amounts, NEW d, Contributed(s, c, amount, d)
  PROVE  /\ EvenFor(Counted(amount)) /\ EvenFor(totalContributions')
         /\ Net(totalContributions') = Net(totalContributions) + Net(Counted(amount))
<1>1. PICK t \in Nat, k \in Nat :
        /\ t = totalContributions /\ k = Counted(amount) /\ totalContributions' = t + k
        /\ ReachesCap(amount) => t + k = MaxTotalContributions
        /\ ~ReachesCap(amount) => k = amount
  BY LedgerOnContribution DEF LedgerInv, PaidInv
<1>2. EvenFor(t + k) \/ EvenFor(k)
  BY <1>1 DEF Even
<1>3. QED
  BY <1>1, <1>2, EvenSum

\* Whether the rate divides what every amount leaves after the split, too.
Exact == \A a \in Amounts \cup {MaxTotalContributions} : ExactFor(a)

\* Exact options keep the contributions exact.
LEMMA ExactContribution ==
  ASSUME LedgerInv, Exact, ExactFor(totalContributions),
         NEW s, NEW c, NEW amount \in Amounts, NEW d, Contributed(s, c, amount, d)
  PROVE  /\ ExactFor(totalContributions')
         /\ PowerFor(totalContributions')
              = PowerFor(totalContributions) + PowerFor(Counted(amount))
<1>1. PICK t \in Nat, k \in Nat :
        /\ t = totalContributions /\ k = Counted(amount) /\ totalContributions' = t + k
        /\ ReachesCap(amount) => t + k = MaxTotalContributions
        /\ ~ReachesCap(amount) => k = amount
  BY LedgerOnContribution DEF LedgerInv, PaidInv
<1>2. ExactFor(t + k) \/ ExactFor(k)
  BY <1>1 DEF Exact
<1>3. QED
  BY <1>1, <1>2, ExactSum

\* Nothing costs nothing.
LEMMA NothingCosts ==
  /\ EvenFor(0) /\ Net(0) = 0 /\ ExactFor(0) /\ PowerFor(0) = 0 /\ RefundFor(0) = 0
  /\ PaidFor(0, 0) /\ Backed(0, 0)
<1>1. PICK x \in Nat, s \in Nat, g \in Nat :
        x = ExchangeRateBps /\ s = FundingSplitBps /\ g = NetBps /\ x > 0 /\ g > 0
  BY Constants DEF NetBps, Bps
<1>2. /\ 0 * x = 0 /\ 0 * s = 0 /\ 0 * Bps = 0 /\ 0 * (g * x) = 0 /\ (Bps * Bps) * 0 = 0
      /\ 0 \div Bps = 0 /\ 0 % Bps = 0
  BY <1>1 DEF Bps
<1>3. 0 \div x = 0 /\ 0 \div g = 0
  BY <1>1
<1>4. EvenFor(0) /\ FeeOf(0) = 0
  BY <1>1, <1>2, Zenon DEF EvenFor, FeeOf
<1>5. Net(0) = 0
  BY <1>4 DEF Net
<1>6. ExactFor(0)
  BY <1>1, <1>2, <1>4, <1>5, Zenon DEF ExactFor
<1>7. PowerFor(0) = 0
  BY <1>1, <1>2, <1>5, Zenon DEF PowerFor, Net
<1>8. RefundFor(0) = 0
  BY <1>1, <1>2, <1>3, Zenon DEF RefundFor, NetBps
<1>9. 0 <= 0
  OBVIOUS
<1>10. PaidFor(0, 0) /\ Backed(0, 0)
  BY <1>1, <1>2, <1>9, Zenon DEF PaidFor, Backed
<1>11. QED
  BY <1>4, <1>5, <1>6, <1>7, <1>8, <1>10

----------------------------------------------------------------------------
(* What the crowdfund keeps of its contributors                            *)

\* The delegate on record after a contribution is one.
LEMMA DelegationType ==
  ASSUME delegationsByContributor \in Delegates, NEW s, NEW c, NEW d \in Contributors,
         delegationsByContributor'
           = [delegationsByContributor EXCEPT ![c] = DelegateAfter(s, c, d)]
  PROVE  delegationsByContributor' \in Delegates
BY DEF Delegates, DelegateAfter

\* A credit stays as long as it waits, as the crowdfund stays closed.
LEMMA CreditKept ==
  ASSUME CreditTyped, credit' = credit, delegationsByContributor' \in Delegates,
         expiry' = expiry \/ expiry' = 0
  PROVE  CreditTyped'
BY DEF CreditTyped, NoCredit

\* No credit is one.
LEMMA CreditGone ==
  ASSUME delegationsByContributor' \in Delegates, credit' = NoCredit
  PROVE  CreditTyped' /\ credit'.power = 0
BY DEF CreditTyped, NoCredit

\* At the start there is none, and the only member has all power.
LEMMA TypesAtStart ==
  ASSUME BaseInit
  PROVE  CardsTyped /\ CreditTyped /\ credit = NoCredit /\ credit.power = 0
<1>1. delegationsByContributor \in Delegates /\ credit = NoCredit
  BY DEF BaseInit, Delegates
<1>2. CreditTyped /\ credit.power = 0
  BY <1>1 DEF CreditTyped, NoCredit
<1>3. cards \in Seq(CardType)
  <2>1. CASE StartHolder = None
    BY <2>1 DEF BaseInit
  <2>2. CASE StartHolder # None
    <3>1. [owner |-> StartHolder, power |-> StartMinted] \in CardType
      BY Constants DEF CardType
    <3>2. QED
      BY <2>2, <3>1 DEF BaseInit
  <2>3. QED
    BY <2>1, <2>2
<1>4. partyDelegate \in Delegates
  BY DEF BaseInit, Delegates
<1>5. partyMinted \in Nat
  BY Constants DEF BaseInit
<1>6. QED
  BY <1>1, <1>2, <1>3, <1>4, <1>5 DEF CardsTyped

\* The invariants give every variable its type: what the contributors have got back beyond
\* what they paid is never more than nothing.
LEMMA BaseTypes == LedgerInv /\ CardsTyped /\ CreditTyped => BaseTypeOK
<1> SUFFICES ASSUME LedgerInv, CardsTyped, CreditTyped PROVE BaseTypeOK
  OBVIOUS
<1>1. PICK w \in Nat, x \in Nat, y \in Nat, z \in Int :
        /\ w = eth.crowdfund /\ x = eth.party /\ y = eth.recipient /\ z = eth.contributors
        /\ w + (x + (y + z)) = 0
  BY DEF LedgerInv, Balances
<1>2. -z \in Nat
  BY <1>1
<1>3. /\ DOMAIN eth = {"crowdfund", "party", "recipient", "contributors"}
      /\ {eth.crowdfund, eth.party, eth.recipient, -eth.contributors} \subseteq Nat
  BY <1>1, <1>2 DEF LedgerInv, Balances
<1>4. /\ now \in 1 .. MaxTime /\ expiry \in {0, 1 + Duration}
      /\ totalContributions \in 0 .. MaxTotalContributions
  BY Constants DEF LedgerInv, PaidInv
<1>5. partyTotal \in Nat
  BY TotalIs
<1>6. /\ delegationsByContributor \in [Contributors -> Contributors \cup {None}]
      /\ {credit.contributor, credit.delegate} \subseteq Contributors \cup {None}
      /\ credit.power \in Nat /\ credit.card \in Nat
  BY DEF CreditTyped, Delegates
<1>7. /\ partyMinted \in Nat
      /\ cards \in Seq([owner : Contributors \cup {None}, power : Nat])
      /\ partyDelegate \in [Contributors -> Contributors \cup {None}]
  BY DEF CardsTyped, CardType, Delegates
<1>8. QED
  BY <1>3, <1>4, <1>5, <1>6, <1>7 DEF BaseTypeOK
=============================================================================
