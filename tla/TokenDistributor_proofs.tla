------------------------ MODULE TokenDistributor_proofs -----------------------
(***************************************************************************)
(* Proofs about TokenDistributor, for any parties, cards, shares, amounts  *)
(* and fees, and transfers nested to any depth.                            *)
(*                                                                         *)
(* That what the distributor owes is covered by what it holds rests on the *)
(* balance it stores: that is never less than what is owed and what the    *)
(* transfers under way have set aside, each of which takes as much from    *)
(* the largest integer as it will take from the stored balance.            *)
(***************************************************************************)
EXTENDS TokenDistributor, SequenceTheorems, SumTheorems

TransferValues == [amount : Nat, stored : 0 .. MaxUint, moved : BOOLEAN]

\* The assumptions on the constants, one by one.
LEMMA Constants ==
  /\ MaxUint \in Nat /\ MaxBalance \in Nat /\ Scale \in Nat /\ Scale > 0
  /\ IsFiniteSet(Parties) /\ IsFiniteSet(Cards)
  /\ Honest \subseteq Parties /\ Share \in [Cards -> Nat] /\ MaxBalance < MaxUint
<1>1. MaxUint \in Nat /\ MaxBalance \in Nat /\ Scale \in Nat /\ Scale > 0
  BY DistributorAssumption
<1>2. IsFiniteSet(Parties) /\ IsFiniteSet(Cards)
  BY DistributorAssumption
<1>3. Honest \subseteq Parties /\ Share \in [Cards -> Nat] /\ MaxBalance < MaxUint
  BY DistributorAssumption
<1>4. QED
  BY <1>1, <1>2, <1>3

----------------------------------------------------------------------------
(* What distributions owe                                                  *)

\* A distribution owes an amount that is not below zero.
LEMMA OwedType ==
  ASSUME NEW dist \in DistributionValues
  PROVE  Owed(dist) \in Nat
BY DEF Owed, DistributionValues

\* So do the distributions of a party.
LEMMA OwedByType ==
  ASSUME NEW ds \in Seq(DistributionValues)
  PROVE  OwedBy(ds) \in Nat
<1> DEFINE f == [d \in DOMAIN ds |-> Owed(ds[d])]
<1>1. IsFiniteSet(DOMAIN ds)
  <2>1. DOMAIN ds = 1 .. Len(ds) /\ Len(ds) \in Nat
    OBVIOUS
  <2>2. QED
    BY <2>1, FS_Interval
<1>2. \A d \in DOMAIN ds : f[d] \in Nat
  BY OwedType
<1>3. SumFunctionOnSet(f, DOMAIN ds) \in Nat
  <2> HIDE DEF f
  <2>1. \A d \in DOMAIN ds : f[d] \in Int /\ f[d] >= 0
    BY <1>2
  <2>2. QED
    BY <1>1, <2>1, SumType
<1>4. QED
  BY <1>3 DEF OwedBy

\* And those of all parties.
LEMMA TotalOwedType ==
  ASSUME NEW all \in [Parties -> Seq(DistributionValues)]
  PROVE  TotalOwed(all) \in Nat
<1> DEFINE f == [p \in Parties |-> OwedBy(all[p])]
<1>1. \A p \in Parties : f[p] \in Nat
  BY OwedByType
<1>2. SumFunctionOnSet(f, Parties) \in Nat
  <2> HIDE DEF f
  <2>1. \A p \in Parties : f[p] \in Int /\ f[p] >= 0
    BY <1>1
  <2>2. QED
    BY <2>1, SumType, Constants
<1>3. QED
  BY <1>2 DEF TotalOwed

\* A new distribution is owed on top.
LEMMA OwedOnTop ==
  ASSUME NEW ds \in Seq(DistributionValues), NEW dist \in DistributionValues
  PROVE  OwedBy(Append(ds, dist)) = OwedBy(ds) + Owed(dist)
<1> DEFINE n == Len(ds)
           es == Append(ds, dist)
           f == [d \in DOMAIN ds |-> Owed(ds[d])]
           g == [d \in DOMAIN es |-> Owed(es[d])]
<1>1. n \in Nat /\ DOMAIN ds = 1 .. n /\ DOMAIN es = 1 .. n + 1
  OBVIOUS
<1>2. es[n + 1] = dist /\ \A d \in 1 .. n : es[d] = ds[d] /\ ds[d] \in DistributionValues
  OBVIOUS
<1>3. g[n + 1] = Owed(dist) /\ g[n + 1] \in Int
  BY <1>1, <1>2, OwedType
<1>4. \A d \in 1 .. n : f[d] \in Int /\ g[d] = f[d]
  BY <1>1, <1>2, OwedType
<1>5. OwedBy(ds) = SumFunctionOnSet(f, 1 .. n) /\ OwedBy(es) = SumFunctionOnSet(g, 1 .. n + 1)
  BY <1>1, Zenon DEF OwedBy
<1> HIDE DEF n, f, g, es
<1>6. Continues(f, g, n)
  BY <1>1, <1>3, <1>4 DEF Continues
<1>7. SumFunctionOnSet(g, 1 .. n + 1) = SumFunctionOnSet(f, 1 .. n) + g[n + 1]
  BY <1>6, SumContinued
<1>8. QED
  BY <1>3, <1>5, <1>7, Zenon DEF es

\* A distribution that changes changes what its party owes by as much.
LEMMA OwedInstead ==
  ASSUME NEW ds \in Seq(DistributionValues), NEW d \in DOMAIN ds,
         NEW dist \in DistributionValues
  PROVE  OwedBy([ds EXCEPT ![d] = dist]) = OwedBy(ds) + Owed(dist) - Owed(ds[d])
<1> DEFINE es == [ds EXCEPT ![d] = dist]
           D == DOMAIN ds
           f == [e \in D |-> Owed(ds[e])]
           g == [e \in D |-> Owed(es[e])]
<1>1. IsFiniteSet(D) /\ DOMAIN es = D
  <2>1. DOMAIN ds = 1 .. Len(ds) /\ Len(ds) \in Nat
    OBVIOUS
  <2>2. QED
    BY <2>1, FS_Interval
<1>2. es[d] = dist /\ \A e \in D : ds[e] \in DistributionValues /\ (e # d => es[e] = ds[e])
  OBVIOUS
<1>3. f[d] = Owed(ds[d]) /\ g[d] = Owed(dist)
  BY <1>2
<1>4. /\ \A e \in D : f[e] \in Int /\ g[e] \in Int
      /\ \A e \in D \ {d} : f[e] = g[e]
  <2>1. \A e \in D : ds[e] \in DistributionValues /\ es[e] \in DistributionValues
    BY <1>2
  <2>2. QED
    BY <1>2, <2>1, OwedType
<1>5. OwedBy(ds) = SumFunctionOnSet(f, D) /\ OwedBy(es) = SumFunctionOnSet(g, D)
  BY <1>1, Zenon DEF OwedBy
<1> HIDE DEF f, g, D
<1>6. d \in D
  BY DEF D
<1>7. SumFunctionOnSet(g, D) = SumFunctionOnSet(f, D) + g[d] - f[d]
  BY <1>1, <1>4, <1>6, SumChange
<1>8. QED
  BY <1>3, <1>5, <1>7, Zenon

\* Distributions of one party that change change the total by as much.
LEMMA TotalChange ==
  ASSUME NEW all \in [Parties -> Seq(DistributionValues)], NEW p \in Parties,
         NEW ds \in Seq(DistributionValues)
  PROVE  TotalOwed([all EXCEPT ![p] = ds]) = TotalOwed(all) + OwedBy(ds) - OwedBy(all[p])
<1> DEFINE new == [all EXCEPT ![p] = ds]
           f == [q \in Parties |-> OwedBy(all[q])]
           g == [q \in Parties |-> OwedBy(new[q])]
<1>1. new[p] = ds /\ \A q \in Parties \ {p} : new[q] = all[q]
  OBVIOUS
<1>2. f[p] = OwedBy(all[p]) /\ g[p] = OwedBy(ds) /\ \A q \in Parties \ {p} : f[q] = g[q]
  BY <1>1
<1>3. \A q \in Parties : f[q] \in Int /\ g[q] \in Int
  <2>1. \A q \in Parties : all[q] \in Seq(DistributionValues) /\ new[q] \in Seq(DistributionValues)
    BY <1>1
  <2>2. QED
    BY <2>1, OwedByType
<1>4. TotalOwed(all) = SumFunctionOnSet(f, Parties)
      /\ TotalOwed(new) = SumFunctionOnSet(g, Parties)
  BY Zenon DEF TotalOwed
<1> HIDE DEF f, g
<1>5. SumFunctionOnSet(g, Parties) = SumFunctionOnSet(f, Parties) + g[p] - f[p]
  BY <1>2, <1>3, SumChange, Constants
<1>6. QED
  BY <1>2, <1>4, <1>5, Zenon

----------------------------------------------------------------------------
(* What transfers hold                                                     *)

\* What the transfers ts have set aside: what each will take from the stored
\* balance, which is the largest integer while its tokens move.
SetAside(ts) == SumFunctionOnSet([i \in DOMAIN ts |-> MaxUint - ts[i].stored], DOMAIN ts)

\* What a transfer has yet to move.
Unmoved(t) == IF t.moved THEN 0 ELSE t.amount

\* Both are amounts.
LEMMA TransferTerms ==
  ASSUME NEW t \in TransferValues
  PROVE  Unmoved(t) \in Nat /\ MaxUint - t.stored \in Nat
<1>1. t.amount \in Nat /\ t.stored \in 0 .. MaxUint /\ t.moved \in BOOLEAN
  BY DEF TransferValues
<1>2. QED
  BY <1>1, Constants DEF Unmoved

\* No transfer takes more than there was.
Affordable(ts) == \A i \in DOMAIN ts : ts[i].amount + ts[i].stored <= MaxUint

\* Both sums are of numbers, not below zero, and of one term for a transfer.
LEMMA TransferSums ==
  ASSUME NEW ts \in Seq(TransferValues)
  PROVE  /\ DOMAIN ts = 1 .. Len(ts) /\ Len(ts) \in Nat /\ IsFiniteSet(1 .. Len(ts))
         /\ InTransit(ts) = SumFunctionOnSet([i \in 1 .. Len(ts) |-> Unmoved(ts[i])], 1 .. Len(ts))
         /\ SetAside(ts) = SumFunctionOnSet([i \in 1 .. Len(ts) |-> MaxUint - ts[i].stored],
                                            1 .. Len(ts))
         /\ InTransit(ts) \in Nat
         /\ SetAside(ts) \in Nat
<1> DEFINE n == Len(ts)
           f == [i \in 1 .. n |-> Unmoved(ts[i])]
           g == [i \in 1 .. n |-> MaxUint - ts[i].stored]
<1>1. DOMAIN ts = 1 .. n /\ n \in Nat
  OBVIOUS
<1>2. IsFiniteSet(1 .. n)
  BY <1>1, FS_Interval
<1>3. InTransit(ts) = SumFunctionOnSet(f, 1 .. n) /\ SetAside(ts) = SumFunctionOnSet(g, 1 .. n)
  BY <1>1, Zenon DEF InTransit, SetAside, Unmoved
<1>4. \A i \in 1 .. n : ts[i] \in TransferValues
  OBVIOUS
<1>5. \A i \in 1 .. n : f[i] \in Nat /\ g[i] \in Nat
  BY <1>4, TransferTerms
<1>6. SumFunctionOnSet(f, 1 .. n) \in Nat /\ SumFunctionOnSet(g, 1 .. n) \in Nat
  <2> HIDE DEF f, g
  <2>1. \A i \in 1 .. n : f[i] \in Int /\ f[i] >= 0 /\ g[i] \in Int /\ g[i] >= 0
    BY <1>5
  <2>2. QED
    BY <1>2, <2>1, SumType
<1>7. InTransit(ts) \in Nat /\ SetAside(ts) \in Nat
  BY <1>3, <1>6, Zenon
<1>8. QED
  BY <1>1, <1>2, <1>3, <1>7, Zenon

\* What is in transit has been set aside.
LEMMA TransitSetAside ==
  ASSUME NEW ts \in Seq(TransferValues), Affordable(ts)
  PROVE  InTransit(ts) <= SetAside(ts)
<1> DEFINE n == Len(ts)
           f == [i \in 1 .. n |-> Unmoved(ts[i])]
           g == [i \in 1 .. n |-> MaxUint - ts[i].stored]
<1>1. \A i \in 1 .. n : ts[i] \in TransferValues /\ ts[i].amount + ts[i].stored <= MaxUint
  BY DEF Affordable
<1>2. \A i \in 1 .. n : f[i] \in Int /\ g[i] \in Int /\ f[i] <= g[i]
  <2>1. ASSUME NEW i \in 1 .. n
        PROVE  f[i] \in Int /\ g[i] \in Int /\ f[i] <= g[i]
    <3>1. ts[i].amount \in Nat /\ ts[i].stored \in 0 .. MaxUint
      BY <1>1 DEF TransferValues
    <3>2. Unmoved(ts[i]) \in Nat /\ Unmoved(ts[i]) <= ts[i].amount
      BY <3>1 DEF Unmoved
    <3>3. MaxUint \in Nat /\ ts[i].amount + ts[i].stored <= MaxUint
      BY <1>1, Constants
    <3>4. Unmoved(ts[i]) <= MaxUint - ts[i].stored
      BY <3>1, <3>2, <3>3
    <3>5. QED
      BY <3>1, <3>2, <3>3, <3>4
  <2>2. QED
    BY <2>1
<1>3. IsFiniteSet(1 .. n) /\ InTransit(ts) = SumFunctionOnSet(f, 1 .. n)
      /\ SetAside(ts) = SumFunctionOnSet(g, 1 .. n)
  BY TransferSums, Zenon
<1>4. SumFunctionOnSet(f, 1 .. n) <= SumFunctionOnSet(g, 1 .. n)
  <2> HIDE DEF f, g
  <2>1. QED
    BY <1>2, <1>3, SumMonotone
<1>5. QED
  BY <1>3, <1>4, Zenon

\* A transfer that starts adds its terms.
LEMMA TransferStarts ==
  ASSUME NEW ts \in Seq(TransferValues), NEW t \in TransferValues
  PROVE  /\ InTransit(Append(ts, t)) = InTransit(ts) + Unmoved(t)
         /\ SetAside(Append(ts, t)) = SetAside(ts) + (MaxUint - t.stored)
         /\ Affordable(ts) /\ t.amount + t.stored <= MaxUint => Affordable(Append(ts, t))
<1> DEFINE n == Len(ts)
           us == Append(ts, t)
           f == [i \in 1 .. n |-> Unmoved(ts[i])]
           g == [i \in 1 .. n |-> MaxUint - ts[i].stored]
           f1 == [i \in 1 .. n + 1 |-> Unmoved(us[i])]
           g1 == [i \in 1 .. n + 1 |-> MaxUint - us[i].stored]
<1>1. n \in Nat /\ Len(us) = n + 1 /\ us \in Seq(TransferValues)
  OBVIOUS
<1>2. us[n + 1] = t /\ \A i \in 1 .. n : us[i] = ts[i] /\ ts[i] \in TransferValues
  OBVIOUS
<1>3. f1[n + 1] = Unmoved(t) /\ g1[n + 1] = MaxUint - t.stored
  BY <1>1, <1>2
<1>4. \A i \in 1 .. n : f1[i] = f[i] /\ g1[i] = g[i]
  BY <1>1, <1>2
<1>5. \A i \in 1 .. n + 1 : us[i] \in TransferValues
  BY <1>1, <1>2
<1>6. \A i \in 1 .. n + 1 : f1[i] \in Int /\ g1[i] \in Int
  BY <1>5, TransferTerms
<1>7. InTransit(ts) = SumFunctionOnSet(f, 1 .. n) /\ SetAside(ts) = SumFunctionOnSet(g, 1 .. n)
  BY TransferSums, Zenon
<1>8. /\ InTransit(us) = SumFunctionOnSet(f1, 1 .. n + 1)
      /\ SetAside(us) = SumFunctionOnSet(g1, 1 .. n + 1)
  <2>1. PICK k : k = Len(us)
    OBVIOUS
  <2>2. /\ InTransit(us) = SumFunctionOnSet([i \in 1 .. k |-> Unmoved(us[i])], 1 .. k)
        /\ SetAside(us) = SumFunctionOnSet([i \in 1 .. k |-> MaxUint - us[i].stored], 1 .. k)
    BY <1>1, <2>1, TransferSums, Zenon
  <2>3. k = n + 1
    BY <1>1, <2>1
  <2>4. QED
    BY <2>2, <2>3, Zenon
<1>9. /\ SumFunctionOnSet(f1, 1 .. n + 1) = SumFunctionOnSet(f, 1 .. n) + f1[n + 1]
      /\ SumFunctionOnSet(g1, 1 .. n + 1) = SumFunctionOnSet(g, 1 .. n) + g1[n + 1]
  <2> HIDE DEF f, g, f1, g1, n
  <2>1. Continues(f, f1, n) /\ Continues(g, g1, n)
    BY <1>1, <1>4, <1>6 DEF Continues
  <2>2. QED
    BY <2>1, SumContinued
<1>10. /\ InTransit(us) = InTransit(ts) + Unmoved(t)
       /\ SetAside(us) = SetAside(ts) + (MaxUint - t.stored)
  BY <1>3, <1>7, <1>8, <1>9, Zenon
<1>11. Affordable(ts) /\ t.amount + t.stored <= MaxUint => Affordable(us)
  BY <1>1, <1>2 DEF Affordable
<1>12. QED
  BY <1>10, <1>11, Zenon

\* The innermost transfer, on top of the others.
LEMMA LastTransfer ==
  ASSUME NEW ts \in Seq(TransferValues), ts # <<>>
  PROVE  /\ Len(ts) \in 1 .. Len(ts)
         /\ Last(ts) = ts[Len(ts)] /\ Last(ts) \in TransferValues
         /\ Front(ts) \in Seq(TransferValues)
         /\ ts = Append(Front(ts), Last(ts))
         /\ Affordable(ts) => Affordable(Front(ts)) /\ Last(ts).amount + Last(ts).stored <= MaxUint
<1>1. Len(ts) \in Nat /\ Len(ts) # 0
  BY EmptySeq
<1>2. Len(ts) \in 1 .. Len(ts) /\ Last(ts) = ts[Len(ts)] /\ Last(ts) \in TransferValues
  BY <1>1 DEF Last
<1>3. /\ Front(ts) \in Seq(TransferValues) /\ Len(Front(ts)) = Len(ts) - 1
      /\ \A i \in 1 .. Len(ts) - 1 : Front(ts)[i] = ts[i]
  <2>1. \A i \in 1 .. Len(ts) - 1 : ts[i] \in TransferValues
    BY <1>1
  <2>2. PICK k \in Nat : k = Len(ts) - 1
    BY <1>1
  <2>3. /\ SubSeq(ts, 1, k) \in Seq(TransferValues)
        /\ Len(SubSeq(ts, 1, k)) = IF 1 <= k THEN k - 1 + 1 ELSE 0
        /\ \A i \in 1 .. k - 1 + 1 : SubSeq(ts, 1, k)[i] = ts[1 + i - 1]
    BY <2>1, <2>2, SubSeqProperties
  <2>4. /\ Len(SubSeq(ts, 1, k)) = k
        /\ \A i \in 1 .. k : SubSeq(ts, 1, k)[i] = ts[i]
    BY <2>2, <2>3
  <2>5. Front(ts) = SubSeq(ts, 1, k)
    BY <2>2 DEF Front
  <2>6. QED
    BY <2>2, <2>3, <2>4, <2>5
<1>4. ts = Append(Front(ts), Last(ts))
  BY <1>1, <1>2, <1>3
<1>5. Affordable(ts) => Affordable(Front(ts)) /\ Last(ts).amount + Last(ts).stored <= MaxUint
  BY <1>1, <1>2, <1>3 DEF Affordable
<1>6. QED
  BY <1>2, <1>3, <1>4, <1>5, Zenon

----------------------------------------------------------------------------
(* Amounts                                                                 *)

\* A quotient rounded down, in terms of products.
LEMMA Rounding ==
  ASSUME NEW a \in Nat, NEW b \in Nat, b > 0
  PROVE  /\ a \div b \in Nat
         /\ (a \div b) * b <= a
         /\ a < (a \div b) * b + b
<1>1. PICK q \in Int : q = a \div b
  OBVIOUS
<1>2. q * b <= a /\ a < (q + 1) * b
  BY <1>1
<1>3. q >= 0
  <2>1. CASE q < 0
    <3>1. (q + 1) * b <= 0
      BY <2>1
    <3>2. QED
      BY <1>2, <3>1
  <2>2. QED
    BY <2>1
<1>4. (q + 1) * b = q * b + b
  OBVIOUS
<1>5. QED
  BY <1>1, <1>2, <1>3, <1>4

\* A new distribution owes what it was created with.
LEMMA NewOwed ==
  ASSUME NEW supply \in Nat, NEW bps \in FeeBps
  PROVE  LET new == NewDistribution(supply, bps)
         IN  /\ new \in DistributionValues
             /\ Owed(new) = supply
             /\ new.remainingMemberSupply = new.memberSupply
             /\ new.claimed = {}
             /\ new.paid = [c \in Cards |-> 0]
<1>1. bps \in 0 .. 10000
  BY DistributorAssumption
<1>2. PICK fee : fee = FeeOf(supply, bps)
  OBVIOUS
<1>3. fee \in Nat /\ fee <= supply
  <2>1. supply * bps \in Nat /\ supply * bps <= supply * 10000
    BY <1>1
  <2>2. /\ (supply * bps) \div 10000 \in Nat
        /\ ((supply * bps) \div 10000) * 10000 <= supply * bps
    BY <2>1, Rounding
  <2>3. QED
    BY <1>2, <2>1, <2>2 DEF FeeOf
<1>4. MemberSupply(supply, bps) = supply - fee /\ supply - fee \in Nat
  BY <1>2, <1>3 DEF MemberSupply
<1>5. NewDistribution(supply, bps)
        = [memberSupply |-> supply - fee, fee |-> fee, remainingMemberSupply |-> supply - fee,
           wasFeeClaimed |-> FALSE, claimed |-> {}, paid |-> [c \in Cards |-> 0]]
  BY <1>2, <1>4, Zenon DEF NewDistribution
<1>6. QED
  BY <1>3, <1>4, <1>5 DEF DistributionValues, Owed

\* What a card gets is its share rounded up, or what remains if that is less.
LEMMA CappedShare ==
  ASSUME NEW dist \in DistributionValues, NEW share \in Nat
  PROVE  LET amount == Capped(dist, ClaimAmount(dist, share))
             exact == share * dist.memberSupply
         IN  /\ amount \in 0 .. dist.remainingMemberSupply
             /\ amount * Scale < exact + Scale
             /\ amount = dist.remainingMemberSupply \/ amount * Scale >= exact
<1>1. PICK exact \in Nat : exact = share * dist.memberSupply
  BY DEF DistributionValues
<1>2. PICK up : up = ClaimAmount(dist, share)
  OBVIOUS
<1>3. up \in Nat /\ up * Scale < exact + Scale /\ up * Scale >= exact
  <2>1. PICK a \in Nat : a = exact + Scale - 1
    BY <1>1, Constants
  <2>2. up = a \div Scale
    BY <1>1, <1>2, <2>1 DEF ClaimAmount, BaseOf
  <2>3. up \in Nat /\ up * Scale <= a /\ a < up * Scale + Scale
    BY <2>2, Rounding, Constants
  <2>4. up * Scale \in Nat
    BY <2>3, Constants
  <2>5. QED
    BY <2>1, <2>3, <2>4, Constants
<1>4. PICK remains \in Nat : remains = dist.remainingMemberSupply
  BY DEF DistributionValues
<1>5. PICK amount : amount = Capped(dist, up)
  OBVIOUS
<1>6. amount \in {up, remains} /\ amount <= up /\ amount <= remains
  <2>1. Min({up, remains}) \in {up, remains}
        /\ \A y \in {up, remains} : Min({up, remains}) <= y
    BY <1>3, <1>4 DEF Min
  <2>2. QED
    BY <1>4, <1>5, <2>1 DEF Capped
<1>7. amount \in 0 .. remains
  BY <1>3, <1>4, <1>6
<1>8. amount * Scale <= up * Scale
  BY <1>3, <1>6, <1>7, Constants
<1>9. amount * Scale < exact + Scale /\ (amount = remains \/ amount * Scale >= exact)
  <2>1. amount * Scale \in Nat /\ up * Scale \in Nat
    BY <1>3, <1>7, Constants
  <2>2. QED
    BY <1>1, <1>3, <1>6, <1>8, <2>1, Constants
<1>10. QED
  BY <1>1, <1>2, <1>4, <1>5, <1>7, <1>9, Zenon

\* What new has of dist after card c claimed amount.
Takes(new, dist, c, amount) ==
  /\ new \in DistributionValues
  /\ Owed(new) = Owed(dist) - amount
  /\ new.memberSupply = dist.memberSupply
  /\ new.remainingMemberSupply = dist.remainingMemberSupply - amount
  /\ new.claimed = dist.claimed \cup {c}
  /\ new.paid = [dist.paid EXCEPT ![c] = @ + amount]

\* A distribution that has paid a card keeps its type and owes less.
LEMMA ClaimedType ==
  ASSUME NEW dist \in DistributionValues, NEW c \in Cards,
         NEW amount \in 0 .. dist.remainingMemberSupply
  PROVE  Takes(Claimed(dist, c, amount), dist, c, amount)
<1>1. PICK rest : rest = dist.remainingMemberSupply - amount
  OBVIOUS
<1>2. PICK paid : paid = [dist.paid EXCEPT ![c] = @ + amount]
  OBVIOUS
<1>3. PICK claimed : claimed = dist.claimed \cup {c}
  OBVIOUS
<1>4. dist.remainingMemberSupply \in Nat /\ rest \in Nat
  BY <1>1 DEF DistributionValues
<1>5. amount \in Nat /\ paid \in [Cards -> Nat] /\ claimed \in SUBSET Cards
  BY <1>2, <1>3 DEF DistributionValues
<1>6. PICK new : new = Claimed(dist, c, amount)
  OBVIOUS
<1>7. new = [dist EXCEPT !.claimed = claimed, !.remainingMemberSupply = rest, !.paid = paid]
  BY <1>1, <1>2, <1>3, <1>6 DEF Claimed, Marked, DistributionValues
<1>8. /\ new \in DistributionValues
      /\ new.claimed = claimed /\ new.remainingMemberSupply = rest /\ new.paid = paid
      /\ new.memberSupply = dist.memberSupply
      /\ new.fee = dist.fee /\ new.wasFeeClaimed = dist.wasFeeClaimed
  BY <1>4, <1>5, <1>7 DEF DistributionValues
<1>9. Owed(new) = Owed(dist) - amount
  BY <1>1, <1>4, <1>5, <1>8 DEF Owed, DistributionValues
<1>10. Takes(new, dist, c, amount)
  BY <1>1, <1>2, <1>3, <1>8, <1>9, Zenon DEF Takes
<1>11. QED
  BY <1>6, <1>10, Zenon

\* Of what is left as fee the same holds.
LEMMA FeeClaimedType ==
  ASSUME NEW dist \in DistributionValues, ~dist.wasFeeClaimed
  PROVE  LET new == [dist EXCEPT !.wasFeeClaimed = TRUE]
         IN  /\ new \in DistributionValues
             /\ Owed(new) = Owed(dist) - dist.fee
             /\ new.memberSupply = dist.memberSupply
             /\ new.remainingMemberSupply = dist.remainingMemberSupply
             /\ new.claimed = dist.claimed
             /\ new.paid = dist.paid
<1>1. PICK new : new = [dist EXCEPT !.wasFeeClaimed = TRUE]
  OBVIOUS
<1>2. /\ new \in DistributionValues
      /\ new.memberSupply = dist.memberSupply /\ new.fee = dist.fee
      /\ new.remainingMemberSupply = dist.remainingMemberSupply
      /\ new.claimed = dist.claimed /\ new.paid = dist.paid /\ new.wasFeeClaimed = TRUE
  BY <1>1 DEF DistributionValues
<1>3. Owed(new) = Owed(dist) - dist.fee
  BY <1>2 DEF Owed, DistributionValues
<1>4. QED
  BY <1>1, <1>2, <1>3, Zenon

----------------------------------------------------------------------------
(* Payments                                                                *)

\* Distribution d of party p becomes new, and pays amount by a transfer.
Pays(p, d, new, amount, moved) ==
  /\ p \in Parties /\ d \in DOMAIN distributions[p]
  /\ new \in DistributionValues
  /\ new.remainingMemberSupply <= new.memberSupply
  /\ amount \in Nat
  /\ Owed(new) = Owed(distributions[p][d]) - amount
  /\ moved \in BOOLEAN
  /\ distributions' = [distributions EXCEPT ![p][d] = new]
  /\ StartTransfer(amount, moved)

\* The distributions of a party are a sequence of distributions.
LEMMA DistributionType ==
  ASSUME TypeOK, NEW p \in Parties
  PROVE  /\ distributions[p] \in Seq(DistributionValues)
         /\ \A d \in DOMAIN distributions[p] :
              /\ distributions[p][d] \in DistributionValues
              /\ distributions[p][d].remainingMemberSupply <= distributions[p][d].memberSupply
<1>1. distributions[p] \in Seq(DistributionValues)
  BY DEF TypeOK
<1>2. QED
  BY <1>1 DEF TypeOK

\* Claims pay.
LEMMA ClaimPays ==
  ASSUME TypeOK, NEW p \in Parties, NEW d \in DOMAIN distributions[p], NEW c \in Cards,
         NEW share \in SharesOf(p, c), NEW moved \in BOOLEAN, Claim(p, d, c, share, moved)
  PROVE  LET dist == distributions[p][d]
             amount == Capped(dist, ClaimAmount(dist, share))
         IN  /\ c \notin dist.claimed
             /\ amount \in 0 .. dist.remainingMemberSupply
             /\ Pays(p, d, Claimed(dist, c, amount), amount, moved)
<1>1. PICK dist : dist = distributions[p][d]
  OBVIOUS
<1>2. dist \in DistributionValues /\ dist.remainingMemberSupply <= dist.memberSupply
  BY <1>1, DistributionType
<1>3. share \in Nat
  <2>1. AnyShares \subseteq Nat
    BY DistributorAssumption, SMTT(30)
  <2>2. QED
    BY <2>1, Constants DEF SharesOf
<1>4. PICK amount : amount = Capped(dist, ClaimAmount(dist, share))
  OBVIOUS
<1>5. amount \in 0 .. dist.remainingMemberSupply
  BY <1>2, <1>3, <1>4, CappedShare
<1>6. PICK new : new = Claimed(dist, c, amount)
  OBVIOUS
<1>7. /\ new \in DistributionValues
      /\ Owed(new) = Owed(dist) - amount
      /\ new.memberSupply = dist.memberSupply
      /\ new.remainingMemberSupply = dist.remainingMemberSupply - amount
  BY <1>2, <1>5, <1>6, ClaimedType DEF Takes
<1>8. new.remainingMemberSupply <= new.memberSupply /\ amount \in Nat
  BY <1>2, <1>5, <1>7 DEF DistributionValues
<1>9. /\ c \notin dist.claimed
      /\ distributions' = [distributions EXCEPT ![p][d] = new]
      /\ StartTransfer(amount, moved)
  BY <1>1, <1>4, <1>6, Zenon DEF Claim
<1>10. Pays(p, d, new, amount, moved)
  BY <1>1, <1>7, <1>8, <1>9, Zenon DEF Pays
<1>11. QED
  BY <1>1, <1>4, <1>5, <1>6, <1>9, <1>10, Zenon

\* So do claims of fees.
LEMMA ClaimFeePays ==
  ASSUME TypeOK, NEW p \in Parties, NEW d \in DOMAIN distributions[p], NEW moved \in BOOLEAN,
         ClaimFee(p, d, moved)
  PROVE  Pays(p, d, [distributions[p][d] EXCEPT !.wasFeeClaimed = TRUE],
              distributions[p][d].fee, moved)
<1>1. PICK dist : dist = distributions[p][d]
  OBVIOUS
<1>2. dist \in DistributionValues /\ dist.remainingMemberSupply <= dist.memberSupply
  BY <1>1, DistributionType
<1>3. PICK new : new = [dist EXCEPT !.wasFeeClaimed = TRUE]
  OBVIOUS
<1>4. /\ ~dist.wasFeeClaimed
      /\ distributions' = [distributions EXCEPT ![p][d].wasFeeClaimed = TRUE]
      /\ StartTransfer(dist.fee, moved)
  BY <1>1 DEF ClaimFee
<1>5. /\ new \in DistributionValues
      /\ Owed(new) = Owed(dist) - dist.fee
      /\ new.remainingMemberSupply <= new.memberSupply
  BY <1>2, <1>3, <1>4, FeeClaimedType
<1>6. dist.fee \in Nat
  BY <1>2 DEF DistributionValues
<1>7. distributions' = [distributions EXCEPT ![p][d] = new]
  BY <1>1, <1>3, <1>4
<1>8. Pays(p, d, new, dist.fee, moved)
  BY <1>1, <1>4, <1>5, <1>6, <1>7, Zenon DEF Pays
<1>9. QED
  BY <1>1, <1>3, <1>8, Zenon

\* Distribution d of party p becomes new, and no other changes.
Replaced(p, d, new) ==
  /\ distributions' \in [Parties -> Seq(DistributionValues)]
  /\ DOMAIN distributions'[p] = DOMAIN distributions[p]
  /\ distributions'[p][d] = new
  /\ \A e \in DOMAIN distributions[p] : e # d => distributions'[p][e] = distributions[p][e]
  /\ \A q \in Parties : q # p => distributions'[q] = distributions[q]

\* What a payment changes.
LEMMA PaymentChanges ==
  ASSUME TypeOK, NEW p, NEW d, NEW new, NEW amount, NEW moved, Pays(p, d, new, amount, moved)
  PROVE  /\ Replaced(p, d, new)
         /\ TotalOwed(distributions') = TotalOwed(distributions) - amount
         /\ storedBalance - amount \in 0 .. MaxUint
         /\ LET t == [amount |-> amount, stored |-> storedBalance - amount, moved |-> moved]
            IN  t \in TransferValues /\ transfers' = Append(transfers, t)
         /\ storedBalance' = MaxUint
         /\ balance' = (IF moved THEN balance - amount ELSE balance)
         /\ balance' \in 0 .. MaxBalance
<1>1. PICK ds : ds = distributions[p]
  OBVIOUS
<1>2. PICK es : es = [ds EXCEPT ![d] = new]
  OBVIOUS
<1>3. /\ ds \in Seq(DistributionValues) /\ p \in Parties /\ d \in DOMAIN ds
      /\ new \in DistributionValues
  BY <1>1, DistributionType DEF Pays
<1>4. es \in Seq(DistributionValues) /\ DOMAIN es = DOMAIN ds
  BY <1>2, <1>3
<1>5. distributions' = [distributions EXCEPT ![p] = es]
  BY <1>1, <1>2 DEF Pays
<1>6. distributions \in [Parties -> Seq(DistributionValues)]
  BY DEF TypeOK
<1>7. /\ distributions' \in [Parties -> Seq(DistributionValues)]
      /\ distributions'[p] = es
      /\ \A q \in Parties : q # p => distributions'[q] = distributions[q]
  BY <1>3, <1>4, <1>5, <1>6
<1>8. es[d] = new /\ \A e \in DOMAIN ds : e # d => es[e] = ds[e]
  BY <1>2, <1>3
<1>9. TotalOwed(distributions') = TotalOwed(distributions) - amount
  <2>1. TotalOwed([distributions EXCEPT ![p] = es])
          = TotalOwed(distributions) + OwedBy(es) - OwedBy(distributions[p])
    BY <1>3, <1>4, <1>6, TotalChange
  <2>2. OwedBy([ds EXCEPT ![d] = new]) = OwedBy(ds) + Owed(new) - Owed(ds[d])
    BY <1>3, OwedInstead
  <2>3. PICK total, was, is \in Int, before, after \in Int :
          /\ total = TotalOwed(distributions)
          /\ was = OwedBy(ds) /\ is = OwedBy(es)
          /\ before = Owed(ds[d]) /\ after = Owed(new)
    <3>1. OwedBy(ds) \in Int /\ OwedBy(es) \in Int /\ TotalOwed(distributions) \in Int
      BY <1>3, <1>4, <1>6, OwedByType, TotalOwedType
    <3>2. Owed(ds[d]) \in Int /\ Owed(new) \in Int
      <4>1. ds[d] \in DistributionValues
        BY <1>3
      <4>2. QED
        BY <1>3, <4>1, OwedType
    <3>3. QED
      BY <3>1, <3>2
  <2>4. TotalOwed(distributions') = total + is - was
    BY <1>1, <1>5, <2>1, <2>3, Zenon
  <2>5. is = was + after - before
    BY <1>2, <2>2, <2>3, Zenon
  <2>6. after = before - amount /\ amount \in Nat
    BY <1>1, <2>3 DEF Pays
  <2>7. total \in Int /\ was \in Int
    BY <1>3, <1>6, <2>3, OwedByType, TotalOwedType
  <2>8. total + is - was = total - amount
    BY <2>3, <2>5, <2>6, <2>7
  <2>9. QED
    BY <2>3, <2>4, <2>8, Zenon
<1>10. amount \in Nat /\ moved \in BOOLEAN /\ StartTransfer(amount, moved)
  BY DEF Pays
<1>11. storedBalance \in 0 .. MaxUint /\ balance \in 0 .. MaxBalance
  BY DEF TypeOK
<1>12. /\ storedBalance - amount \in 0 .. MaxUint
       /\ storedBalance' = MaxUint
       /\ balance' = (IF moved THEN balance - amount ELSE balance)
       /\ balance' \in 0 .. MaxBalance
  BY <1>10, <1>11, Constants DEF StartTransfer, GuardBalance
<1>13. PICK t : t = [amount |-> amount, stored |-> storedBalance - amount, moved |-> moved]
  OBVIOUS
<1>14. t \in TransferValues /\ transfers' = Append(transfers, t)
  <2>1. transfers' = Append(transfers, t)
    BY <1>10, <1>13 DEF StartTransfer
  <2>2. QED
    BY <1>10, <1>12, <1>13, <2>1 DEF TransferValues
<1>15. Replaced(p, d, new)
  BY <1>1, <1>4, <1>7, <1>8, Zenon DEF Replaced
<1>16. QED
  BY <1>9, <1>12, <1>13, <1>14, <1>15, Zenon

----------------------------------------------------------------------------
(* Type correctness                                                        *)

\* Every variable keeps its type.
LEMMA NextType == TypeOK /\ [Next]_vars => TypeOK'
<1> SUFFICES ASSUME TypeOK, [Next]_vars PROVE TypeOK'
  OBVIOUS
<1>0. /\ balance \in 0 .. MaxBalance /\ storedBalance \in 0 .. MaxUint
      /\ distributions \in [Parties -> Seq(DistributionValues)]
      /\ transfers \in Seq(TransferValues)
  BY DEF TypeOK, TransferValues
<1>1. ASSUME NEW amount \in Amounts, Donate(amount)
      PROVE  TypeOK'
  <2>1. amount \in Nat
    BY <1>1, DistributorAssumption, SMTT(30)
  <2>2. balance' \in 0 .. MaxBalance
    BY <1>0, <1>1, <2>1, Constants DEF Donate
  <2>3. QED
    BY <1>1, <2>2 DEF Donate, TypeOK
<1>2. ASSUME NEW p \in Parties, NEW sent \in Amounts \cup {0}, NEW bps \in FeeBps,
             CreateDistribution(p, sent, bps)
      PROVE  TypeOK'
  <2>1. sent \in Nat
    BY <1>2, DistributorAssumption
  <2>2. PICK supply : supply = (balance + sent) - storedBalance
    OBVIOUS
  <2>3. supply \in Nat /\ balance + sent \in 0 .. MaxBalance
    BY <1>0, <1>2, <2>1, <2>2, Constants DEF CreateDistribution
  <2>4. PICK new : new = NewDistribution(supply, bps)
    OBVIOUS
  <2>5. new \in DistributionValues /\ new.remainingMemberSupply = new.memberSupply
    BY <2>3, <2>4, NewOwed
  <2>6. /\ distributions' = [distributions EXCEPT ![p] = Append(distributions[p], new)]
        /\ balance' = balance + sent /\ storedBalance' = balance + sent
        /\ UNCHANGED transfers
    <3>1. /\ distributions' = [distributions EXCEPT
               ![p] = Append(distributions[p],
                            NewDistribution((balance + sent) - storedBalance, bps))]
          /\ balance' = balance + sent /\ storedBalance' = balance + sent
          /\ UNCHANGED transfers
      BY <1>2 DEF CreateDistribution
    <3>2. QED
      BY <2>2, <2>4, <3>1, Zenon
  <2>7. distributions' \in [Parties -> Seq(DistributionValues)]
    BY <1>0, <2>5, <2>6
  <2>8. ASSUME NEW q \in Parties, NEW d \in DOMAIN distributions'[q]
        PROVE  distributions'[q][d].remainingMemberSupply <= distributions'[q][d].memberSupply
    <3>1. distributions[q] \in Seq(DistributionValues)
      BY <1>0
    <3>2. distributions'[q][d] = new \/ (d \in DOMAIN distributions[q]
                                           /\ distributions'[q][d] = distributions[q][d])
      <4>1. CASE q # p
        BY <1>0, <2>6, <2>8, <4>1
      <4>2. CASE q = p
        <5>1. distributions'[q] = Append(distributions[q], new)
          BY <1>0, <2>6, <4>2
        <5>2. QED
          BY <2>5, <2>8, <3>1, <5>1
      <4>3. QED
        BY <4>1, <4>2
    <3>3. new.memberSupply \in Nat
      BY <2>5 DEF DistributionValues
    <3>4. CASE distributions'[q][d] = new
      BY <2>5, <3>3, <3>4
    <3>5. CASE d \in DOMAIN distributions[q] /\ distributions'[q][d] = distributions[q][d]
      BY <3>5, DistributionType
    <3>6. QED
      BY <3>2, <3>4, <3>5
  <2>9. balance' \in 0 .. MaxBalance /\ storedBalance' \in 0 .. MaxUint
    BY <2>3, <2>6, Constants
  <2>10. QED
    BY <2>6, <2>7, <2>8, <2>9 DEF TypeOK
<1>3. ASSUME NEW p, NEW d, NEW new, NEW amount, NEW moved, Pays(p, d, new, amount, moved)
      PROVE  TypeOK'
  <2>1. PICK t : t = [amount |-> amount, stored |-> storedBalance - amount, moved |-> moved]
    OBVIOUS
  <2>2. /\ Replaced(p, d, new)
        /\ t \in TransferValues /\ transfers' = Append(transfers, t)
        /\ storedBalance' = MaxUint
        /\ balance' \in 0 .. MaxBalance
    BY <1>3, <2>1, PaymentChanges
  <2>3. new.remainingMemberSupply <= new.memberSupply
    BY <1>3 DEF Pays
  <2>4. ASSUME NEW q \in Parties, NEW e \in DOMAIN distributions'[q]
        PROVE  distributions'[q][e].remainingMemberSupply <= distributions'[q][e].memberSupply
    <3>1. distributions'[q][e] = new \/ (e \in DOMAIN distributions[q]
                                           /\ distributions'[q][e] = distributions[q][e])
      BY <2>2 DEF Replaced
    <3>2. QED
      BY <2>3, <3>1, DistributionType
  <2>5. transfers' \in Seq(TransferValues)
    BY <1>0, <2>2
  <2>6. storedBalance' \in 0 .. MaxUint
    BY <2>2, Constants
  <2>7. QED
    BY <2>2, <2>4, <2>5, <2>6 DEF TypeOK, TransferValues, Replaced
<1>4. CASE MoveTokens
  <2>1. PICK t : t = Last(transfers)
    OBVIOUS
  <2>2. /\ transfers # <<>> /\ balance >= t.amount
        /\ balance' = balance - t.amount
        /\ transfers' = [transfers EXCEPT ![Len(transfers)].moved = TRUE]
        /\ UNCHANGED <<storedBalance, distributions>>
    BY <1>4, <2>1 DEF MoveTokens
  <2>3. Len(transfers) \in DOMAIN transfers /\ t = transfers[Len(transfers)]
        /\ t \in TransferValues
    BY <1>0, <2>1, <2>2, LastTransfer
  <2>4. [t EXCEPT !.moved = TRUE] \in TransferValues /\ t.amount \in Nat
    BY <2>3 DEF TransferValues
  <2>5. transfers' = [transfers EXCEPT ![Len(transfers)] = [t EXCEPT !.moved = TRUE]]
    BY <2>2, <2>3
  <2>6. transfers' \in Seq(TransferValues)
    BY <1>0, <2>3, <2>4, <2>5
  <2>7. balance' \in 0 .. MaxBalance
    BY <1>0, <2>2, <2>4, Constants
  <2>8. QED
    BY <2>2, <2>6, <2>7 DEF TypeOK, TransferValues
<1>5. CASE FinishTransfer
  <2>1. /\ transfers # <<>> /\ storedBalance' = Last(transfers).stored
        /\ transfers' = Front(transfers) /\ UNCHANGED <<balance, distributions>>
    BY <1>5 DEF FinishTransfer
  <2>2. Last(transfers) \in TransferValues /\ Front(transfers) \in Seq(TransferValues)
    BY <1>0, <2>1, LastTransfer
  <2>3. storedBalance' \in 0 .. MaxUint
    BY <2>1, <2>2 DEF TransferValues
  <2>4. QED
    BY <2>1, <2>2, <2>3 DEF TypeOK, TransferValues
<1>6. CASE UNCHANGED vars
  BY <1>6 DEF vars, TypeOK
<1>7. QED
  BY <1>1, <1>2, <1>3, <1>4, <1>5, <1>6, ClaimPays, ClaimFeePays DEF Next

\* No balance, supply or payment of the distributor is ever below zero, and no more
\* remains of a supply than there was.
THEOREM TypeCorrect == Spec => []TypeOK
<1>1. Init => TypeOK
  <2> SUFFICES ASSUME Init PROVE TypeOK
    OBVIOUS
  <2>1. balance \in 0 .. MaxBalance /\ storedBalance \in 0 .. MaxUint
    BY Constants DEF Init
  <2>2. QED
    BY <2>1 DEF Init, TypeOK
<1>2. QED
  BY <1>1, NextType, PTL DEF Spec

----------------------------------------------------------------------------
(* What is owed is held                                                    *)

\* Covered is not inductive: whoever creates a distribution while a transfer runs
\* is told the supply by the stored balance.  That is never less than what is owed
\* and what the transfers under way have set aside.
Guarded == TotalOwed(distributions) + SetAside(transfers) <= storedBalance

CoverInv == Covered /\ Guarded /\ Affordable(transfers)

\* The sums in question are numbers.
LEMMA SumsAreNumbers ==
  ASSUME TypeOK
  PROVE  /\ TotalOwed(distributions) \in Nat
         /\ InTransit(transfers) \in Nat /\ SetAside(transfers) \in Nat
         /\ balance \in Nat /\ storedBalance \in Nat
<1>1. transfers \in Seq(TransferValues) /\ distributions \in [Parties -> Seq(DistributionValues)]
  BY DEF TypeOK, TransferValues
<1>2. balance \in Nat /\ storedBalance \in Nat
  BY DEF TypeOK
<1>3. QED
  BY <1>1, <1>2, TotalOwedType, TransferSums

\* The step of a payment.
LEMMA PaymentCovered ==
  ASSUME TypeOK, CoverInv, NEW p, NEW d, NEW new, NEW amount, NEW moved,
         Pays(p, d, new, amount, moved)
  PROVE  CoverInv'
<1>1. PICK t : t = [amount |-> amount, stored |-> storedBalance - amount, moved |-> moved]
  OBVIOUS
<1>2. /\ TotalOwed(distributions') = TotalOwed(distributions) - amount
      /\ storedBalance - amount \in 0 .. MaxUint
      /\ t \in TransferValues /\ transfers' = Append(transfers, t)
      /\ storedBalance' = MaxUint
      /\ balance' = (IF moved THEN balance - amount ELSE balance)
  BY <1>1, PaymentChanges
<1>3. transfers \in Seq(TransferValues)
  BY DEF TypeOK, TransferValues
<1>4. amount \in Nat /\ moved \in BOOLEAN
  BY DEF Pays
<1>5. t.amount = amount /\ t.stored = storedBalance - amount /\ t.moved = moved
  BY <1>1
<1>6. t.amount + t.stored <= MaxUint
  BY <1>4, <1>5, Constants DEF TypeOK
<1>7. /\ InTransit(transfers') = InTransit(transfers) + Unmoved(t)
      /\ SetAside(transfers') = SetAside(transfers) + (MaxUint - t.stored)
      /\ Affordable(transfers')
  BY <1>2, <1>3, <1>6, TransferStarts DEF CoverInv
<1>8. Unmoved(t) = IF moved THEN 0 ELSE amount
  BY <1>5 DEF Unmoved
<1>9. PICK owed, transit, aside \in Nat :
        /\ owed = TotalOwed(distributions) /\ transit = InTransit(transfers)
        /\ aside = SetAside(transfers)
  BY SumsAreNumbers
<1>10. owed + transit <= balance /\ owed + aside <= storedBalance
  BY <1>9 DEF CoverInv, Covered, Guarded
<1>11. balance \in Nat /\ storedBalance \in Nat /\ MaxUint \in Nat
  BY SumsAreNumbers, Constants
<1>12. owed - amount + (transit + Unmoved(t)) <= balance'
  <2>1. CASE moved
    <3>1. Unmoved(t) = 0 /\ balance' = balance - amount
      BY <1>2, <1>8, <2>1
    <3>2. QED
      BY <1>4, <1>10, <1>11, <3>1
  <2>2. CASE ~moved
    <3>1. Unmoved(t) = amount /\ balance' = balance
      BY <1>2, <1>8, <2>2
    <3>2. QED
      BY <1>4, <1>10, <1>11, <3>1
  <2>3. QED
    BY <2>1, <2>2
<1>13. owed - amount + (aside + (MaxUint - t.stored)) <= storedBalance'
  BY <1>2, <1>4, <1>5, <1>9, <1>10, <1>11, SMTT(30)
<1>14. Covered'
  BY <1>2, <1>7, <1>9, <1>12, Zenon DEF Covered
<1>15. Guarded'
  BY <1>2, <1>7, <1>9, <1>13, Zenon DEF Guarded
<1>16. QED
  BY <1>7, <1>14, <1>15 DEF CoverInv

\* A new distribution owes what the stored balance does not know.
LEMMA CreationCovered ==
  ASSUME TypeOK, CoverInv, NEW p \in Parties, NEW sent \in Amounts \cup {0}, NEW bps \in FeeBps,
         CreateDistribution(p, sent, bps)
  PROVE  CoverInv'
<1>1. sent \in Nat
  BY DistributorAssumption, SMTT(30)
<1>2. PICK supply : supply = (balance + sent) - storedBalance
  OBVIOUS
<1>3. PICK new : new = NewDistribution(supply, bps)
  OBVIOUS
<1>4. /\ distributions' = [distributions EXCEPT ![p] = Append(distributions[p], new)]
      /\ balance' = balance + sent /\ storedBalance' = balance + sent
      /\ UNCHANGED transfers /\ supply > 0
  <2>1. /\ distributions' = [distributions EXCEPT
             ![p] = Append(distributions[p], NewDistribution((balance + sent) - storedBalance, bps))]
        /\ balance' = balance + sent /\ storedBalance' = balance + sent
        /\ UNCHANGED transfers /\ (balance + sent) - storedBalance > 0
    BY DEF CreateDistribution
  <2>2. QED
    BY <1>2, <1>3, <2>1, Zenon
<1>5. balance \in Nat /\ storedBalance \in Nat
  BY SumsAreNumbers
<1>6. supply \in Nat
  BY <1>1, <1>2, <1>4, <1>5
<1>7. new \in DistributionValues /\ Owed(new) = supply
  BY <1>3, <1>6, NewOwed
<1>8. PICK ds \in Seq(DistributionValues) : ds = distributions[p]
  BY DistributionType
<1>9. distributions \in [Parties -> Seq(DistributionValues)] /\ transfers \in Seq(TransferValues)
  BY DEF TypeOK, TransferValues
<1>10. PICK es : es = Append(ds, new)
  OBVIOUS
<1>11. es \in Seq(DistributionValues) /\ OwedBy(es) = OwedBy(ds) + supply
  BY <1>7, <1>10, OwedOnTop
<1>12. TotalOwed([distributions EXCEPT ![p] = es])
         = TotalOwed(distributions) + OwedBy(es) - OwedBy(distributions[p])
  BY <1>9, <1>11, TotalChange
<1>13. PICK owed, transit, aside, was \in Nat :
         /\ owed = TotalOwed(distributions) /\ transit = InTransit(transfers)
         /\ aside = SetAside(transfers) /\ was = OwedBy(ds)
  BY SumsAreNumbers, OwedByType
<1>14. TotalOwed(distributions') = owed + (was + supply) - was
  BY <1>4, <1>8, <1>10, <1>11, <1>12, <1>13, Zenon
<1>15. TotalOwed(distributions') = owed + supply
  BY <1>6, <1>13, <1>14
<1>16. owed + aside <= storedBalance /\ transit <= aside
  BY <1>9, <1>13, TransitSetAside DEF CoverInv, Guarded
<1>17. owed + supply + transit <= balance' /\ owed + supply + aside <= storedBalance'
  BY <1>1, <1>2, <1>4, <1>5, <1>13, <1>16
<1>18. InTransit(transfers') = transit /\ SetAside(transfers') = aside /\ Affordable(transfers')
  BY <1>4, <1>13, Zenon DEF CoverInv
<1>19. Covered' /\ Guarded'
  BY <1>15, <1>17, <1>18, Zenon DEF Covered, Guarded
<1>20. QED
  BY <1>18, <1>19 DEF CoverInv

\* Tokens that move, and transfers that return, give up what they set aside.
LEMMA TransferCovered ==
  ASSUME TypeOK, CoverInv, MoveTokens \/ FinishTransfer
  PROVE  CoverInv'
<1>0. transfers # <<>> /\ transfers \in Seq(TransferValues) /\ UNCHANGED distributions
  BY DEF MoveTokens, FinishTransfer, TypeOK, TransferValues
<1>1. PICK t : t = Last(transfers)
  OBVIOUS
<1>2. PICK ts : ts = Front(transfers)
  OBVIOUS
<1>3. /\ Len(transfers) \in DOMAIN transfers
      /\ t = transfers[Len(transfers)] /\ t \in TransferValues /\ ts \in Seq(TransferValues)
      /\ transfers = Append(ts, t)
      /\ Affordable(ts) /\ t.amount + t.stored <= MaxUint
  BY <1>0, <1>1, <1>2, LastTransfer DEF CoverInv
<1>4. /\ InTransit(transfers) = InTransit(ts) + Unmoved(t)
      /\ SetAside(transfers) = SetAside(ts) + (MaxUint - t.stored)
  BY <1>3, TransferStarts, Zenon
<1>5. PICK owed, transit, aside \in Nat :
        /\ owed = TotalOwed(distributions) /\ transit = InTransit(ts) /\ aside = SetAside(ts)
  BY <1>3, SumsAreNumbers, TransferSums
<1>6. /\ owed + (transit + Unmoved(t)) <= balance
      /\ owed + (aside + (MaxUint - t.stored)) <= storedBalance
  BY <1>4, <1>5, Zenon DEF CoverInv, Covered, Guarded
<1>7. /\ t.amount \in Nat /\ t.stored \in 0 .. MaxUint
      /\ storedBalance \in 0 .. MaxUint /\ balance \in Nat
  BY <1>3, SumsAreNumbers DEF TransferValues, TypeOK
<1>8. TotalOwed(distributions') = owed
  BY <1>0, <1>5, Zenon
<1>9. CASE MoveTokens
  <2>1. PICK u : u = [t EXCEPT !.moved = TRUE]
    OBVIOUS
  <2>2. /\ u \in TransferValues /\ u.stored = t.stored /\ u.amount = t.amount /\ u.moved = TRUE
    BY <1>3, <2>1 DEF TransferValues
  <2>3. ~t.moved /\ balance' = balance - t.amount /\ UNCHANGED storedBalance
        /\ transfers' = [transfers EXCEPT ![Len(transfers)].moved = TRUE]
    BY <1>1, <1>9 DEF MoveTokens
  <2>4. transfers' = Append(ts, u)
    <3>1. transfers' = [transfers EXCEPT ![Len(transfers)] = u]
      BY <1>3, <2>1, <2>3
    <3>2. [Append(ts, t) EXCEPT ![Len(ts) + 1] = u] = Append(ts, u)
      <4>1. PICK a : a = Append(ts, t)
        OBVIOUS
      <4>2. PICK n \in Nat : n = Len(ts)
        BY <1>3
      <4>3. PICK b : b = [a EXCEPT ![n + 1] = u]
        OBVIOUS
      <4>4. a \in Seq(TransferValues) /\ Len(a) = n + 1 /\ \A i \in 1 .. n : a[i] = ts[i]
        BY <1>3, <4>1, <4>2
      <4>5. b \in Seq(TransferValues) /\ Len(b) = n + 1
            /\ b[n + 1] = u /\ \A i \in 1 .. n : b[i] = ts[i]
        BY <2>2, <4>3, <4>4
      <4>6. PICK e : e = Append(ts, u)
        OBVIOUS
      <4>7. e \in Seq(TransferValues) /\ Len(e) = n + 1
            /\ e[n + 1] = u /\ \A i \in 1 .. n : e[i] = ts[i]
        BY <1>3, <2>2, <4>2, <4>6
      <4>8. \A i \in 1 .. Len(b) : b[i] = e[i]
        BY <4>5, <4>7
      <4>9. b = e
        BY <4>5, <4>7, <4>8, SeqEqual
      <4>10. QED
        BY <4>1, <4>2, <4>3, <4>6, <4>9, Zenon
    <3>3. Len(transfers) = Len(ts) + 1
      BY <1>3
    <3>4. QED
      BY <1>3, <3>1, <3>2, <3>3, Zenon
  <2>5. /\ InTransit(Append(ts, u)) = InTransit(ts) + Unmoved(u)
        /\ SetAside(Append(ts, u)) = SetAside(ts) + (MaxUint - u.stored)
        /\ Affordable(Append(ts, u))
    <3>1. u.amount + u.stored <= MaxUint
      BY <1>3, <2>2
    <3>2. QED
      BY <1>3, <2>2, <3>1, TransferStarts
  <2>6. Unmoved(t) = t.amount /\ Unmoved(u) = 0
    BY <2>2, <2>3 DEF Unmoved
  <2>7. owed + (transit + Unmoved(u)) <= balance'
    BY <1>5, <1>6, <1>7, <2>3, <2>6
  <2>8. owed + (aside + (MaxUint - u.stored)) <= storedBalance'
    BY <1>6, <2>2, <2>3
  <2>9. Covered'
    BY <1>5, <1>8, <2>4, <2>5, <2>7, Zenon DEF Covered
  <2>10. Guarded'
    BY <1>5, <1>8, <2>4, <2>5, <2>8, Zenon DEF Guarded
  <2>11. QED
    BY <2>4, <2>5, <2>9, <2>10, Zenon DEF CoverInv
<1>10. CASE FinishTransfer
  <2>1. t.moved /\ storedBalance' = t.stored /\ transfers' = ts /\ balance' = balance
    BY <1>1, <1>2, <1>10 DEF FinishTransfer
  <2>2. Unmoved(t) = 0
    BY <2>1 DEF Unmoved
  <2>3. owed + transit <= balance' /\ owed + aside <= storedBalance'
    BY <1>5, <1>6, <1>7, <2>1, <2>2, Constants
  <2>4. Covered' /\ Guarded'
    BY <1>5, <1>8, <2>1, <2>3, Zenon DEF Covered, Guarded
  <2>5. QED
    BY <1>3, <2>1, <2>4, Zenon DEF CoverInv
<1>11. QED
  BY <1>9, <1>10

\* What all distributions still owe and what transfers have yet to move is never more
\* than the distributor holds, whoever creates and claims while a transfer is under
\* way: no party is paid with the deposit of another.
THEOREM DebtsAreCovered == Spec => []Covered
<1>1. Init => CoverInv
  <2> SUFFICES ASSUME Init PROVE CoverInv
    OBVIOUS
  <2>1. TotalOwed(distributions) = 0
    <3>1. OwedBy(<<>>) = 0
      <4>1. DOMAIN <<>> = {}
        OBVIOUS
      <4>2. OwedBy(<<>>) = SumFunctionOnSet([d \in DOMAIN <<>> |-> Owed(<<>>[d])], {})
        BY <4>1, Zenon DEF OwedBy
      <4>3. QED
        BY <4>2, SumEmpty
    <3>2. PICK f : f = [p \in Parties |-> OwedBy(distributions[p])]
      OBVIOUS
    <3>3. \A p \in Parties : f[p] = 0
      BY <3>1, <3>2 DEF Init
    <3>4. SumFunctionOnSet(f, Parties) = 0
      BY <3>3, SumOfZeros, Constants
    <3>5. QED
      BY <3>2, <3>4, Zenon DEF TotalOwed
  <2>2. transfers = <<>> /\ DOMAIN transfers = {}
    BY DEF Init
  <2>3. InTransit(transfers) = 0 /\ SetAside(transfers) = 0
    <3>1. /\ InTransit(transfers) = SumFunctionOnSet(
               [i \in DOMAIN transfers |-> IF transfers[i].moved THEN 0 ELSE transfers[i].amount],
               {})
          /\ SetAside(transfers) = SumFunctionOnSet(
               [i \in DOMAIN transfers |-> MaxUint - transfers[i].stored], {})
      BY <2>2, Zenon DEF InTransit, SetAside
    <3>2. QED
      BY <3>1, SumEmpty
  <2>4. Affordable(transfers)
    BY <2>2 DEF Affordable
  <2>5. balance = 0 /\ storedBalance = 0
    BY DEF Init
  <2>6. QED
    BY <2>1, <2>3, <2>4, <2>5 DEF CoverInv, Covered, Guarded
<1>2. TypeOK /\ CoverInv /\ [Next]_vars => CoverInv'
  <2> SUFFICES ASSUME TypeOK, CoverInv, [Next]_vars PROVE CoverInv'
    OBVIOUS
  <2>1. ASSUME NEW amount \in Amounts, Donate(amount)
        PROVE  CoverInv'
    <3>1. amount \in Nat
      BY <2>1, DistributorAssumption, SMTT(30)
    <3>2. balance' = balance + amount /\ UNCHANGED <<storedBalance, distributions, transfers>>
      BY <2>1 DEF Donate
    <3>3. Guarded' /\ Affordable(transfers')
      BY <3>2, Zenon DEF CoverInv, Guarded
    <3>4. TotalOwed(distributions) + InTransit(transfers) <= balance + amount
      BY <3>1, SumsAreNumbers DEF CoverInv, Covered
    <3>5. Covered'
      BY <3>2, <3>4, Zenon DEF Covered
    <3>6. QED
      BY <3>3, <3>5 DEF CoverInv
  <2>2. CASE UNCHANGED vars
    <3>1. UNCHANGED <<balance, storedBalance, distributions, transfers>>
      BY <2>2 DEF vars
    <3>2. QED
      BY <3>1, Zenon DEF CoverInv, Covered, Guarded
  <2>3. QED
    BY <2>1, <2>2, CreationCovered, PaymentCovered, TransferCovered, ClaimPays, ClaimFeePays
       DEF Next
<1>3. CoverInv => Covered
  BY DEF CoverInv
<1>4. QED
  BY <1>1, <1>2, <1>3, TypeCorrect, PTL DEF Spec

----------------------------------------------------------------------------
(* What cards are paid                                                     *)

\* The books of a distribution: what it paid is what is gone of the supply, and
\* only cards that have claimed were paid.
Booked(dist) ==
  /\ \A c \in Cards \ dist.claimed : dist.paid[c] = 0
  /\ SumFunctionOnSet(dist.paid, Cards) = dist.memberSupply - dist.remainingMemberSupply

\* PaidItsShare is not inductive: the last to claim gets what remains, which is its
\* share only if the others did not take more than theirs but for the rounding.
Fair(dist) ==
  /\ \A c \in Cards : dist.paid[c] * Scale < Share[c] * dist.memberSupply + Scale
  /\ \A c \in dist.claimed :
       dist.paid[c] * Scale
         >= Share[c] * dist.memberSupply - Scale * (Cardinality(dist.claimed) - 1)
  /\ Scale * (dist.memberSupply - dist.remainingMemberSupply)
       <= dist.memberSupply * SumFunctionOnSet(Share, dist.claimed)
            + Scale * Cardinality(dist.claimed)

ShareInv ==
  \A p \in Parties : \A d \in DOMAIN distributions[p] :
    Booked(distributions[p][d]) /\ (p \in Honest => Fair(distributions[p][d]))

\* A new distribution has paid nothing.
LEMMA NewIsFair ==
  ASSUME NEW supply \in Nat, NEW bps \in FeeBps
  PROVE  Booked(NewDistribution(supply, bps)) /\ Fair(NewDistribution(supply, bps))
<1>1. PICK new : new = NewDistribution(supply, bps)
  OBVIOUS
<1>2. /\ new \in DistributionValues
      /\ new.remainingMemberSupply = new.memberSupply
      /\ new.claimed = {}
      /\ new.paid = [c \in Cards |-> 0]
  BY <1>1, NewOwed
<1>3. PICK supplied \in Nat : supplied = new.memberSupply
  BY <1>2 DEF DistributionValues
<1>4. PICK paid : paid = new.paid
  OBVIOUS
<1>5. \A c \in Cards : paid[c] = 0
  BY <1>2, <1>4
<1>6. SumFunctionOnSet(paid, Cards) = 0
  BY <1>5, SumOfZeros, Constants
<1>7. Booked(new)
  <2>1. \A c \in Cards \ new.claimed : new.paid[c] = 0
    BY <1>4, <1>5
  <2>2. new.memberSupply - new.remainingMemberSupply = 0
    BY <1>2, <1>3
  <2>3. SumFunctionOnSet(new.paid, Cards) = 0
    BY <1>4, <1>6, Zenon
  <2>4. QED
    BY <2>1, <2>2, <2>3 DEF Booked
<1>8. SumFunctionOnSet(Share, {}) = 0 /\ Cardinality({}) = 0
  BY SumEmpty, FS_EmptySet
<1>9. PICK total \in Int, count \in Int :
        /\ total = SumFunctionOnSet(Share, new.claimed) /\ count = Cardinality(new.claimed)
        /\ total = 0 /\ count = 0
  BY <1>2, <1>8
<1>10. \A c \in Cards : new.paid[c] * Scale < Share[c] * new.memberSupply + Scale
  <2>1. ASSUME NEW c \in Cards
        PROVE  new.paid[c] * Scale < Share[c] * new.memberSupply + Scale
    <3>1. new.paid[c] = 0
      BY <1>4, <1>5
    <3>2. Share[c] * supplied \in Nat /\ Scale > 0 /\ Scale \in Nat
      BY <1>3, Constants
    <3>3. QED
      BY <1>3, <3>1, <3>2
  <2>2. QED
    BY <2>1
<1>11. Scale * (new.memberSupply - new.remainingMemberSupply)
         <= new.memberSupply * total + Scale * count
  BY <1>2, <1>3, <1>9, Constants
<1>12. Fair(new)
  BY <1>2, <1>9, <1>10, <1>11 DEF Fair
<1>13. QED
  BY <1>1, <1>7, <1>12, Zenon

\* A payment to a card that has not claimed is booked.
LEMMA ClaimIsBooked ==
  ASSUME NEW dist \in DistributionValues, Booked(dist), NEW c \in Cards, c \notin dist.claimed,
         NEW amount \in 0 .. dist.remainingMemberSupply
  PROVE  Booked(Claimed(dist, c, amount))
<1>1. PICK new : new = Claimed(dist, c, amount)
  OBVIOUS
<1>2. /\ new.memberSupply = dist.memberSupply
      /\ new.remainingMemberSupply = dist.remainingMemberSupply - amount
      /\ new.claimed = dist.claimed \cup {c}
      /\ new.paid = [dist.paid EXCEPT ![c] = @ + amount]
  <2>1. Takes(new, dist, c, amount)
    BY <1>1, ClaimedType, Zenon
  <2>2. QED
    BY <2>1, Zenon DEF Takes
<1>3. PICK paid \in [Cards -> Nat] : paid = dist.paid
  BY DEF DistributionValues
<1>4. PICK after : after = new.paid
  OBVIOUS
<1>5. amount \in Nat /\ dist.remainingMemberSupply \in Nat /\ dist.memberSupply \in Nat
  BY DEF DistributionValues
<1>6. /\ after[c] = paid[c] + amount
      /\ \A b \in Cards \ {c} : after[b] = paid[b]
  BY <1>2, <1>3, <1>4
<1>7. SumFunctionOnSet(after, Cards) = SumFunctionOnSet(paid, Cards) + after[c] - paid[c]
  <2>1. \A b \in Cards : paid[b] \in Int /\ after[b] \in Int
    BY <1>3, <1>5, <1>6
  <2>2. QED
    BY <1>6, <2>1, SumChange, Constants
<1>8. SumFunctionOnSet(paid, Cards) = dist.memberSupply - dist.remainingMemberSupply
  BY <1>3, Zenon DEF Booked
<1>9. SumFunctionOnSet(after, Cards) = new.memberSupply - new.remainingMemberSupply
  <2>1. paid[c] \in Nat
    BY <1>3
  <2>2. PICK sum : sum = SumFunctionOnSet(paid, Cards)
    OBVIOUS
  <2>3. SumFunctionOnSet(after, Cards) = sum + after[c] - paid[c]
    BY <1>7, <2>2, Zenon
  <2>4. sum + after[c] - paid[c] = new.memberSupply - new.remainingMemberSupply
    BY <1>2, <1>5, <1>6, <1>8, <2>1, <2>2
  <2>5. QED
    BY <2>3, <2>4
<1>10. \A b \in Cards \ new.claimed : new.paid[b] = 0
  BY <1>2, <1>3, <1>4, <1>6 DEF Booked
<1>11. QED
  BY <1>1, <1>4, <1>9, <1>10, Zenon DEF Booked

\* The arithmetic of a claim: of the supply ms the cards that claimed before, k of
\* them with the shares x, took no more than their shares but for the rounding.
LEMMA ClaimArithmetic ==
  ASSUME NEW ms \in Nat, NEW rest \in 0 .. ms, NEW k \in Nat, NEW x \in Nat, NEW s \in Nat,
         x + s <= Scale, Scale * (ms - rest) <= ms * x + Scale * k,
         NEW amount \in 0 .. rest, amount * Scale < s * ms + Scale,
         amount = rest \/ amount * Scale >= s * ms
  PROVE  /\ amount * Scale >= s * ms - Scale * k
         /\ Scale * (ms - (rest - amount)) <= ms * (x + s) + Scale * (k + 1)
<1>1. Scale \in Nat
  BY Constants
<1>2. Scale * (ms - rest) = Scale * ms - Scale * rest
  BY <1>1
<1>3. Scale * (ms - (rest - amount)) = Scale * (ms - rest) + amount * Scale
  BY <1>1
<1>4. ms * (x + s) = ms * x + s * ms
  OBVIOUS
<1>5. Scale * (k + 1) = Scale * k + Scale
  BY <1>1
<1>6. ms * (x + s) <= Scale * ms
  <2>1. PICK y \in Nat : y = Scale - (x + s)
    BY <1>1
  <2>2. Scale = (x + s) + y
    BY <1>1, <2>1
  <2>3. Scale * ms = ms * (x + s) + ms * y
    BY <2>2
  <2>4. ms * y \in Nat /\ ms * (x + s) \in Nat
    OBVIOUS
  <2>5. QED
    BY <2>3, <2>4
<1>7. PICK a, b, e, f, g, h \in Int :
        /\ a = amount * Scale /\ b = ms * x /\ e = s * ms /\ f = Scale * k
        /\ g = Scale * ms /\ h = Scale * rest
  BY <1>1
<1>8. g - h <= b + f /\ b + e <= g /\ a < e + Scale
  BY <1>2, <1>4, <1>6, <1>7
<1>9. f >= 0
  BY <1>1, <1>7
<1>10. a >= e - f
  <2>1. CASE amount = rest
    <3>1. a = h
      BY <1>1, <1>7, <2>1
    <3>2. QED
      BY <1>7, <1>8, <3>1
  <2>2. CASE amount * Scale >= s * ms
    BY <1>7, <1>9, <2>2
  <2>3. QED
    BY <2>1, <2>2
<1>11. g - h + a <= b + e + (f + Scale)
  BY <1>1, <1>7, <1>8
<1>12. QED
  BY <1>2, <1>3, <1>4, <1>5, <1>7, <1>10, <1>11

\* A card that claims is paid fairly, and leaves enough for the others.
LEMMA ClaimIsFair ==
  ASSUME NEW dist \in DistributionValues, Booked(dist), Fair(dist),
         dist.remainingMemberSupply <= dist.memberSupply,
         NEW c \in Cards, c \notin dist.claimed,
         NEW amount, amount = Capped(dist, ClaimAmount(dist, Share[c]))
  PROVE  Fair(Claimed(dist, c, amount))
<1>1. PICK ms \in Nat, rest \in Nat : ms = dist.memberSupply /\ rest = dist.remainingMemberSupply
  BY DEF DistributionValues
<1>2. PICK s \in Nat : s = Share[c]
  BY Constants
<1>3. /\ amount \in 0 .. rest /\ amount * Scale < s * ms + Scale
      /\ amount = rest \/ amount * Scale >= s * ms
  BY <1>1, <1>2, CappedShare
<1>4. PICK new : new = Claimed(dist, c, amount)
  OBVIOUS
<1>5. PICK claimed \in SUBSET Cards : claimed = dist.claimed
  BY DEF DistributionValues
<1>6. /\ new.memberSupply = ms
      /\ new.remainingMemberSupply = rest - amount
      /\ new.claimed = claimed \cup {c}
      /\ new.paid = [dist.paid EXCEPT ![c] = @ + amount]
  BY <1>1, <1>3, <1>4, <1>5, ClaimedType DEF Takes
<1>7. PICK paid \in [Cards -> Nat] : paid = dist.paid
  BY DEF DistributionValues
<1>8. /\ new.paid[c] = amount
      /\ \A b \in Cards \ {c} : new.paid[b] = paid[b]
  <2>1. paid[c] = 0
    BY <1>5, <1>7 DEF Booked
  <2>2. QED
    BY <1>3, <1>6, <1>7, <2>1
<1>9. IsFiniteSet(claimed)
  BY <1>5, FS_Subset, Constants
<1>10. PICK k \in Nat : k = Cardinality(claimed)
  BY <1>9, FS_CardinalityType
<1>11. Cardinality(claimed \cup {c}) = k + 1
  BY <1>5, <1>9, <1>10, FS_AddElement
<1>12. PICK x \in Nat : x = SumFunctionOnSet(Share, claimed)
  <2>1. \A b \in claimed : Share[b] \in Int /\ Share[b] >= 0
    BY Constants
  <2>2. QED
    BY <1>9, <2>1, SumType
<1>13. SumFunctionOnSet(Share, claimed \cup {c}) = s + x
  <2>1. \A b \in claimed : Share[b] \in Int
    BY Constants
  <2>2. SumFunctionOnSet(Share, claimed \cup {c}) = Share[c] + SumFunctionOnSet(Share, claimed)
    BY <1>2, <1>5, <1>9, <2>1, SumAdd
  <2>3. QED
    BY <1>2, <1>12, <2>2, Zenon
<1>14. x + s <= Scale
  <2>1. claimed \cup {c} \in SUBSET Cards
    OBVIOUS
  <2>2. \A b \in Cards : Share[b] \in Nat
    BY Constants
  <2>3. SumFunctionOnSet(Share, claimed \cup {c}) <= SumFunctionOnSet(Share, Cards)
    BY <2>1, <2>2, SumSubset, Constants
  <2>4. PICK all \in Int : all = SumFunctionOnSet(Share, Cards)
    BY <2>2, SumType, Constants
  <2>5. s + x <= all /\ all <= Scale
    BY <1>13, <2>3, <2>4, SharesAssumption, Zenon
  <2>6. QED
    BY <2>5, Constants
<1>15. Scale * (ms - rest) <= ms * x + Scale * k
  BY <1>1, <1>5, <1>10, <1>12, Zenon DEF Fair
<1>16. /\ amount * Scale >= s * ms - Scale * k
       /\ Scale * (ms - (rest - amount)) <= ms * (x + s) + Scale * (k + 1)
  <2>1. rest \in 0 .. ms
    BY <1>1
  <2>2. QED
    BY <1>3, <1>14, <1>15, <2>1, ClaimArithmetic
<1>17. ASSUME NEW b \in Cards
       PROVE  new.paid[b] * Scale < Share[b] * ms + Scale
  <2>1. CASE b = c
    BY <1>2, <1>3, <1>8, <2>1
  <2>2. CASE b # c
    <3>1. paid[b] * Scale < Share[b] * ms + Scale
      BY <1>1, <1>7 DEF Fair
    <3>2. QED
      BY <1>8, <2>2, <3>1
  <2>3. QED
    BY <2>1, <2>2
<1>18. ASSUME NEW b \in claimed \cup {c}
       PROVE  new.paid[b] * Scale >= Share[b] * ms - Scale * ((k + 1) - 1)
  <2>0. (k + 1) - 1 = k /\ Scale \in Nat
    BY Constants
  <2>1. CASE b = c
    BY <1>2, <1>8, <1>16, <2>0, <2>1
  <2>2. CASE b # c
    <3>1. paid[b] * Scale >= Share[b] * ms - Scale * (k - 1)
      BY <1>1, <1>5, <1>7, <1>10, <2>2 DEF Fair
    <3>2. b \in Cards /\ new.paid[b] = paid[b]
      BY <1>8, <2>2
    <3>3. Scale * (k - 1) = Scale * k - Scale
      BY <2>0
    <3>4. PICK u, v, w \in Int : u = paid[b] * Scale /\ v = Share[b] * ms /\ w = Scale * k
      <4>1. paid[b] \in Nat /\ Share[b] \in Nat
        BY <1>7, <3>2, Constants
      <4>2. QED
        BY <2>0, <4>1
    <3>5. u >= v - w
      BY <2>0, <3>1, <3>3, <3>4
    <3>6. QED
      BY <2>0, <3>2, <3>4, <3>5
  <2>3. QED
    BY <2>1, <2>2
<1>19. s + x = x + s
  OBVIOUS
<1>20. Fair(new)
  <2>1. \A b \in Cards : new.paid[b] * Scale < Share[b] * new.memberSupply + Scale
    BY <1>6, <1>17, Zenon
  <2>2. Cardinality(new.claimed) = k + 1
    BY <1>6, <1>11, Zenon
  <2>3. SumFunctionOnSet(Share, new.claimed) = x + s
    BY <1>6, <1>13, <1>19, Zenon
  <2>4. \A b \in new.claimed :
          new.paid[b] * Scale
            >= Share[b] * new.memberSupply - Scale * (Cardinality(new.claimed) - 1)
    BY <1>6, <1>18, <2>2, Zenon
  <2>5. Scale * (new.memberSupply - new.remainingMemberSupply)
          <= new.memberSupply * SumFunctionOnSet(Share, new.claimed)
               + Scale * Cardinality(new.claimed)
    BY <1>6, <1>16, <2>2, <2>3, Zenon
  <2>6. QED
    BY <2>1, <2>4, <2>5, Zenon DEF Fair
<1>21. QED
  BY <1>4, <1>20, Zenon

\* A claim of a fee pays no card.
LEMMA FeeIsBooked ==
  ASSUME NEW dist \in DistributionValues, ~dist.wasFeeClaimed
  PROVE  /\ Booked(dist) => Booked([dist EXCEPT !.wasFeeClaimed = TRUE])
         /\ Fair(dist) => Fair([dist EXCEPT !.wasFeeClaimed = TRUE])
<1>1. PICK new : new = [dist EXCEPT !.wasFeeClaimed = TRUE]
  OBVIOUS
<1>2. /\ new.memberSupply = dist.memberSupply
      /\ new.remainingMemberSupply = dist.remainingMemberSupply
      /\ new.claimed = dist.claimed
      /\ new.paid = dist.paid
  BY <1>1, FeeClaimedType
<1>3. (Booked(dist) => Booked(new)) /\ (Fair(dist) => Fair(new))
  BY <1>2, Zenon DEF Booked, Fair
<1>4. QED
  BY <1>1, <1>3, Zenon

\* What a card was paid is not changed once it has claimed.
Kept(was, is) ==
  /\ \A c \in was.claimed : is.paid[c] = was.paid[c]
  /\ is.paid # was.paid => was.claimed # is.claimed

\* A step pays cards no more than once, and keeps the invariant.
SharesStep ==
  /\ ShareInv'
  /\ \A p \in Parties : \A d \in DOMAIN distributions[p] :
       d \in DOMAIN distributions'[p] /\ Kept(distributions[p][d], distributions'[p][d])

\* A payment that is booked, and fair if the party is honest, is such a step.
LEMMA PaymentShares ==
  ASSUME TypeOK, ShareInv, NEW p, NEW d, NEW new, NEW amount, NEW moved,
         Pays(p, d, new, amount, moved), Booked(new), p \in Honest => Fair(new),
         Kept(distributions[p][d], new)
  PROVE  SharesStep
<1>1. Replaced(p, d, new)
  BY PaymentChanges
<1>2. ShareInv'
  BY <1>1 DEF ShareInv, Replaced
<1>3. \A q \in Parties : \A e \in DOMAIN distributions[q] :
        e \in DOMAIN distributions'[q] /\ Kept(distributions[q][e], distributions'[q][e])
  BY <1>1 DEF Kept, Replaced
<1>4. QED
  BY <1>2, <1>3 DEF SharesStep

\* Every step is one.
LEMMA StepShares == TypeOK /\ ShareInv /\ [Next]_vars => SharesStep
<1> SUFFICES ASSUME TypeOK, ShareInv, [Next]_vars PROVE SharesStep
  OBVIOUS
<1>1. ASSUME UNCHANGED distributions
      PROVE  SharesStep
  BY <1>1 DEF SharesStep, ShareInv, Kept
<1>2. ASSUME NEW p \in Parties, NEW sent \in Amounts \cup {0}, NEW bps \in FeeBps,
             CreateDistribution(p, sent, bps)
      PROVE  SharesStep
  <2>1. sent \in Nat
    BY DistributorAssumption
  <2>2. PICK supply : supply = (balance + sent) - storedBalance
    OBVIOUS
  <2>3. supply \in Nat
    <3>1. (balance + sent) - storedBalance > 0
      BY <1>2 DEF CreateDistribution
    <3>2. balance \in Int /\ storedBalance \in Int
      BY SumsAreNumbers
    <3>3. QED
      BY <2>1, <2>2, <3>1, <3>2
  <2>4. PICK new : new = NewDistribution(supply, bps)
    OBVIOUS
  <2>5. Booked(new) /\ Fair(new) /\ new \in DistributionValues
    BY <2>3, <2>4, NewIsFair, NewOwed
  <2>6. distributions' = [distributions EXCEPT ![p] = Append(distributions[p], new)]
    <3>1. distributions' = [distributions EXCEPT
            ![p] = Append(distributions[p], NewDistribution((balance + sent) - storedBalance, bps))]
      BY <1>2, Zenon DEF CreateDistribution
    <3>2. QED
      BY <2>2, <2>4, <3>1, Zenon
  <2>7. PICK ds \in Seq(DistributionValues) : ds = distributions[p]
    BY DistributionType
  <2>8. /\ distributions'[p] = Append(ds, new)
        /\ \A q \in Parties : q # p => distributions'[q] = distributions[q]
    BY <2>6, <2>7 DEF TypeOK
  <2>9. /\ \A e \in DOMAIN ds : e \in DOMAIN Append(ds, new) /\ Append(ds, new)[e] = ds[e]
        /\ \A e \in DOMAIN Append(ds, new) :
             Append(ds, new)[e] = new \/ (e \in DOMAIN ds /\ Append(ds, new)[e] = ds[e])
    BY <2>5
  <2>10. ShareInv'
    <3>1. ASSUME NEW q \in Parties, NEW e \in DOMAIN distributions'[q]
          PROVE  Booked(distributions'[q][e]) /\ (q \in Honest => Fair(distributions'[q][e]))
      <4>1. distributions'[q][e] = new \/ (e \in DOMAIN distributions[q]
                                             /\ distributions'[q][e] = distributions[q][e])
        BY <2>7, <2>8, <2>9
      <4>2. QED
        BY <2>5, <4>1 DEF ShareInv
    <3>2. QED
      BY <3>1 DEF ShareInv
  <2>11. \A q \in Parties : \A e \in DOMAIN distributions[q] :
           e \in DOMAIN distributions'[q] /\ distributions'[q][e] = distributions[q][e]
    BY <2>7, <2>8, <2>9
  <2>12. QED
    BY <2>10, <2>11 DEF SharesStep, Kept
<1>3. ASSUME NEW p \in Parties, NEW d \in DOMAIN distributions[p], NEW c \in Cards,
             NEW share \in SharesOf(p, c), NEW moved \in BOOLEAN, Claim(p, d, c, share, moved)
      PROVE  SharesStep
  <2>1. PICK dist : dist = distributions[p][d]
    OBVIOUS
  <2>2. PICK amount : amount = Capped(dist, ClaimAmount(dist, share))
    OBVIOUS
  <2>3. PICK new : new = Claimed(dist, c, amount)
    OBVIOUS
  <2>4. /\ c \notin dist.claimed
        /\ amount \in 0 .. dist.remainingMemberSupply
        /\ Pays(p, d, new, amount, moved)
    BY <1>3, <2>1, <2>2, <2>3, ClaimPays
  <2>5. /\ dist \in DistributionValues /\ dist.remainingMemberSupply <= dist.memberSupply
        /\ Booked(dist) /\ (p \in Honest => Fair(dist))
    BY <2>1, DistributionType DEF ShareInv
  <2>6. Booked(new)
    BY <2>3, <2>4, <2>5, ClaimIsBooked
  <2>7. ASSUME p \in Honest
        PROVE  Fair(new)
    <3>1. share = Share[c]
      BY <2>7 DEF SharesOf
    <3>2. QED
      BY <2>2, <2>3, <2>4, <2>5, <2>7, <3>1, ClaimIsFair
  <2>8. Kept(dist, new)
    <3>1. /\ new.claimed = dist.claimed \cup {c}
          /\ new.paid = [dist.paid EXCEPT ![c] = @ + amount]
      BY <2>3, <2>4, <2>5, ClaimedType DEF Takes
    <3>2. dist.paid \in [Cards -> Nat] /\ dist.claimed \subseteq Cards
      BY <2>5 DEF DistributionValues
    <3>3. QED
      BY <2>4, <3>1, <3>2 DEF Kept
  <2>9. QED
    BY <2>1, <2>4, <2>6, <2>7, <2>8, PaymentShares
<1>4. ASSUME NEW p \in Parties, NEW d \in DOMAIN distributions[p], NEW moved \in BOOLEAN,
             ClaimFee(p, d, moved)
      PROVE  SharesStep
  <2>1. PICK dist : dist = distributions[p][d]
    OBVIOUS
  <2>2. PICK new : new = [dist EXCEPT !.wasFeeClaimed = TRUE]
    OBVIOUS
  <2>3. Pays(p, d, new, dist.fee, moved) /\ ~dist.wasFeeClaimed
    BY <1>4, <2>1, <2>2, ClaimFeePays DEF ClaimFee
  <2>4. dist \in DistributionValues /\ Booked(dist) /\ (p \in Honest => Fair(dist))
    BY <2>1, DistributionType DEF ShareInv
  <2>5. Booked(new) /\ (p \in Honest => Fair(new))
    BY <2>2, <2>3, <2>4, FeeIsBooked
  <2>6. Kept(dist, new)
    BY <2>2, <2>3, <2>4, FeeClaimedType DEF Kept
  <2>7. QED
    BY <2>1, <2>3, <2>5, <2>6, PaymentShares
<1>5. QED
  BY <1>1, <1>2, <1>3, <1>4 DEF Next, Donate, MoveTokens, FinishTransfer, vars

\* The invariant of what cards are paid.
LEMMA ShareInvariant == Spec => []ShareInv
<1>1. Init => ShareInv
  BY DEF Init, ShareInv
<1>2. TypeOK /\ ShareInv /\ [Next]_vars => ShareInv'
  BY StepShares DEF SharesStep
<1>3. QED
  BY <1>1, <1>2, TypeCorrect, PTL DEF Spec

\* A card of an honest party is paid its share of the supply once, whatever claims
\* come in between: no more than the share rounded up, and no less than the share but
\* for one unit for each card that claimed before and was rounded up.
THEOREM SharesArePaid == Spec => []PaidItsShare
<1>1. ShareInv => PaidItsShare
  BY Constants DEF ShareInv, Fair, PaidItsShare
<1>2. QED
  BY <1>1, ShareInvariant, PTL

\* A distribution pays its members what it was created with and no more, each card at
\* most once, whatever shares its party answers at whatever time.
THEOREM SupplyIsOwn == Spec => OwnSupplyOnly
<1>1. TypeOK /\ ShareInv /\ [Next]_vars =>
        [\A p \in Parties : \A d \in DOMAIN distributions[p] :
           LET was == distributions[p][d]
               is == distributions'[p][d]
           IN /\ SumFunctionOnSet(is.paid, Cards) = is.memberSupply - is.remainingMemberSupply
              /\ \A c \in was.claimed : is.paid[c] = was.paid[c]
              /\ is.paid # was.paid => was.claimed # is.claimed]_vars
  <2> SUFFICES ASSUME TypeOK, ShareInv, [Next]_vars,
                      NEW p \in Parties, NEW d \in DOMAIN distributions[p]
               PROVE  LET was == distributions[p][d]
                          is == distributions'[p][d]
                      IN /\ SumFunctionOnSet(is.paid, Cards)
                              = is.memberSupply - is.remainingMemberSupply
                         /\ \A c \in was.claimed : is.paid[c] = was.paid[c]
                         /\ is.paid # was.paid => was.claimed # is.claimed
    BY Zenon
  <2>1. SharesStep
    BY StepShares
  <2>2. d \in DOMAIN distributions'[p] /\ Kept(distributions[p][d], distributions'[p][d])
    BY <2>1 DEF SharesStep
  <2>3. Booked(distributions'[p][d])
    BY <2>1, <2>2 DEF SharesStep, ShareInv
  <2>4. QED
    BY <2>2, <2>3, Zenon DEF Kept, Booked
<1>2. QED
  BY <1>1, TypeCorrect, ShareInvariant, PTL DEF Spec, OwnSupplyOnly

=============================================================================
