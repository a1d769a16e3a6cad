-------------------------- MODULE PartyVotingPower --------------------------
(***************************************************************************)
(* The voting power of a party: the cards of PartyGovernanceNFT and the    *)
(* snapshots of PartyGovernance.  Every operation on a card adjusts the    *)
(* power of its owner, which writes a snapshot of the owner and of the     *)
(* delegates concerned; a snapshot taken in the same second as the last    *)
(* one replaces it.  The past is read by binary search, or through an      *)
(* index that the caller offers and the contract verifies.                 *)
(*                                                                         *)
(* Approved operators of ERC721 act as the owner does, so the owner stands *)
(* for them.                                                               *)
(***************************************************************************)
EXTENDS Integers, Sequences, FiniteSets, FiniteSetsExt, SequencesExt, Functions

CONSTANTS
  Accounts,
  None,               \* address(0)
  Authorities,        \* PartyInitData.authorities
  AuthorityAccounts,  \* accounts that AddAuthorityProposal may name
  InitialTotal,       \* GovernanceOpts.totalVotingPower; 0 until a crowdfund ends
  Grants,             \* the voting power an authority may grant at once
  Increases,          \* what an authority may add to the total
  MaxTotal,           \* bound on the total
  MaxCards,           \* bound on the cards minted
  MaxPower,           \* bound on the power minted while the total is 0
  MaxTime             \* bound on block.timestamp

ASSUME PowerNumbers ==
  /\ {InitialTotal, MaxTotal, MaxCards, MaxPower, MaxTime} \subseteq Nat
  /\ Grants \subseteq Nat /\ Increases \subseteq Nat
  /\ 0 < MaxTime

ASSUME PowerAccounts ==
  /\ IsFiniteSet(Accounts) /\ None \notin Accounts
  /\ Authorities \subseteq AuthorityAccounts

VARIABLES
  now,          \* block.timestamp
  snaps,        \* _votingPowerSnapshotsByVoter
  delegations,  \* delegationsByVoter
  cards,        \* ownerOf and votingPowerByTokenId
  tokenCount,
  minted,       \* mintedVotingPower
  total,        \* _governanceValues.totalVotingPower
  isAuthority

powerVars == <<snaps, delegations>>
cardVars == <<cards, tokenCount, minted>>
vpVars == <<now, snaps, delegations, cards, tokenCount, minted, total, isAuthority>>

Cards == 1 .. MaxCards

NoCard == [owner |-> None, power |-> 0]

----------------------------------------------------------------------------
(* Snapshots                                                               *)

NoSnap == [timestamp |-> 0, delegated |-> 0, intrinsic |-> 0, isDelegated |-> FALSE]

\* _getLastVotingPowerSnapshotForVoter.
LastSnap(ss, v) == IF ss[v] = <<>> THEN NoSnap ELSE Last(ss[v])

\* Seeded bug: the snapshot carries the time of the next second, so that the
\* next operation of this one does not replace it.
Recorded_Ahead(s, snap) == Append(s, [snap EXCEPT !.timestamp = @ + 1])

\* Seeded bug: the last snapshot is replaced when it is one second old, too.
Recorded_Late(s, snap) ==
  IF s # <<>> /\ s[Len(s)].timestamp >= snap.timestamp - 1
  THEN [s EXCEPT ![Len(s)] = snap] ELSE Append(s, snap)

\* _insertVotingPowerSnapshot.
Recorded(s, snap) ==
  IF s # <<>> /\ s[Len(s)].timestamp = snap.timestamp
  THEN [s EXCEPT ![Len(s)] = snap] ELSE Append(s, snap)

Insert(ss, v, snap) == [ss EXCEPT ![v] = Recorded(@, snap)]

\* Adds delta to the delegated power of v.
Redelegated(ss, v, delta) ==
  LET last == LastSnap(ss, v)
  IN  Insert(ss, v, [last EXCEPT !.timestamp = now, !.delegated = @ + delta])

\* Seeded bug: the old power of the voter stays with a delegate it keeps.
Rebalanced_DoubleCounts(ss, v, from, to, before, after) ==
  LET left == IF from \notin {v, to} THEN Redelegated(ss, from, -before) ELSE ss
  IN  IF to = v THEN left ELSE Redelegated(left, to, after)

\* _rebalanceDelegates: v moves its power, before and then after, from delegate
\* from to delegate to.
Rebalanced(ss, v, from, to, before, after) ==
  LET left == IF from \notin {v, to} THEN Redelegated(ss, from, -before) ELSE ss
  IN  IF to = v THEN left
      ELSE Redelegated(left, to, IF to = from THEN after - before ELSE after)

CurrentDelegate(ds, v) == IF ds[v] = None THEN v ELSE ds[v]

(***************************************************************************)
(* _adjustVotingPower on the snapshots and delegations of ledger l: delta  *)
(* is added to the power v holds, and v delegates to d unless d is None.   *)
(***************************************************************************)
Adjusted(l, v, delta, d) ==
  LET old  == LastSnap(l.snaps, v)
      from == CurrentDelegate(l.delegations, v)
      to   == IF d = None THEN from ELSE d
      held == old.intrinsic + delta
      own  == [old EXCEPT !.timestamp = now, !.intrinsic = held, !.isDelegated = (to # v)]
  IN  [snaps |-> Rebalanced(Insert(l.snaps, v, own), v, from, to, old.intrinsic, held),
       delegations |-> [l.delegations EXCEPT ![v] = to]]

Ledger == [snaps |-> snaps, delegations |-> delegations]

\* The checked arithmetic reverts where a power would become negative.
NoUnderflow(l) ==
  \A v \in Accounts : LastSnap(l.snaps, v).intrinsic >= 0 /\ LastSnap(l.snaps, v).delegated >= 0

AdjustTo(l) ==
  /\ NoUnderflow(l)
  /\ snaps' = l.snaps
  /\ delegations' = l.delegations

----------------------------------------------------------------------------
(* Reading the past                                                        *)

\* Whether the snapshot at index i, from 0, is more recent than t.
TooRecent(s, i, t) == s[i + 1].timestamp > t

\* findVotingPowerSnapshotIndex: the number of snapshots up to t, which is the
\* index looked for plus one, and 0 when there is none.
FindIndex(s, t) ==
  LET search[r \in (0 .. Len(s)) \X (0 .. Len(s))] ==
        LET low == r[1]
            high == r[2]
            mid == (low + high) \div 2
        IN  IF low >= high THEN high
            ELSE IF TooRecent(s, mid, t) THEN search[<<low, mid>>]
            ELSE search[<<mid + 1, high>>]
  IN  search[<<0, Len(s)>>]

\* Seeded bug: the offered index is not compared with the snapshot after it.
HintHolds_TooOld(s, t, hint) == hint < Len(s) /\ ~TooRecent(s, hint, t)

HintHolds(s, t, hint) ==
  /\ hint < Len(s)
  /\ ~TooRecent(s, hint, t)
  /\ hint = Len(s) - 1 \/ TooRecent(s, hint + 1, t)

\* _getVotingPowerSnapshotAt.
SnapshotAt(s, t, hint) ==
  IF HintHolds(s, t, hint) THEN s[hint + 1]
  ELSE LET found == FindIndex(s, t) IN IF found = 0 THEN NoSnap ELSE s[found]

PowerIn(snap) == (IF snap.isDelegated THEN 0 ELSE snap.intrinsic) + snap.delegated

\* getVotingPowerAt without a hint.
PowerAt(v, t) == PowerIn(SnapshotAt(snaps[v], t, Len(snaps[v])))

----------------------------------------------------------------------------
(* Operations                                                              *)

\* Seeded bug: only the amount itself is compared with the total.
Granted_OneAtATime(amount) == IF total # 0 /\ total < amount THEN total ELSE amount

\* The power mint() and addVotingPower() grant: what remains of the total, once
\* there is one.
Granted(amount) ==
  IF total # 0 /\ total - minted < amount THEN total - minted ELSE amount

GrantGuard(a, amount) ==
  /\ a \in isAuthority
  /\ total # 0 => minted <= total
  /\ minted + Granted(amount) <= MaxPower

Mint(a, owner, amount, delegate) ==
  LET card == tokenCount + 1
      d    == IF delegations[owner] # None THEN delegations[owner] ELSE delegate
  IN  /\ GrantGuard(a, amount)
      /\ card \in Cards
      /\ tokenCount' = card
      /\ minted' = minted + Granted(amount)
      /\ cards' = [cards EXCEPT ![card] = [owner |-> owner, power |-> Granted(amount)]]
      /\ AdjustTo(Adjusted(Ledger, owner, Granted(amount), d))
      /\ UNCHANGED <<now, total, isAuthority>>

AddVotingPower(a, card, amount) ==
  /\ GrantGuard(a, amount)
  /\ cards[card].owner # None
  /\ minted' = minted + Granted(amount)
  /\ cards' = [cards EXCEPT ![card].power = @ + Granted(amount)]
  /\ AdjustTo(Adjusted(Ledger, cards[card].owner, Granted(amount), None))
  /\ UNCHANGED <<now, tokenCount, total, isAuthority>>

IncreaseTotalVotingPower(a, amount) ==
  /\ a \in isAuthority
  /\ total + amount <= MaxTotal
  /\ total' = total + amount
  /\ UNCHANGED <<now, isAuthority>>
  /\ UNCHANGED powerVars
  /\ UNCHANGED cardVars

\* burn() by the owner at any time, by an authority until there is a total.
Burn(s, card) ==
  LET owner == cards[card].owner
      power == cards[card].power
  IN  /\ owner # None
      /\ s = owner \/ (total = 0 /\ s \in isAuthority)
      /\ power <= minted
      /\ minted' = minted - power
      /\ cards' = [cards EXCEPT ![card] = NoCard]
      /\ AdjustTo(Adjusted(Ledger, owner, -power, None))
      /\ UNCHANGED <<now, tokenCount, total, isAuthority>>

\* Seeded bug: the receiver is adjusted first, from what the sender's step has
\* not written yet.
Moved_FromStale(from, to, power) ==
  [snaps |-> Adjusted(Ledger, to, power, None).snaps,
   delegations |-> Adjusted(Adjusted(Ledger, from, -power, None), to, power, None).delegations]

\* _transferVotingPower.
Moved(from, to, power) == Adjusted(Adjusted(Ledger, from, -power, None), to, power, None)

TransferFrom(card, to) ==
  LET from == cards[card].owner
  IN  /\ from # None
      /\ NoUnderflow(Adjusted(Ledger, from, -cards[card].power, None))
      /\ AdjustTo(Moved(from, to, cards[card].power))
      /\ cards' = [cards EXCEPT ![card].owner = to]
      /\ UNCHANGED <<now, tokenCount, minted, total, isAuthority>>

DelegateVotingPower(v, d) ==
  /\ AdjustTo(Adjusted(Ledger, v, 0, d))
  /\ UNCHANGED <<now, total, isAuthority>>
  /\ UNCHANGED cardVars

\* addAuthority, which the party only calls on itself.
AddAuthority(a) ==
  /\ isAuthority' = isAuthority \cup {a}
  /\ UNCHANGED <<now, total>>
  /\ UNCHANGED powerVars
  /\ UNCHANGED cardVars

AbdicateAuthority(a) ==
  /\ a \in isAuthority
  /\ isAuthority' = isAuthority \ {a}
  /\ UNCHANGED <<now, total>>
  /\ UNCHANGED powerVars
  /\ UNCHANGED cardVars

Tick ==
  /\ now < MaxTime
  /\ now' = now + 1
  /\ UNCHANGED <<total, isAuthority>>
  /\ UNCHANGED powerVars
  /\ UNCHANGED cardVars

Init ==
  /\ now = 1
  /\ snaps = [v \in Accounts |-> <<>>]
  /\ delegations = [v \in Accounts |-> None]
  /\ cards = [c \in Cards |-> NoCard]
  /\ tokenCount = 0
  /\ minted = 0
  /\ total = InitialTotal
  /\ isAuthority = Authorities

Next ==
  \/ \E a \in isAuthority, v \in Accounts, n \in Grants, d \in Accounts \cup {None} :
       Mint(a, v, n, d)
  \/ \E a \in isAuthority, c \in Cards, n \in Grants : AddVotingPower(a, c, n)
  \/ \E a \in isAuthority, n \in Increases : IncreaseTotalVotingPower(a, n)
  \/ \E s \in Accounts \cup isAuthority, c \in Cards : Burn(s, c)
  \/ \E c \in Cards, to \in Accounts : TransferFrom(c, to)
  \/ \E v \in Accounts, d \in Accounts \cup {None} : DelegateVotingPower(v, d)
  \/ \E a \in AuthorityAccounts : AddAuthority(a)
  \/ \E a \in isAuthority : AbdicateAuthority(a)
  \/ Tick

Spec == Init /\ [][Next]_vpVars

----------------------------------------------------------------------------
(* Properties                                                              *)

Snapshots ==
  [timestamp : 0 .. MaxTime, delegated : Nat, intrinsic : Nat, isDelegated : BOOLEAN]

TypeOK ==
  /\ now \in 1 .. MaxTime
  /\ snaps \in [Accounts -> Seq(Snapshots)]
  /\ delegations \in [Accounts -> Accounts \cup {None}]
  /\ cards \in [Cards -> [owner : Accounts \cup {None}, power : Nat]]
  /\ tokenCount \in 0 .. MaxCards
  /\ minted \in Nat /\ total \in Nat
  /\ isAuthority \subseteq AuthorityAccounts

CardsOf(v) == {c \in Cards : cards[c].owner = v}

PowerOfCard == [c \in Cards |-> cards[c].power]

PowerHeld(v) == SumFunctionOnSet(PowerOfCard, CardsOf(v))

Held == [v \in Accounts |-> PowerHeld(v)]

DelegatorsOf(v) == {u \in Accounts \ {v} : delegations[u] = v}

\* The running sums of the last snapshots are what they stand for: a member's
\* intrinsic power is that of its cards, its delegated power that of the members
\* who delegate to it, after any order of mints, burns, transfers, delegations
\* and redelegations, in one second or several.
SnapshotsMatchCards ==
  \A v \in Accounts :
    LET last == LastSnap(snaps, v)
    IN  /\ last.intrinsic = PowerHeld(v)
        /\ last.delegated = SumFunctionOnSet(Held, DelegatorsOf(v))
        /\ last.isDelegated = (CurrentDelegate(delegations, v) # v)

\* Binary search and the check of a caller's index both find the latest snapshot
\* up to the time asked for, whatever index the caller offers.
SearchFindsLatest ==
  \A v \in Accounts, t \in 0 .. MaxTime :
    LET s == snaps[v]
        upTo == {i \in DOMAIN s : s[i].timestamp <= t}
        latest == IF upTo = {} THEN NoSnap ELSE s[Max(upTo)]
    IN  \A hint \in 0 .. Len(s) + 1 : SnapshotAt(s, t, hint) = latest

\* The power minted is the power of all cards, nobody loses or gains any by
\* delegation, and a party that starts with a total never mints more than it.
MintedIsAllPower ==
  /\ minted = SumFunction(PowerOfCard)
  /\ minted = SumFunction([v \in Accounts |-> PowerAt(v, now)])
  /\ InitialTotal # 0 => minted <= total

\* The snapshots of a voter are in the order of time, none in the future.
SnapshotsInOrder ==
  \A v \in Accounts :
    /\ \A i, j \in DOMAIN snaps[v] : i < j => snaps[v][i].timestamp < snaps[v][j].timestamp
    /\ \A i \in DOMAIN snaps[v] : snaps[v][i].timestamp <= now

\* A snapshot of an earlier second is never written again, so that no later
\* operation changes the power a vote on an open proposal counts.
PastIsImmutable ==
  [][\A v \in Accounts : \A i \in DOMAIN snaps[v] :
       snaps[v][i].timestamp < now =>
         i \in DOMAIN snaps'[v] /\ snaps'[v][i] = snaps[v][i]]_vpVars

\* Snapshots, rebalancing and search implement the ledger of power, whatever
\* members and authorities do with cards and delegations.  So proposals get the
\* history they rely on: the past as it was, and never more power than the total
\* that a vote is measured against.
PowerLedger == INSTANCE VotingPowerLedger WITH
  Members <- Accounts,
  held <- Held,
  delegateOf <- [v \in Accounts |-> CurrentDelegate(delegations, v)],
  hist <- [t \in 0 .. MaxTime |-> [v \in Accounts |-> PowerAt(v, t)]],
  active <- {v \in Accounts : LastSnap(snaps, v).intrinsic # 0 \/ LastSnap(snaps, v).delegated # 0}

ImplementsLedger == PowerLedger!Spec

=============================================================================
