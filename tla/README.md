# A TLA+ model of the Party Protocol

The Party Protocol lets a group raise ETH, buy NFTs and govern what it owns.
This directory models the contracts of `src/contracts/` in TLA+, checks them
with TLC on small instances and proves theorems about them with TLAPS.
`PROJECT.json` maps every definition to the lines it stands for.

All contracts are Solidity 0.8.17: arithmetic is checked, a transaction is
atomic, and a call that reverts changes nothing. So an action of the model is a
call that goes through, its guards are the conditions under which it does not
revert, and a reverting call is no step. What is *not* atomic is a call into
foreign code (a proposal's target, the recipient of ETH, a token's hook): it may
call back. Where the code makes such a call the model splits the operation into
a part before and a part after it, and keeps what waits in a stack or a record.

## Inventory

| Component | State it keeps | Operations | What makes it correct |
| --- | --- | --- | --- |
| Governance of proposals (`PartyGovernance`, `ProposalExecutionEngine`) | per proposal: times, votes, voters; hosts; in the engine: the proposal in progress and the hash of its next step | `propose`, `accept`, `veto`, `abdicateHost`, `execute`, `cancel`, `distribute`, `emergencyExecute` | only what was approved, in time and not vetoed runs; one proposal holds the party; votes are the voters' power before the proposal was made; nothing blocks the party for ever |
| Voting power (`PartyGovernanceNFT`, `PartyGovernance`) | cards with power, total and minted power, delegations, per account a list of snapshots | `mint`, `addVotingPower`, `increaseTotalVotingPower`, `burn`, transfers, `delegateVotingPower`, authorities | the snapshots are the sums the cards and delegations say; the past is never rewritten; the search finds the right snapshot |
| ETH crowdfunds (`ETHCrowdfundBase`, `InitialETHCrowdfund`, `ReraiseETHCrowdfund`) | contributions, expiry, delegates, pending power and crowdfund NFTs | `contribute*`, `finalize`, `refund`, `claim`, `claimMultiple` and batches | pays out or refunds, not both; refunds are covered; power is what was paid for and is not lost |
| Token distributor (`TokenDistributor`) | per token a stored balance, per distribution what remains and who claimed | `create*Distribution`, `claim`, `claimFee`, `emergencyExecute` | each distribution pays its own supply, to each card once |
| NFT crowdfunds (`Crowdfund`; auction, rolling auction, buy and batch buy) | contributions with the total before each, last bid or price, status, escrowed claims | `contribute`, `batchContribute*`, `bid`, `finalize`, `finalizeOrRollOver`, `buy`, `batchBuy`, `burn`, `claim` | ETH used and ETH owed add up per contributor; voting power sums to the price; the outcome is final; everybody is settled |
| Veto by vote (`VetoProposal`) | votes to veto per party and proposal | `voteToVeto` | the vote that reaches the threshold vetoes, in the same call, and no earlier one does |
| Listing proposals (Zora, OpenSea, Fractionalize) | the step a listing is in, inside the progress data; auction and order in the markets | execute steps | a precious NFT is auctioned first; what ended left nothing behind; no listing holds the party for ever |
| Other proposal types (arbitrary calls, operators, distribute, add authority) | none that lasts | one step each | arbitrary calls leave precious NFTs in place |
| `Globals`, gatekeepers | key-value store, allow lists | setters, `isAllowed` | two-step transfer of the multisig |
| Factories, proxies, helpers; renderers; market wrappers | none, or metadata | | |

How they interact. A crowdfund creates or extends a party: as an *authority* it
mints cards, adds power and raises the total. Governance reads voting power at
the tick before a proposal was made, through snapshots that every move of a card
or delegation writes. `execute()` hands a proposal to the engine by
`delegatecall`; the engine runs foreign calls and reports whether a further step
is needed. `distribute()` sends tokens of the party to the one distributor all
parties share, which asks the party for shares when a member claims.
`VetoProposal` is a contract that acts as a host. A listing is a proposal whose
steps call the markets; between two of its steps the markets and other members
act as they like. An NFT crowdfund creates its party with the price as total
voting power and mints a card for each contributor that burns.

What is hard, and what the properties are for:

- *Callbacks.* A proposal's step may call `execute`, `cancel`, `accept` of the
  same party; the contribution that reaches a cap pays two strangers before it
  is credited; a claim from the distributor may be made inside another; a seller
  or a market may contribute or burn in the middle of a purchase or a bid.
- *Two records of one fact.* Governance and engine each know what is in
  progress; a crowdfund NFT stands for pending power; a stored balance stands
  for a real one; a snapshot's sums stand for cards.
- *State read at one time and used at another.* Power at proposal time, total at
  vote time; the stored balance from before a call written after it.
- *Conversion.* ETH to power and back, with a split that is rounded; shares
  rounded up and capped.
- *Time.* Delays, expiry and forced cancellation race with execution; auctions
  and orders expire while the proposal that made them waits or was cancelled.

`PROJECT.json` lists the hazards at the lines where they bite, with the
properties that would catch them.

## Modules

| Module | Models | Extends | Proofs |
| --- | --- | --- | --- |
| `PowerHistory` | what proposals rely on of voting power (environment) | | |
| `PartyProposals` | governance and the execution engine | `PowerHistory` | `PartyProposals_proofs` |
| `ProposalLifecycle` | abstract: statuses of proposals | | refined by `PartyProposals` |
| `VetoProposal` | the veto contract as a host of the party | `PartyProposals` | `PartyProposals_proofs` |
| `ListingProposals` | Zora and OpenSea listings with their markets | `PartyProposals` | `PartyProposals_proofs` |
| `PartyVotingPower` | cards, delegations, snapshots, search | | `PartyVotingPower_proofs` |
| `VotingPowerLedger` | abstract: power as a sum over delegations | `PowerHistory` | refined by `PartyVotingPower` |
| `ETHCrowdfundBase`, `InitialETHCrowdfund`, `ReraiseETHCrowdfund` | ETH crowdfunds | | a `_proofs` module each |
| `Crowdfund`, `AuctionCrowdfund`, `BuyCrowdfund`, `NFTCrowdfund` | NFT crowdfunds of all kinds | | `NFTCrowdfund_proofs` |
| `TokenDistributor` | the distributor | | `TokenDistributor_proofs` |
| `SumTheorems` | nothing: lemmas about sums over finite sets | | used by all other proofs |

The modules `MC...` hold the values that a `.cfg` cannot write down. Definitions
named `X_Something` before an `X` are plausible wrong versions of `X`, each a bug
that one property catches; no specification uses them.

`PartyProposals` is governance with the engine behind it, for one party.
`prop[p]` holds the fields of `ProposalStateValues`, the voters and the options
of the proposal that matter (`maxExecutableTime`, `cancelDelay`); `engine` is the
storage of the engine; `stack` the executions under way, the innermost last.
`execute()` is `ExecuteBegin` (everything up to the first foreign call) and
`ReturnComplete` or `ReturnPartial`; between them all other actions may happen,
time excepted. Progress data is a model value, its hash the data itself; the
guard hash is a value no data has. Calls name the proposal by id and never by a
wrong proposal body: the hash of the body is checked first thing.

Between `PartyProposals` and `PartyVotingPower` stands `PowerHistory`, as
assumption of the one and guarantee of the other. It keeps a total, the power of
each member at each tick (`hist`) and who is active, and says how they may move:
power in the present only, never more of it than a total that is not 0, the total
only upwards. `PartyProposals` takes these moves as actions of its environment;
`VotingPowerLedger` is `PowerHistory` where power is what the accounts that
delegate to a member hold; and `PartyVotingPower` implements `VotingPowerLedger`
(`ImplementsLedger`) with `hist` mapped to what `getVotingPowerAt` answers.
This is why the proposals need no snapshots and the snapshots no proposals.

`ProposalLifecycle` is the abstract specification of a party: a status per
proposal that moves only as the comments on `ProposalStatus` say, with at most
one proposal that is executing or in progress.

`VetoProposal` adds the counter of the contract and, as a history variable that
the contract does not have, how often each member's vote was counted (`ballots`).
The contract is one of the hosts and does nothing but veto: it makes no other call
of a host and none of a member, though it is an address like theirs.
`VetoAtShare` measures the ballots, not the counter: what was cast against a
proposal, each ballot with the power its member had before the proposal, against
the share of the total at the moment of the call.

`ListingProposals` replaces the arbitrary returns of an execution by what the
listing code returns. `nft` says where the NFT is, `auction` is Zora's, `orders`
and `filled` are Seaport's, `approved` is the conduit's approval. `Succeeds` are
the conditions under which a step does not revert; `Begin` and `Return` are the
two ends of the step. Bids, `endAuction` by others and fills happen between
transactions. A proposal of kind `Other` returns what it likes.

`PartyVotingPower` is the cards, delegations and snapshots. Snapshots are
sequences as in the contract, `Insert` overwrites the last one within a second,
and `Rebalanced` performs the two-phase rebalancing of delegates in the order of
the code, each phase reading what the one before wrote. `FindIndex` is the binary
search of the contract as a recursive function; `SnapshotAt` decides between the
caller's hint and the search.

`ETHCrowdfundBase` holds what the ETH crowdfunds share: options, life cycle,
arithmetic, `_processContribution` up to its calls, `finalize`, and the party as
a crowdfund sees it (cards, total, minted, delegates). `InitialETHCrowdfund` and
`ReraiseETHCrowdfund` extend it with their own contribution, refund and claims.
A contribution that reaches the cap stays in `credit` while its calls run. A
batch of contributions is a sequence of contributions, and a claim of several
cards is one step, although the party calls the contributor with each card it
mints: pending power and crowdfund NFT are taken before the first card, and what
is called from within could as well be called before or after. Owners may transfer
and burn their party cards; `burned` keeps, as a history of `ReraiseETHCrowdfund`,
the power that went with them. In `batchContributeFor`
the crowdfund calls itself, so the sender of a leg is `Self`, and a leg may fail
and leave its ETH behind (`LegFails`). Gatekeepers refuse, which is no step.
That the receivers of ETH accept it is assumed.

`Crowdfund` holds what the NFT crowdfunds share: contributions with the total
before each, the share of each that the price used (`FinalContribution`),
burning, and the claims on what could not be delivered; the life cycle is a
parameter. `AuctionCrowdfund` adds bids, `finalize` and `finalizeOrRollOver` with
a market and other bidders around them; `BuyCrowdfund` adds purchases of one or
several NFTs. Bids, finalizing and purchases call others, so each is a step to
begin and one to end, with `Busy` between them; one record (`call`, `buying`) keeps
what the call under way has on its stack, and `Busy` lets no second one begin.
The others in the market bid from a set of their own (`OthersBids`), and the
crowdfund may roll over to any auction whose minimum bid is within the new bound,
also one that is over, as the code does not ask. `NFTCrowdfund` composes them into
a crowdfund of any `kind`; its `Tick` passes time only between transactions. `got` and `stray` are histories: what each contributor
got back, and ETH that was sent to the crowdfund without contributing.

`TokenDistributor` is the escrow for one token: tokens share nothing but code.
Native ETH leaves before the recipient's code runs; the hooks of an ERC777 token
run before and after the tokens move. Both are covered by `moved`. A party that
is not in `Honest` may answer any share at any time. Claims are by the owner of
the card; who owns it plays no part. A distribution keeps, beyond the contract's
state, a history of what each card got.

## Runs

| Run | Question | Bounds |
| --- | --- | --- |
| `ProposalVotes` | what is counted, passes, is vetoed and may run, with power, total and hosts that move | 2 members and the veto contract, 2 hosts, 1 proposal, power that is sold or grows to 4, total 3 to 4, 3 votes to veto, a width that 4 votes overflow when unanimity is computed, 4 ticks |
| `Listing` | two listings, or a listing and another proposal, compete for the engine and one NFT; implements `ProposalLifecycle`; *liveness* `PartyIsFreed` | 2 members, 2 proposals of three pairs of kinds, precious or not, orders of 3 and 1 ticks, 5 ticks |
| `VotingPower` | sums after every interleaving of card operations and delegations | 3 accounts, 2 cards, grants of 2, total 1 (which cuts them) raised to 3, 2 ticks, symmetry in the accounts |
| `VotingPowerHistory` | search, immutability, implements the ledger | 2 accounts, 1 card, a total that starts at 0, 3 ticks |
| `InitialCrowdfund` | payout, refunds, power, and the end of a new party's crowdfund | 2 contributors, amounts 2 and 4, cap 8, at most 3 cards |
| `ReraiseCrowdfund` | the same for a running party, with claims and burned cards; who is left waiting | 2 contributors, amounts 4 and 6, cap 16, a split of a half, lost below 10, up to 2 cards at once |
| `NftCrowdfund` | accounts, power, outcome and settlement of all four kinds | 2 contributors of whom one gets the split, 2 NFTs, bids 1 and 2 of the crowdfund and 1 and 3 of others, a bound of 2 on bids, prices 0, 1 and 3, 2 ticks |
| `Distributor` | solvency, shares, isolation of parties under nested transfers | 2 parties, 2 cards each, 2 distributions, nesting of 2 |

Why these bounds are enough for the interesting cases. Two proposals are needed
for one to be blocked by another, and two steps for one to be in progress; one is
enough for all that happens between a vote, a veto and an execution. Two listings
are the least with which the order of one is alive while the other ends: the
first order lasts three ticks and the second one. Three accounts are what one
operation can touch at most in rebalancing (a holder, the old and the new
delegate); two ticks show what is overwritten and what is not, three what a
search can miss. In the crowdfunds the amounts reach the cap exactly, pass it
with an excess that is returned, and stay below the minimum; two contributors
suffice for one to contribute or claim for the other, from within the other's
call too. In `ReraiseCrowdfund` what the cap or the split leaves can fit one card,
need several, or fit none: a contributor with 7 votes has too many for a card of 6
and too few for two of 4. In `NftCrowdfund` the crowdfund may bid 1 or 2 and win,
be outbid with 1 and roll over to an auction it wins with less than it bid before,
and a price of 3 out of contributions of 2 uses one of
them fully and one in part, with a split of a third that is rounded; two NFTs are
what a roll-over and a batch with a failed purchase need. In the distributor a
supply of 4 or 8 with shares of 7 and 3 tenths rounds in every claim, and a
nesting of two is the least at which one transfer's stored balance meets
another's. In `ProposalVotes` three votes to veto let one member alone reach the
share, and two members share it out; a proposal that is unanimous with three votes
cannot be tested for it with four.

The bounds that are not of the code (`MaxTime`, `MaxProposals`, `MaxTotal`,
`MaxPower`, `MaxCards`, `MaxHeld`, `MaxSplit`, `MaxSurplus`, `MaxDistributions`,
`MaxBalance`, `MaxDepth`, `MaxBallots`) are constants and appear in guards only. Integers have
the widths of the code where it matters, with small limits (`Uint40Max`,
`Uint96Max`, `MaxUint96`, `MaxUint`). Deadlock is not checked where the system
may stop: when time and the ids of the bound are used up.

In `InitialCrowdfund` and `ReraiseCrowdfund` the split and the rate divide all
amounts without a rest, since `RefundsFunded` is false otherwise: that is the
run `RefundRounding`. In `NftCrowdfund` the legs of a batch add up to the ETH
sent (`ShortBatches = {0}`), since `Solvent` is false otherwise: `BatchCredit`.

Four runs show where the code does not do what its documents or comments say:

- `RefundRounding`: the split is rounded down when ETH comes in, and the refund
  divides by the net share; a contribution of 3 with a split of one half is
  refunded 4. The last refund of a lost crowdfund can lack that one unit and
  reverts, until somebody sends it.
- `InitialDelegate`: `InitialETHCrowdfund._contribute` hands the caller's
  delegate to `mint`, not the one that `_processContribution` kept, so whoever
  contributes for another chooses the delegate of its first card.
- `BatchCredit`: `Crowdfund.batchContributeFor` pays each leg from the balance
  and compares their sum with nothing, so contributions can exceed the ETH held
  and the last refund of a lost crowdfund reverts.
- `VetoByOne`: `voteToVeto` counts a member each time it calls, so a veto need
  not have the share of the power behind it that the threshold asks for.

Observations that no run states:

- ETH of a leg of `InitialETHCrowdfund.batchContributeFor` that fails stays in
  the crowdfund although the comment says unused ETH is refunded (only what no
  leg was given is).
- With a funding split the total voting power of the party grows by gross
  contributions while cards are granted net ones, so the split's share of the
  power belongs to nobody.
- In a `ReraiseETHCrowdfund` the limits on a contribution, which is gross, are
  applied to the power of a card, which is net of the split, and the cap may cut a
  contribution below the minimum. So a contributor can hold more than `claim` allows
  on one card while no number of cards for `claimMultiple` adds up to it (power
  above the maximum and below twice the minimum, in the simplest case). `Stuck`
  says exactly when; `AllSettled` says that nobody else is left, and the run
  `ReraiseCrowdfund` reaches such states.
- `onlyActiveMember` admits a member who has delegated all its power away, where
  `governance.md` asks for effective power.
- The unanimity flag is computed anew at every step from the present total, so a
  proposal in progress can lose the unanimity it was executed with;
  `AuctionedFirst` holds because only the first step of a listing looks at it.
- `TokenDistributor._transfer` writes back the stored balance it computed before
  its call, over what a nested claim stored. What is held still covers all
  distributions (`Covered`), but the stored balance exceeds it and the next
  deposit is credited short or its creation reverts.
- Cards that their owners could not take belong to the crowdfund until they are
  claimed, and all of them are delegated as the first of them was.
- Who wins an auction and hands the NFT to the crowdfund before `finalize()` makes
  it win for its last bid, which came back to it.
- An auction nobody bid in cannot be finalized before the crowdfund expires.
- The documents of the buy crowdfunds say that a maximum price of zero is no
  maximum; a purchase for more than zero then reverts.
- A cancelled listing leaves its order live, or its NFT in the auction, until a
  later listing or `endAuction` ends it; `EndedListingIsSafe` is about listings
  that ran to their end.
- With `GLOBAL_OS_ZORA_AUCTION_TIMEOUT` at 0 the safety auction is skipped, so the
  theorem about it assumes it is not.

## Fairness

Only runs with a liveness property use it, and only for what goes on by itself
or what somebody is able and has reason to do:

- transactions end: weak fairness of the second halves (`Return` in
  `ListingSpec`, `ContributeReturn`, `CallGoesOn` in `NFTCrowdfund`);
- blocks follow each other: fairness of the tick; strong in `ListingSpec` and in
  `NFTCrowdfund`, where transactions that are open again and again disable it (a
  crowdfund may roll over without end, but not within one block without end);
- `PartyIsFreed` needs a member who keeps trying to cancel: strong fairness of
  `Cancel` for each proposal, since the steps of other transactions disable it;
- `Ends`, `AllSettled` and `Settling` need somebody to call what anyone may call:
  weak fairness of `finalize()` by a non-host, of `refund`, of `claim` or
  `claimMultiple` and of `burn`, which may be called for others;
- `Settling` further needs auctions that were bid in to come to their end, which
  they do by time.

Nobody is assumed to contribute, bid, vote, propose, or to be a host.

## Proofs

All theorems hold for every value of the constants that the named assumptions
admit. Every invariant and action property of a passing run is stated by one.

What is assumed of the constants. Accounts, members, contributors, NFTs, cards
and parties are finitely many. `TimeAssumption` keeps times below the bit that
marks a cancellation; `PowerAssumption` gives powers their width; `HashAssumption`
says that no progress data hashes to the guard or to none; `ProgressAssumption`
that the data listings return is progress data; `VetoHostAssumption` that the veto
contract has no power. `PowerNumbers`, `CrowdfundAssumption`, `OptionsAssumption`,
`AuctionAssumption`, `BuyAssumption`, `MaxSplitAssumption`, `DistributorAssumption`
and `KindsAssumption` are types and ranges; the split of an ETH crowdfund is below
100%. `NewPartyAssumption`: the party of an `InitialETHCrowdfund` starts without a
total and without cards, as `_createParty` makes it. `SharesAssumption`: the
shares an honest party answers add up to no more than the whole. A theorem that
needs more says so itself, and each of these conditions is listed below.

*Sums* (`SumTheorems`). `SumFunctionOnSet` is a fold; the module shows that the
fold does not depend on the order, and what a sum becomes when a function changes
at one or two places, when its set is split, grouped or enlarged, and how bounds
add up. Induction is by least counterexamples: `LeastSubset` and `LeastNatural`
come from the library's theorems on well-founded orders.

*Governance* (`PartyProposals_proofs`).

- `TypeCorrect`: `TypeOK`.
- `EngineAgreement`: `EngineAgrees`. It is not inductive: a new proposal could
  find an execution of its id already under way. The invariant `EngineInv` adds
  that ids not yet given out are idle (`FreshIds`).
- `ApprovalComesFirst`: `ExecutionFollowsApproval`. The invariant `ApprovalInv`
  adds for each proposal, executed or not, that its passing and its execution are
  not in the future, that it passed under a total that was not 0 (`TimesPast`),
  and that the total never fell below the initial one: then a vote that is
  unanimous of the present total is so of the initial one. A quotient that
  reaches a bound is turned into a product once, in `QuotientBound`.
- `VotesArePower` and `QuorumIsBacked`: `VotesAreVoterPower` and
  `QuorumBacksPassing`. `CountInv` says that the votes of a proposal are the sum
  of its voters' powers one second before it was proposed. That survives because
  that second is past once there is a proposal, so that nothing writes it again;
  and it needs that the power of all times stays within the total.
- `PartyFollowsLifecycle`: `Spec => FollowsLifecycle`, the refinement of
  `ProposalLifecycle`. `Shows` reads the abstract status off the concrete state;
  `TimeMoves` and `VoteMoves` say what time and one vote do to it; `StepMoves` has
  one case per action. It assumes `PowerBelowVeto`, that nobody's power is
  2^96-1: a proposer with as much would be born vetoed.

*Parties with more around them* (in the same module). `VetoedPartyIsParty` and
`ListingPartyIsParty` prove that a party with the veto contract and a party that
lists implement `PartyProposals`; so what is proved of parties holds of them
(`VetoedPartyApproves` says it once). `VetoComesWithShare` proves `VetoAtShare`.
The contract only knows its counter, which a veto clears; `BallotInv` ties it to
what was cast: while a proposal is not vetoed, the counter is the sum of the
ballots, each with its member's power before the proposal, which no later step
changes since that time is past. `TotalBelowVeto`, a total below 2^96-1, keeps
the votes of a proposal from being taken for the mark of a veto. `PreciousIsAuctioned`
and `EndedIsSafe` rest on `ListingInv`, which ties the progress data of the
proposal in progress to the auction and the order it made: who is in escrow,
whose auction it is, that it lasted its timeout, and that the conduit is approved
only for an NFT the party holds. `PreciousIsAuctioned` assumes that the timeout
of the safety auction is not 0, which turns it off.

*Voting power* (`PartyVotingPower_proofs`). Everything rests on one observation:
whatever an operation does to the snapshots of an account, in up to four
insertions, is to leave them or to record one snapshot of the present second
(`Written`, which composes by `WrittenTwice`). From it follow `TypesHold` (no power
falls below zero), the order of the snapshots (`OrderHolds`), `PastStays`
(`PastIsImmutable`) and `OfferIsVerified`: the index a caller offers is used only
if it is the right one. `SearchIsRight` (`SearchFindsLatest`) proves the binary
search for histories of any length, by the number of snapshots between its
bounds: the answer never leaves them.

`SnapshotsAreTrue` and `MintedIsPower` (`SnapshotsMatchCards`,
`MintedIsAllPower`) rest on `PowerInvariant`: the last snapshots match what the
cards and delegations say (`LedgerTrue`), the minted power is that of all cards
(`AllHeld`) and cards not minted yet are nobody's (`Unminted`). The heart is that
`_adjustVotingPower` for one account moves exactly its own power between two
delegates; a transfer is two such adjustments, and between them nothing is read
that the first has not written. `PowerIsWithinTotal` says of a party that starts
with a total that it never mints more.

`LedgerIsImplemented` is the refinement of `VotingPowerLedger`, and with it of the
assumption `PartyProposals` makes. It holds on one condition, `StartCovers`: the
first total of a party covers the power that was minted before it. `mint()` does
not look at the total while it is 0, and `increaseTotalVotingPower` does not look
at what was minted, so this is up to the authority; that an `InitialETHCrowdfund`
sees to it is what `GrantsAreWhole` says. `PartyIsLedger` drops the condition for
parties that start with a total, or whose increases are no less than the bound on
what may be minted before, which is what the run `VotingPowerHistory` has.

*Distributor* (`TokenDistributor_proofs`).

- `TypeCorrect`: `TypeOK`; no debt goes below zero.
- `DebtsAreCovered`: `Covered`. A transfer under way will write back the stored
  balance it computed before its call. `CoverInv` adds that what is owed, with
  what the transfers under way set aside, stays within the stored balance
  (`Guarded`), and that each transfer can still pay (`Affordable`); so also the
  stale balance covers the debts when it is written.
- `SharesArePaid`: `PaidItsShare`. Each claim of an honest party rounds up, by
  less than one; `Fair` bounds what n claims can have taken by their shares and n,
  so that a card that finds less than its share misses less than one for each
  claim before it. `Booked` ties what was paid to what remains.
- `SupplyIsOwn`: `OwnSupplyOnly`.

*NFT crowdfunds* (`NFTCrowdfund_proofs`), for all kinds.

- `WinIsBacked` and `OutcomeIsFinal`: `WonHoldsNft` and `FinalIsFinal`, from
  `OutcomeInv`: what a bid or purchase under way keeps on its stack agrees with
  the status, the price and the place of the NFTs. That a win is one of the last
  auction and is paid for there needs `LatestInv` as well: a price that is not 0 was
  bid in the auction the crowdfund is in, and no later bid there is lower.
- `EtherIsAccounted`: `EveryEtherAccounted`. The invariant `Tiled`: the entries of
  all contributors tile the ETH contributed, so that any price up to the total
  uses exactly the price of them.
- `PowerIsPrice`: `PowerSumsToPrice`; rounding adds up to less than one vote for
  each contributor.
- `OwedIsPaid`: `PaidWhatIsOwed`, from `PaidInv`: who has neither burned nor
  claimed has got nothing, and the claims that wait are what was not delivered.
- `TypeCorrect`: `TypeOK`, by the invariants before and by `MarketInv`: the only
  bid the crowdfund has in any auction is its price, in its own one.
- `RefundsAreCovered`: `Solvent`. `MoneyInv` is the balance sheet: the balance, what
  was paid back and what is with the market or the seller are what was
  contributed and what came in otherwise. It assumes that the legs of a batch
  credit what they send (`ShortBatches = {0}`); the run `BatchCredit` shows that it
  fails without.

*ETH crowdfunds* (`ETHCrowdfundBase_proofs`, `InitialETHCrowdfund_proofs`,
`ReraiseETHCrowdfund_proofs`).

- `PaysOnce`, of both: `PaidOutOnce`. The party and the recipient of the split get
  all contributions exactly once, and the total grows with that payment only.
  The invariant `PaidInv` adds the types of the balances; every operation that
  pays starts from an expiry that is not 0 and leaves it 0, and none touches the
  contributions afterwards, whatever calls back.
- `TypeCorrect`, of both, from `BoughtInv` and `PendingInv`, which build on
  `LedgerInv`: all ETH there is came from the contributors.
- `GrantsAreWhole`: the total the payout sets covers the cards minted before and
  the grant that waits for its calls. `ClaimsAreWhole`: the total of the party
  leaves room for all power that is pending or on its way. So `mint()` cuts
  neither, for all options.
- `PowerIsPaid` (`PowerIsBought`) and `RefundsArePaid`, of both (`RefundsFunded`), under
  the condition `Even`: the split divides every amount and the cap, as it does if
  there is none. Then power is paid for by what contributions leave after the
  split. Without `Even` the split of each contribution is rounded down and that
  of the whole is not: the run `RefundRounding` shows a refund that is not there.
- `AllPowerArrives` (`PowerArrives`) under the condition `Exact`: split and rate
  divide every amount and the cap. Otherwise the power of the whole can exceed
  that of its parts by what was rounded off. `CardsHeld` says that the cards hold no
  more than the minted power, so that what an owner burns was minted.
- `NftsAreTrue` (`NftsMatchPower`) under the condition `Generous`: the rate gives at
  least one vote for each wei. With less, a small contribution buys nothing and
  still mints a crowdfund NFT.

Only model-checked is liveness (`PartyIsFreed`, `Ends`, `AllSettled`, `Settling`),
which is out of the prover's reach. Of the properties that runs find violated,
`RefundsFunded` and `Solvent` are proved under the conditions above; the other two
are false.

## Not modelled

`emergencyExecute` of all contracts is an arbitrary call by the DAO and would
allow any state. `distribute()` of the party moves its tokens to the distributor,
whose side is modelled; the upgrade of the engine runs a migration that is not in
the repository. Proposals of one step (arbitrary calls, operators, distribution,
authorities, Fractionalize) keep no state: for the engine they are a proposal that
returns at once, and `AddAuthority` appears as an operation of `PartyVotingPower`.
Listings of ERC1155 tokens are left out, and so are the fees and considerations of
an order. `Globals` and gatekeepers are constants of the modules that read them.
Factories, proxies, market wrappers, helpers and renderers keep no state of their
own. Gas, signatures, ABI decoding and formatting are left out. ERC721 approvals
are left to the owner: an approved account does what the owner may do. Balances
that overflow their 96 bits are outside the bounds; where overflow matters
(`_isUnanimousVotes` multiplies in uint96) the operator reverts as the code does.
A funding split of 100% is excluded by assumption: the code accepts it and then
divides by zero in every refund. The scripts, tests and vendored libraries under
`src/` are not part of the protocol; of OpenZeppelin only what the contracts call
plays a part.

## Plan

What is left, in the order of its worth:

1. ERC1155 listings, whose amounts let two orders be alive at once, and the
   operators, whose callers act on behalf of the party for a while.
2. `distribute()` and the balances of a party, composed with `TokenDistributor`.
3. The order in which the listing of one party and the crowdfund of another meet
   in one market.
4. Proofs: by how much refunds can fall short without `Even`, given how many
   contributions there were; that a crowdfund implements the part of an authority that
   `StartCovers` asks for, as a composition of the two modules; an abstract life
   cycle of crowdfunds that all four crowdfund modules refine.
