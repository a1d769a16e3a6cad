CONSTANTS
  a = a
  b = b
  None = None
  Self = Self
  Contributors <- MCContributors
  Delegates = {b}
  Amounts = {2}
  MinContribution = 2
  MaxContribution = 4
  SplitRecipient = b
  SplitBps = 3333
  Duration = 1
  Tokens = {1, 2}
  ShortBatches = {0, 2}
  MaxSurplus = 2
  MaxTime = 2
  FirstAuction = 1
  MaximumBids = {3}
  Bids = {1, 2}
  OthersBids = {1, 3}
  ReservePrice = 1
  MaximumPrice = 3
  Prices = {0, 1, 3}
  MaxUint96 = 99
  Kinds = {"buy"}
SPECIFICATION Spec
INVARIANT Solvent
