\* A split of one half of 3 is rounded down, the refund computed back from it is not 3.
CONSTANTS
  a = a
  b = b
  None = None
  Self = Self
  Contributors <- MCContributors
  MinContribution = 2
  MaxContribution = 4
  MinTotalContributions = 6
  MaxTotalContributions = 8
  ExchangeRateBps = 10000
  FundingSplitBps = 5000
  Duration = 2
  Amounts = {3}
  StartTotal = 0
  StartMinted = 0
  StartHolder = None
  ContributeToCards = TRUE
  MaxCards = 3
  MaxHeld = 6
  MaxTime = 3
SPECIFICATION FairSpec
INVARIANT RefundsFunded
