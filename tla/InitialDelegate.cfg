\* Two contributors who may contribute for each other.
CONSTANTS
  a = a
  b = b
  None = None
  Self = Self
  Contributors <- MCContributors
  MinContribution = 2
  MaxContribution = 4
  MinTotalContributions = 6
  MaxTotalContributions = 8
  ExchangeRateBps = 20000
  FundingSplitBps = 5000
  Duration = 2
  Amounts = {2, 4}
  StartTotal = 0
  StartMinted = 0
  StartHolder = None
  ContributeToCards = TRUE
  MaxCards = 3
  MaxHeld = 6
  MaxTime = 3
SPECIFICATION FairSpec
PROPERTY InitialDelegateIsOnlyInitial
