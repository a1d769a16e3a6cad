\* The party has one card already; lost below 10, cap at 16.
CONSTANTS
  a = a
  b = b
  None = None
  Self = Self
  Contributors <- MCContributors
  MinContribution = 4
  MaxContribution = 6
  MinTotalContributions = 10
  MaxTotalContributions = 16
  ExchangeRateBps = 10000
  FundingSplitBps = 5000
  Duration = 2
  Amounts = {4, 6}
  StartTotal = 3
  StartMinted = 3
  StartHolder = a
  ContributeToCards = TRUE
  MaxCards = 5
  MaxHeld = 4
  MaxTime = 3
  MaxSplit = 2
SPECIFICATION FairSpec
INVARIANTS TypeOK RefundsFunded NftsMatchPower PowerArrives PaidOutOnce
PROPERTY AllSettled
