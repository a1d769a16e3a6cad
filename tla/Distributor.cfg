\* Two distributions at once, of 4 or 8 with or without a fee; nested transfers.
CONSTANTS
  home = home
  other = other
  c1 = c1
  c2 = c2
  Parties <- MCParties
  Cards <- MCCards
  Honest <- MCHonest
  Share <- MCShare
  AnyShares = {15}
  Scale = 10
  MaxUint = 100
  Amounts = {4}
  FeeBps = {0, 3400}
  MaxDistributions = 2
  MaxBalance = 8
  MaxDepth = 2
SPECIFICATION Spec
INVARIANTS TypeOK Covered PaidItsShare
PROPERTY OwnSupplyOnly
CHECK_DEADLOCK FALSE
