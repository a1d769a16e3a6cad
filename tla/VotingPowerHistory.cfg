SPECIFICATION Spec
CONSTANTS
  alice = alice
  bob = bob
  carol = carol
  crowdfund = crowdfund
  Accounts = {alice, bob}
  None = None
  Authorities = {crowdfund}
  AuthorityAccounts = {crowdfund}
  InitialTotal = 0
  Grants = {1}
  Increases = {2}
  MaxTotal = 2
  MaxCards = 1
  MaxPower = 2
  MaxTime = 3
INVARIANTS TypeOK SearchFindsLatest
PROPERTIES PastIsImmutable ImplementsLedger
CHECK_DEADLOCK FALSE
