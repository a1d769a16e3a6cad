SYMMETRY Members
SPECIFICATION Spec
CONSTANTS
  alice = alice
  bob = bob
  carol = carol
  crowdfund = crowdfund
  Accounts = {alice, bob, carol}
  None = None
  Authorities = {crowdfund}
  AuthorityAccounts = {crowdfund}
  InitialTotal = 1
  Grants = {2}
  Increases = {2}
  MaxTotal = 3
  MaxCards = 2
  MaxPower = 4
  MaxTime = 2
INVARIANTS SnapshotsMatchCards MintedIsAllPower
CHECK_DEADLOCK FALSE
