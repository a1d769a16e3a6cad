SPECIFICATION VetoSpec
CONSTANTS
  alice = alice
  bob = bob
  VetoHost = VetoHost
  Members = {alice, bob, VetoHost}
  Hosts = {bob, VetoHost}
  MaxProposals = 1
  VoteDuration = 2
  ExecutionDelay = 1
  PassThresholdBps = 5000
  InitialTotal = 3
  MaxTotal = 4
  MinCancelDelay = 1
  MaxCancelDelay = 2
  MaxExecutableTimes = {3}
  CancelDelays = {0}
  NoData = "none"
  GuardHash = "guard"
  Progress = {"listed"}
  Powers <- GrowingPowers
  Uint40Max = 15
  Uint96Max = 35000
  DisableValues = {TRUE}
  MaxTime = 4
  MaxBallots = 3
INVARIANTS TypeOK VotesAreVoterPower ExecutionFollowsApproval
PROPERTIES FollowsLifecycle QuorumBacksPassing VetoAtShare
CHECK_DEADLOCK FALSE
