CONSTANTS
  alice = alice
  bob = bob
  t1 = t1
  t2 = t2
  t3 = t3
  t4 = t4
  Tx = {t1, t2, t3, t4}
  Account = {alice, bob}
  Sender <- MCSender
  Receiver <- MCReceiver
  Amount <- MCAmount
  Fee <- MCAmount
  Nonce <- MCNonce
  Parents <- MCParents
  Signed = {t1, t2, t3, t4}
  MaxU64 = 1
  n1 = n1
  n2 = n2
  n3 = n3
  lock = lock
  Manager = {n1, n2, n3}
  Lock = {lock}
  Home <- MCHome
  Away <- MCAway
  Expiry = 1
  LastShardStep = 3
  Voter = {v1, v2, v3}
  Resolver = {v1, v2}
  Dissenter = {v3}
  Candidate = {1, 2}
  Weight <- MCWeight
  Window = 1
  LastVoteStep = 1
  MaxVotes = 3
  Burst = 3
  Refill = 1
  Idle = 3
  EndTime = 6
  MaxCalls = 4
  Keep = 3
  EndStep = 12
  Proposer = {1, 2, 3, 4}
  Dim = {1}
  Coordinate = {0, 1, 3, 5, 10}
  Epsilon = 2
  RawWeight = {1, 2, 3}
  Tip = {1, 2}
  Root = {1, 2}
  TipsCount = 1
  Input <- MCInput
  Earner = {e1, e2}
  Epoch = 2
  MaxFees = 9
  FeeAmount = {1, 3}
  SlashTenths = 1
  MaxCount = 2
  LastEpochStep = 5
  Bootstrap = 1
  Extension = 1
  MinSteps = 2
  FloorGrace = 2
  Violations = 2
  LastUpdateStep = 4
  Predictors = 4
  Point = {0, 1, 2}
  Nearness = 2
  CloneThreshold = 2
  MinCluster = 3
  LastAnalysis = 2
  JumpThreshold = 5
  JumpStreak = 2
  TemporalWindow = 4
  VariationThreshold = 2
  AdaptiveWindow = 5
  MinSamples = 2
  ErrHigh = 6
  ErrLow = 2
  LastObservation = 6
  Observation <- MCObservation
  Member = {1, 2, 3, 4, 5, 6}
  Tolerance = 5
  ShardOf <- MCShardOf
  Submission <- MCSubmission
  Caller = {c1, c2}
  SkewPeer = {p1, p2}
  Skew <- MCSkew
  MaxSkew = 1
  SevereSkew = 2
  MaxChecks = 3
SPECIFICATION MCSpec
INVARIANTS
  LibraryTypeOK
  ReloadKeepsRefusing
  CreditedOnce
  OutgoingSettledOnce
  PairAgreement
  RateHolds
  ClusterCannotMoveMedian
  ClusterCannotDecideRoot
  FeesConserved
  EpochsApart
  FloorExact
  CoordinationExact
  JumpsExact
  PersistentJumpersAreInconsistent
  EvenErrorsAreNotAdaptive
  AttackersCannotMoveAnchor
  HonestShardsAreTrusted
  StatisticsAgree
CHECK_DEADLOCK FALSE
